------------------------------- MODULE Memory -------------------------------
(***************************************************************************)
(* The episodic memory of shared-agents-memory: MemoryService              *)
(* (src/memory/service.ts), the counter buffer beside it                   *)
(* (src/memory/reinforcement.ts) and the Qdrant collection both write.     *)
(*                                                                         *)
(* Qdrant executes one call at a time and each call is atomic; the service *)
(* does nothing between its calls that keeps others out.  So every await   *)
(* on Qdrant is a step boundary, and what a request read stays in its      *)
(* `seen` however old it gets.                                             *)
(***************************************************************************)
EXTENDS Integers, FiniteSets

CONSTANTS
    Ids,             \* point ids, global to the collection
    NoId,            \* not a point id
    Namespaces,
    Contents,
    NearPairs,       \* pairs of contents between the dedup and reinforce scores
    Reqs,            \* requests, each made at most once
    Ops,             \* operations the requests may ask for
    CallerIds,       \* ids callers make up; they also name any id they have seen
    Seeded,          \* ids stored at the start, one namespace, one content
    DedupNamespaces, \* namespaces whose dedup_threshold is below 1.0
    Window,          \* results searchTopOne looks at (10)
    Flushes,         \* timer ticks of the reinforcement buffer that are in flight
    MaxCrashes       \* bound on restarts

ASSUME IdsAssumption ==
    /\ NoId \notin Ids
    /\ CallerIds \subseteq Ids /\ Seeded \subseteq Ids
    /\ IsFiniteSet(Seeded) /\ IsFiniteSet(Flushes)
    /\ Namespaces # {} /\ Contents # {}
ASSUME BoundAssumption == Window \in Nat \ {0} /\ MaxCrashes \in Nat
ASSUME OpsAssumption ==
    Ops \subseteq {"store", "storeId", "update", "delete", "restore", "purge", "get",
            "search"}

VARIABLES
    stored,     \* the ids that are points of the collection
    points,     \* [Ids -> Point]; Blank off `stored`
    req,        \* [Reqs -> Request]
    used,       \* ids that have ever been points: a random id is not one of them
    pending,    \* [Ids -> Nat] retrieval hits not yet flushed
    flush,      \* [Flushes -> Flush]
    crashes,
    hist        \* history, read by the properties only

vars == <<stored, points, req, used, pending, flush, crashes, hist>>

(* hits: retrievals and dedup matches ever counted for an id; inserted:    *)
(* requests whose upsert was applied; origin: the request that created an  *)
(* id; writers: requests that wrote the record or a mark of an id; overlap: *)
(* requests in flight together; wasHidden: ids ever hidden.                *)
History == [hits : [Ids -> Nat], inserted : SUBSET Reqs, origin : [Ids -> Reqs \cup {NoId}],
            writers : [Ids -> SUBSET Reqs], overlap : [Reqs -> SUBSET Reqs],
            wasHidden : SUBSET Ids]

SeedNs      == CHOOSE n \in Namespaces : TRUE
SeedContent == CHOOSE c \in Contents : TRUE

Point == [ns : Namespaces, content : Contents, edit : Reqs \cup {NoId},
          count : Nat, superseded : Ids \cup {NoId}, deleted : BOOLEAN]

(* insertRecord: a new memory is live, current and never retrieved.        *)
NewPoint(n, c, r) == [ns |-> n, content |-> c, edit |-> r,
                      count |-> 0, superseded |-> NoId, deleted |-> FALSE]
Blank == NewPoint(SeedNs, SeedContent, NoId)

Phases == {"idle", "embed", "upsert", "mark", "marking", "fetch", "rewrite",
           "tombstone", "untombstone", "remove",
           "inserted", "matched", "done", "notFound", "failed"}
Over == {"idle", "inserted", "matched", "done", "notFound", "failed"}

Request == [pc : Phases, op : Ops \cup {"none"}, ns : Namespaces, id : Ids \cup {NoId},
            content : Contents, supersedes : SUBSET Ids, seen : Point]
Asks(p, o, n, c, s, i) == [pc |-> p, op |-> o, ns |-> n, id |-> i,
                           content |-> c, supersedes |-> s, seen |-> Blank]
NoRequest == Asks("idle", "none", SeedNs, SeedContent, {}, NoId)

(* A flush: the batch it took, the counts it has read, the ids to write.   *)
Flush == [reading : BOOLEAN, batch : [Ids -> Nat], read : [Ids -> Nat], todo : SUBSET Ids]
NoHits == [i \in Ids |-> 0]
NoFlush == [reading |-> FALSE, batch |-> NoHits, read |-> NoHits, todo |-> {}]

-----------------------------------------------------------------------------
Init ==
    /\ stored = Seeded
    /\ points = [i \in Ids |-> Blank]
    /\ req = [r \in Reqs |-> NoRequest]
    /\ used = Seeded
    /\ pending = NoHits
    /\ flush = [f \in Flushes |-> NoFlush]
    /\ crashes = 0
    /\ hist = [hits |-> NoHits, inserted |-> {}, origin |-> [i \in Ids |-> NoId],
               writers |-> [i \in Ids |-> {}],
               overlap |-> [r \in Reqs |-> {}], wasHidden |-> {}]

Goto(r, p) == req' = [req EXCEPT ![r].pc = p]
At(r, p)   == req[r].pc = p

Hidden(p)  == p.deleted \/ p.superseded # NoId

(* Qdrant's setPayload: merges fields into a point, and does nothing when  *)
(* the point is gone; upsert creates or replaces; delete removes.          *)
SetPayload_Upserts(i, p) ==                                     \* mutant
    /\ points' = [points EXCEPT ![i] = p]
    /\ stored' = stored \cup {i}
    /\ UNCHANGED used
SetPayload(i, p) ==
    /\ points' = IF i \in stored THEN [points EXCEPT ![i] = p] ELSE points
    /\ UNCHANGED <<stored, used>>
UpsertPoint_KeepsMark(i, p) ==                                  \* mutant
    /\ points' = [points EXCEPT ![i] = [p EXCEPT !.superseded = points[i].superseded]]
    /\ stored' = stored \cup {i}
    /\ used' = used \cup {i}
UpsertPoint(i, p) ==
    /\ points' = [points EXCEPT ![i] = p]
    /\ stored' = stored \cup {i}
    /\ used' = used \cup {i}
DeletePoint(i) ==
    /\ stored' = stored \ {i}
    /\ points' = [points EXCEPT ![i] = Blank]
    /\ UNCHANGED used

-----------------------------------------------------------------------------
(* A tool handler starts.  A caller names ids it has seen or will choose.  *)
Named    == used \cup CallerIds
InFlight == {r \in Reqs : req[r].pc \notin Over}

Begin(r) ==
    /\ At(r, "idle")
    /\ \E n \in Namespaces :
        \/ /\ "store" \in Ops
           /\ \E c \in Contents, s \in SUBSET Named :
                req' = [req EXCEPT ![r] = Asks("embed", "store", n, c, s, NoId)]
        \/ /\ "storeId" \in Ops
           /\ \E c \in Contents, s \in SUBSET Named, i \in Named :
                req' = [req EXCEPT ![r] = Asks("embed", "storeId", n, c, s, i)]
        \/ /\ "search" \in Ops
           /\ req' = [req EXCEPT ![r] = Asks("embed", "search", n, SeedContent, {}, NoId)]
        \/ \E o \in Ops \ {"store", "storeId", "search"}, i \in used :
                req' = [req EXCEPT ![r] = Asks("fetch", o, n, SeedContent, {}, i)]
    /\ hist' = [hist EXCEPT !.overlap = [q \in Reqs |->
                    CASE q = r        -> InFlight
                      [] q \in InFlight -> @[q] \cup {r}
                      [] OTHER        -> @[q]]]
    /\ UNCHANGED <<stored, points, used, pending, flush, crashes>>

(* The embedding call or a Qdrant call of r throws and the handler fails.  *)
(* Marking (one setPayload per target) swallows its errors.                *)
CallFails(r) ==
    /\ req[r].pc \notin Over \cup {"marking"}
    /\ Goto(r, "failed")
    /\ UNCHANGED <<stored, points, used, pending, flush, crashes, hist>>

-----------------------------------------------------------------------------
(* assertIdFreeForNamespace, after the embedding returned.                 *)
IdFree_Unasked(i, n) == TRUE                                    \* mutant
IdFree(i, n) == i \in stored => points[i].ns = n

AssertIdFree(r) ==
    /\ At(r, "embed") /\ req[r].op = "storeId"
    /\ Goto(r, IF IdFree(req[r].id, req[r].ns) THEN "upsert" ELSE "failed")
    /\ UNCHANGED <<stored, points, used, pending, flush, crashes, hist>>

(* searchTopOne sees the Window best-scoring points of the namespace,      *)
(* hidden ones included, and takes the first visible one.                  *)
InNamespace(n) == {i \in stored : points[i].ns = n}
Alike(n, c)    == {i \in InNamespace(n) : points[i].content = c}
Near(n, c)     == {i \in InNamespace(n) : <<points[i].content, c>> \in NearPairs}
Visible(S)     == {i \in S : ~ Hidden(points[i])}
HiddenIn(S)    == {i \in S : Hidden(points[i])}

FoundAlike(n, c) == Visible(Alike(n, c))
FoundNear(n, c)  == IF FoundAlike(n, c) = {} /\ Cardinality(Alike(n, c)) < Window
                    THEN Visible(Near(n, c)) ELSE {}
Missed_TopOnly(n, c) == HiddenIn(Alike(n, c)) # {} \/ FoundAlike(n, c) = {}   \* mutant
Missed(n, c) ==
    \/ Cardinality(HiddenIn(Alike(n, c))) >= Window
    \/ /\ FoundAlike(n, c) = {}
       /\ \/ FoundNear(n, c) = {}
          \/ Cardinality(HiddenIn(Alike(n, c) \cup Near(n, c))) >= Window

(* The record a reinforce or a merge will write back, whole: the one read, *)
(* its counter bumped; a merge also edits tags and metadata.               *)
Reinforced(p)   == [p EXCEPT !.count = @ + 1]
Merged(p, r)    == [p EXCEPT !.count = @ + 1, !.edit = r]

SearchTopOne(r) ==
    LET n == req[r].ns
        c == req[r].content
        Match(i, p) == req' = [req EXCEPT ![r].pc = "rewrite", ![r].id = i, ![r].seen = p]
    IN  /\ At(r, "embed") /\ req[r].op = "store"
        /\ \/ n \in DedupNamespaces /\ \E i \in FoundAlike(n, c) : Match(i, Reinforced(points[i]))
           \/ n \in DedupNamespaces /\ \E i \in FoundNear(n, c) : Match(i, Merged(points[i], r))
           \/ /\ n \in DedupNamespaces => Missed(n, c)
              /\ Goto(r, "upsert")
        /\ UNCHANGED <<stored, points, used, pending, flush, crashes, hist>>

(* The id is the caller's, or a random one that no point ever had.         *)
FreshIds == Ids \ Named

Upsert(r) ==
    /\ At(r, "upsert")
    /\ \E i \in (IF req[r].op = "storeId" THEN {req[r].id} ELSE FreshIds) :
        /\ UpsertPoint(i, NewPoint(req[r].ns, req[r].content, r))
        /\ hist' = [hist EXCEPT !.inserted = @ \cup {r}, !.origin[i] = r, !.writers[i] = @ \cup {r}]
        /\ req' = [req EXCEPT ![r].id = i,
                   ![r].pc = IF req[r].supersedes \ {i} = {} THEN "inserted" ELSE "mark"]
    /\ UNCHANGED <<pending, flush, crashes>>

(* markSuperseded: one retrieve of all targets, then one partial write for *)
(* each that exists in the namespace, each write allowed to fail.          *)
MarkRetrieve(r) ==
    LET targets == {i \in req[r].supersedes \ {req[r].id} : i \in InNamespace(req[r].ns)}
    IN  /\ At(r, "mark")
        /\ req' = [req EXCEPT ![r].pc = IF targets = {} THEN "inserted" ELSE "marking",
                              ![r].supersedes = targets]
        /\ UNCHANGED <<stored, points, used, pending, flush, crashes, hist>>

MarkOne(r) ==
    /\ At(r, "marking")
    /\ \E i \in req[r].supersedes :
        /\ \/ /\ SetPayload(i, [points[i] EXCEPT !.superseded = req[r].id])
              /\ hist' = [hist EXCEPT !.wasHidden = @ \cup {i}, !.writers[i] = @ \cup {r}]
           \/ UNCHANGED <<stored, points, used, hist>>
        /\ req' = [req EXCEPT ![r].supersedes = @ \ {i},
                              ![r].pc = IF req[r].supersedes = {i} THEN "inserted" ELSE @]
    /\ UNCHANGED <<pending, flush, crashes>>

-----------------------------------------------------------------------------
(* fetchOwned: absent, another namespace's, or (unless the operation opts  *)
(* in) tombstoned means not found.                                         *)
Owned_AnyNamespace(i, n) == i \in stored                        \* mutant
Owned(i, n) == i \in stored /\ points[i].ns = n
OptsIn == {"restore", "purge"}

AfterFetch(op, p) ==
    CASE op = "update"  -> "rewrite"
      [] op = "delete"  -> "tombstone"
      [] op = "restore" -> IF p.deleted THEN "untombstone" ELSE "done"
      [] op = "purge"   -> "remove"
      [] op = "get"     -> "done"

(* ReinforcementBuffer.record for each memory returned to the caller.      *)
CountHits(S) == [hist EXCEPT !.hits = [i \in Ids |-> IF i \in S THEN @[i] + 1 ELSE @[i]]]
Record(S) ==
    /\ pending' = [i \in Ids |-> IF i \in S THEN pending[i] + 1 ELSE pending[i]]
    /\ hist' = CountHits(S)

(* memory_search: the live, current memories of the namespace (as many as  *)
(* fit the limit) are returned and counted.                                *)
Search(r) ==
    /\ At(r, "embed") /\ req[r].op = "search"
    /\ Record(Visible(InNamespace(req[r].ns)))
    /\ Goto(r, "done")
    /\ UNCHANGED <<stored, points, used, flush, crashes>>

Fetch(r) ==
    LET i == req[r].id
        p == points[i]
        found == Owned(i, req[r].ns) /\ (p.deleted => req[r].op \in OptsIn)
        wanted == IF req[r].op = "update" THEN [p EXCEPT !.edit = r] ELSE p
    IN  /\ At(r, "fetch")
        /\ IF found
           THEN req' = [req EXCEPT ![r].pc = AfterFetch(req[r].op, p), ![r].seen = wanted]
           ELSE Goto(r, "notFound")
        /\ Record(IF found /\ req[r].op = "get" THEN {i} ELSE {})
        /\ UNCHANGED <<stored, points, used, flush, crashes>>

(* updateMetadata, reinforceExisting, mergeIntoExisting: the whole record  *)
(* as it was read goes back, every field of it.                            *)
Rewrite(r) ==
    /\ At(r, "rewrite")
    /\ SetPayload(req[r].id, req[r].seen)
    /\ hist' = [CountHits(IF req[r].op = "store" THEN {req[r].id} ELSE {})
                    EXCEPT !.writers[req[r].id] = @ \cup {r}]
    /\ Goto(r, IF req[r].op = "store" THEN "matched" ELSE "done")
    /\ UNCHANGED <<pending, flush, crashes>>

(* memory_delete and memory_restore write deleted_at only.                 *)
Tombstone(r) ==
    /\ At(r, "tombstone")
    /\ SetPayload(req[r].id, [points[req[r].id] EXCEPT !.deleted = TRUE])
    /\ hist' = [hist EXCEPT !.wasHidden = @ \cup {req[r].id}]
    /\ Goto(r, "done")
    /\ UNCHANGED <<pending, flush, crashes>>

Untombstone(r) ==
    /\ At(r, "untombstone")
    /\ SetPayload(req[r].id, [points[req[r].id] EXCEPT !.deleted = FALSE])
    /\ Goto(r, "done")
    /\ UNCHANGED <<pending, flush, crashes, hist>>

(* The operator console's delete physically removes the point.             *)
Remove(r) ==
    /\ At(r, "remove")
    /\ DeletePoint(req[r].id)
    /\ Goto(r, "done")
    /\ UNCHANGED <<pending, flush, crashes, hist>>

-----------------------------------------------------------------------------
(* flush(): the buffer is swapped out, then read, then written.            *)
Idle(f) == ~ flush[f].reading /\ flush[f].todo = {}

FlushTake_KeepsPending(f) ==                                    \* mutant
    /\ Idle(f)
    /\ pending # NoHits
    /\ flush' = [flush EXCEPT ![f] = [NoFlush EXCEPT !.reading = TRUE, !.batch = pending]]
    /\ UNCHANGED <<stored, points, req, used, pending, crashes, hist>>
FlushTake(f) ==
    /\ Idle(f)
    /\ pending # NoHits
    /\ flush' = [flush EXCEPT ![f] = [NoFlush EXCEPT !.reading = TRUE, !.batch = pending]]
    /\ pending' = NoHits
    /\ UNCHANGED <<stored, points, req, used, crashes, hist>>

(* The retrieve answers for the points that still exist, or throws and the *)
(* window is dropped.                                                      *)
FlushRead(f) ==
    LET found == {i \in stored : flush[f].batch[i] > 0}
    IN  /\ flush[f].reading
        /\ \/ flush' = [flush EXCEPT ![f] = [@ EXCEPT !.reading = FALSE, !.todo = found,
                            !.read = [i \in Ids |-> IF i \in found THEN points[i].count ELSE 0]]]
           \/ flush' = [flush EXCEPT ![f] = NoFlush]
        /\ UNCHANGED <<stored, points, req, used, pending, crashes, hist>>

Written(g, i) == IF g.todo = {i} THEN NoFlush ELSE [g EXCEPT !.todo = @ \ {i}]

(* Each write is count read plus hits taken; wait:false lets the writes of *)
(* a batch land in any order, and each may be lost.                        *)
FlushWrite(f) ==
    \E i \in flush[f].todo :
        /\ \/ SetPayload(i, [points[i] EXCEPT !.count = flush[f].read[i] + flush[f].batch[i]])
           \/ UNCHANGED <<stored, points, used>>
        /\ flush' = [flush EXCEPT ![f] = Written(@, i)]
        /\ UNCHANGED <<req, pending, crashes, hist>>

(* The process dies and restarts: requests, buffer and flushes are gone.   *)
Crash ==
    /\ crashes < MaxCrashes
    /\ crashes' = crashes + 1
    /\ req' = [r \in Reqs |-> IF req[r].pc \in Over THEN req[r]
                              ELSE [req[r] EXCEPT !.pc = "failed"]]
    /\ pending' = NoHits
    /\ flush' = [f \in Flushes |-> NoFlush]
    /\ UNCHANGED <<stored, points, used, hist>>

Step(r) == \/ AssertIdFree(r) \/ SearchTopOne(r) \/ Search(r) \/ Upsert(r) \/ MarkRetrieve(r) \/ MarkOne(r)
           \/ Fetch(r) \/ Rewrite(r) \/ Tombstone(r) \/ Untombstone(r) \/ Remove(r)

Next == \/ \E r \in Reqs : Begin(r) \/ CallFails(r) \/ Step(r)
        \/ \E f \in Flushes : FlushTake(f) \/ FlushRead(f) \/ FlushWrite(f)
        \/ Crash

Spec == Init /\ [][Next]_vars

-----------------------------------------------------------------------------
TypeOK ==
    /\ stored \subseteq used /\ used \subseteq Ids
    /\ points \in [Ids -> Point]
    /\ req \in [Reqs -> Request]
    /\ pending \in [Ids -> Nat]
    /\ flush \in [Flushes -> Flush]
    /\ crashes \in 0..MaxCrashes
    /\ hist \in History

(* The retrieval counter never exceeds what was counted: overlapping       *)
(* flushes, dedup matches and stale rewrites may lose hits (ADR-0006 3.3   *)
(* accepts that) but never count one twice (reinforcement.ts, flush).      *)
CountsOnlyHits == \A i \in stored : points[i].count <= hist.hits[i]

(* An update, a reinforcement, a mark or a flush in flight never brings a  *)
(* purged memory back: only a store that supplies the id again does        *)
(* (service.ts, delete: the purge destroys irreversibly).                  *)
PurgeIsFinal ==
    [][\A i \in used \ stored : i \in stored' =>
          \E r \in Reqs : At(r, "upsert") /\ req[r].op = "storeId" /\ req[r].id = i]_vars

(* No cycle of replacements hides a whole chain from search: every set of  *)
(* memories has a member that is current or whose replacement is outside   *)
(* the set (service.ts, markSuperseded; ADR-0006 3.5).  Callers may choose  *)
(* ids, store them again and name them as superseded in any order; only    *)
(* requests that were in flight together can close a cycle, by their marks *)
(* or by writing back a mark that was read before an id was stored again.  *)
Raced(S) ==
    \E i, j \in S : \E q \in hist.writers[i], r \in hist.writers[j] : q \in hist.overlap[r]
SupersessionHasHead ==
    \A S \in SUBSET stored :
        S # {} /\ ~ Raced(S) => \E i \in S : points[i].superseded \notin S

(* A request changes or removes a point of another namespace only if a     *)
(* request in flight with it gave that point to that namespace, between    *)
(* the check and the write: by storing a chosen id, or by writing back     *)
(* what it had read (service.ts, fetchOwned, assertIdFreeForNamespace,     *)
(* markSuperseded).                                                        *)
OwnNamespaceOnly ==
    [][\A r \in Reqs, i \in stored :
          req'[r] # req[r] /\ (i \notin stored' \/ points'[i] # points[i])
              => \/ points[i].ns = req[r].ns
                 \/ \E q \in hist.writers[i] \cap hist.overlap[r] : req[q].ns = points[i].ns]_vars

(* Two visible copies of one content were stored by requests that were in  *)
(* flight together, or a caller chose the id of one of them, or one was    *)
(* hidden for a time, or so many hidden points exist that they filled the  *)
(* result window of the search (service.ts, store and searchTopOne).       *)
Chosen == {req[r].id : r \in {q \in Reqs : req[q].op = "storeId"}}
CopiesOnlyFromOverlap ==
    \A i, j \in Visible(stored) :
        /\ i # j /\ points[i].ns = points[j].ns /\ points[i].content = points[j].content
        /\ points[i].ns \in DedupNamespaces
        /\ {i, j} \cap (hist.wasHidden \cup Chosen) = {} /\ ~({i, j} \subseteq Seeded)
        => \/ hist.origin[i] \in Reqs /\ hist.origin[j] \in Reqs
              /\ hist.origin[i] \in hist.overlap[hist.origin[j]]
           \/ Cardinality(hist.wasHidden) >= Window

-----------------------------------------------------------------------------
(* service.ts:443-444: "dedup must never land on a tombstone".  The match  *)
(* is live when it is read; a delete in between is then written over.      *)
DedupSparesTombstones ==
    [][\A r \in Reqs : At(r, "rewrite") /\ req[r].op = "store" /\ req'[r].pc = "matched"
          => ~ points[req[r].id].deleted]_vars

(* tools.ts:277: the failed store "never persisted a new point", so its    *)
(* quota is refunded; service.ts:170: "a supersession claim never fails a  *)
(* store".                                                                 *)
FailedStorePersistedNothing ==
    \A r \in Reqs : At(r, "failed") => r \notin hist.inserted

(* service.ts:126-129: a caller-supplied id that exists in another         *)
(* namespace "must not be overwritten".                                    *)
NamespaceNeverFlips ==
    [][\A i \in stored \cap stored' : points'[i].ns = points[i].ns]_vars
=============================================================================
