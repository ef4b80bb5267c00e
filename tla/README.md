# A TLA+ verification of shared-agents-memory

shared-agents-memory is a TypeScript MCP server that gives several agents one
long-term memory. Memories are points of one Qdrant collection; everything else
(tokens, namespaces, quotas, rules) is files under a data directory. It runs as
one HTTP process for many sessions, or as one stdio process per client.

Node runs one callback at a time, so code between two `await`s is atomic. All
concurrency is at the awaits: a handler that has read something goes on, after
the next await, with what may no longer be true. That is the grain of every
module here: **one action is the code from one await to the next**, and a value
kept over an await is part of the state.

Paths below are relative to `src/` of the repository root.

## 1. Inventory

| Component (source) | State | Operations | What makes it hard | What makes it correct |
|---|---|---|---|---|
| Quota service (`src/quota/quota-service.ts`) | `_quota.json` per namespace; a promise-chain lock | reserve, release, check, record; daily rollover | read-modify-write over awaits; midnight; refunds; a crash between reserve and refund | no cap exceeded, no increment lost, the lock is always passed on |
| Memory tools (`src/memory/tools.ts`) | none | store, search, get, update, delete, restore | order of point count, reserve, embed, store, refund | a failed or deduplicated write costs nothing |
| Memory service (`src/memory/service.ts`) | the Qdrant collection | dedup search, insert, supersede, update, soft and hard delete, restore | several Qdrant calls per request and nothing held between them | tenants are separate, purges are final, supersession never hides a whole chain |
| Reinforcement buffer (`src/memory/reinforcement.ts`) | hits not yet flushed | record, flush | a flush reads and writes back while requests and other flushes write | a hit is never counted twice |
| PAT store (`src/auth/pat-store.ts`) | `pats.jsonl`, an index, a lookup cache, a promise chain | mint, rotate, revoke, delete, lookup, open | failed appends, torn lines, the cache, a second process | revocation is final, issued tokens work, one heir per rotation |
| Namespace life cycle (`src/namespaces/store.ts`, `tools.ts`, `vector-cascade.ts`, `hard-delete.ts`) | `namespaces/<id>`, `_deleted/<id>-<ms>`, the vectors of the id | create, soft delete, cascade, hard delete, sweep at start | two stores (directory and vectors) without a transaction; ids live more than once | vectors of a deleted namespace stay reachable, those of a living one stay |
| Members and settings (`src/namespaces/store.ts`, `tools.ts`) | `_members.json`, `_namespace.json` | share, unshare, update, prune on revocation | prune races mint; update has no lock | no lost share, no orphaned member |
| Auth tools, confirmation (`src/auth/tools.ts`, `confirmation.ts`, `resolve-request.ts`) | consumed confirmation tokens | two-call ceremony, authorization | replay, expiry, garbage collection | a confirmation is used once, for its input |
| Bootstrap (`src/auth/bootstrap.ts`, `pepper.ts`) | marker and token files | first start | a crash between mint, skeleton, token file and marker | after any crash the next start succeeds or says why |
| HTTP transport (`src/transport/http.ts`, `auth-rate-limit.ts`) | session table, in-flight counts, failures per address | open, route, close, idle sweep | sweep against in-flight work; caps | caps hold, a session serves only its token |
| stdio transport (`src/transport/stdio.ts`) | one session | start | one process per client | see PAT store: several processes on one file |
| Decay sweep (`src/lifecycle/decay.ts`) | none | score, tombstone, remove | decisions on a page, applied after requests changed the points | never removes what is alive |
| Staleness audit (`src/lifecycle/staleness.ts`) | a cursor per namespace | check a batch | cursor wrap; stale write-back | every point is checked in the end |
| Rules (`src/rules/*`) | rule files and `INDEX.md` | upsert, delete, list | lock, rename, then index | the index lists the rules |
| Embedding client (`src/embeddings*.ts`) | semaphore, breaker, cached OAuth token | embed | retries, time-outs, half-open probes, hand-over of permits | at most N in flight, everyone gets a turn |
| Admin back end (`src/admin/**`) | SQLite operators and sessions | setup, login, logout, routes over the stores above | first-operator race, sliding expiry | one first operator, logout is final |
| Metrics, configuration, Qdrant set-up, web console, scripts, deployment | – | – | pure I/O or wiring | – |

How they meet:

* `memory_store` counts points, reserves quota, embeds, then calls
  `MemoryService.store`; when no new point results it releases the reservation.
* `memory_search` reserves, searches, and records hits in the reinforcement
  buffer, which a timer flushes into the same points.
* every HTTP request resolves its token in the PAT store; a revocation by the
  tool or the console also prunes memberships.
* `namespace_delete` moves the directory and then purges the vectors; the sweep
  at the next start is its backstop, and the operator's hard delete its end.
* rules, restores and the decay sweep write below `namespaces/<id>` with
  `mkdir -p` and so can make a deleted directory again.

## 2. Plan

| Order | Module | Composes | Status |
|---|---|---|---|
| 1 | `QuotaCounter` (abstract), `Quota`, `Quota_proofs` | Quota implements QuotaCounter; two handlers drive it | done |
| 2 | `Memory`, `Memory_proofs` | service, buffer and collection | done |
| 3 | `PatLedger` (abstract), `PatStore`, `PatStore_proofs` | PatStore implements PatLedger | done |
| 4 | `Namespaces`, `Namespaces_proofs` | directory, vectors, late stores and appends | done |
| 5 | `EmbeddingGate`, `EmbeddingGate_proofs` | semaphore, breaker, retry loop | done |
| 6 | `HttpSessions` | session table, in-flight places, failure limiter | done |
| 7 | `PatTools` | the token tools and their ceremony behind `HttpSessions` | done |
| 8 | `NsDirectory`, `NsMembers`, `NsRules`, `NsFiles` | members and rules in one directory, with prunes and mints | done |
| | `Tools_proofs` | proofs about 6, 7 and 8 | done |
| 9 | `LifecyclePoints`, `DecaySweep`, `StalenessAudit`, `Lifecycle`, `Lifecycle_proofs` | both sweeps and the requests they race | done |
| 10 | `Bootstrap`, `AdminSessions`, `AdminConsole`, `AdminConsole_proofs` | the start of the process and the console in it | done |

Two components are joined in one model where a step of the one can go wrong
because of the other: tools behind sessions (7), members and rules in one
directory (8), sweeps and requests on one collection (9), console and start (10).
The others meet through a promise that one module shows and another assumes:
`Quota` assumes that an embedding ends (`EmbeddingGate!CallsEnd`),
`HttpSessions` that a dead token does not resolve (`PatStore!RevocationHolds`).

Every safety invariant and every action property of a passing run is stated by
a theorem (section 6); what is left to the runs is liveness.

Runs are one per component or composition, safety and liveness together, and
one for a disagreement with the documentation.

## 3. The modules

### Quota and QuotaCounter

`QuotaCounter` is the abstract counter: a usage record with the day it belongs
to, and atomic Reserve and Release. `Quota` is the code: `queue` is the promise
chain of `withLock` (its head runs), `loaded[c]` what the holder has read from
`_quota.json`, `count[c]` the point count the handler read before it reserved,
`pc[c]` where the request is. `CountMemories`, `RequestReserve`, `Load`,
`ReserveSave` / `ReserveReject`, then `StoreInserts`, `StoreInsertsNothing` or
`StoreInsertsThenThrows`, then a release through the same lock. Any I/O may
fail (`SectionFails`); `Midnight` moves the clock, `Crash` drops requests and
chain and keeps the file, which is replaced by rename. One namespace, because
locks and files of different namespaces are disjoint.

### Memory

`stored`/`points` are the collection; a point has its namespace, content, last
edit, retrieval count and the two hiding marks. A request (`req[r]`) keeps in
`seen` the record it read, as the service does. Each Qdrant call is one atomic
step, each may fail (`CallFails`), `setPayload` on a missing point does nothing
and `upsert` creates. Callers name ids (`Named`): made up by them (`CallerIds`)
or any that was ever used, to store under or as superseded. `NearPairs` is the
band between the dedup and the reinforce score; `Window` the ten results
`searchTopOne` looks at. `FlushTake`, `FlushRead`, `FlushWrite` are the three
stages of a flush, and several flushes may be in flight. `hist` records who
wrote a point and which requests were in flight together, as several properties
name a race as their one exception. Vectors, scores, tags and formatting are
abstracted to "same content", "near" and "other".

### PatStore and PatLedger

`disk` is `pats.jsonl` folded to the last line of each id, as `load` folds it;
`byId` the index; `cache` the lookup cache with its time to live; `queue` the
write chain. A call is `queued`, `appending`, `persisted`, then done: the append
and the index update are separate steps, a rotation appends two lines of which a
failed append may have written the first, and an incomplete line (`torn`) makes
the next open throw. `RevokedOutside` is another process on the same file.
`PatLedger` states that a token moves only absent → active → revoked → deleted.

### Namespaces

An id may live several times, so a life is named by the call that made it:
`live[id]` is the life in `namespaces/<id>`, `trash` the `<<id, life>>` in
`_deleted`, `files[l]` what the directory of a life holds (its settings, other
files), `points` the stores whose vector is in Qdrant. Vectors know their
id only, which is what the code's filters see. `createNamespaceSkeleton` is
`Clean` (list stale temporary directories), `Empty`/`Unlink` (remove their
files one by one, then themselves), `Check`, `Write`, `Rename`; a rename
replaces an empty directory and no other (`Vacant`), and takes along what the
clean-up of another create has left in it. `namespace_delete` is `Move` and `Cascade`
(or `CascadeFails`); `hardDeleteNamespace` is `HardPurge`, `HardVerify`,
`HardRemove`. `Upsert` is a store that was authorized before; `Append` a call
that makes its missing directories. `Crash` and `Boot`: the sweep of a start
goes id after id up to the first failure. `Extends` holds the pairs of ids of
which one is the other, a hyphen and more, for which prefixes matter.
The model is one HTTP process; a stdio process that starts beside another runs
the same sweep while the other serves, which is not modelled.

### EmbeddingGate

A call is one `embedBatch`. `active` and `waiters` are the `Semaphore`;
`state`, `openedAt` and `window` the `CircuitBreaker` (a set of samples, each
named by its call and number); `attempt[c]` and `truncated[c]` the locals of the
loop. `Acquire`, `Wake`, `Release` are the semaphore; `Begin` and `Refuse` the
one question to the breaker; `FetchFails`, `FetchThrows`, `Respond` the ends of a
fetch; `BodyArrives`, `BodyThrows`, `Shorten` what its body leads to; `Pause` the
end of a back-off. `release` frees the permit first and the waiter takes it a
microtask later, so it matters what may run in between: nothing else, since a
call gets to the semaphore from an event of its own (each handler awaits file
I/O before it embeds) and the event loop takes an event only when no
continuation is left. `job` is the call whose continuation is left, and events
wait for `job = Nobody`. If calls could enter in the same drain of
microtasks, the limit could be passed. `maxConcurrency` is `max`, chosen at the
start from `Limits`, as 0 means no semaphore. Texts, vectors and token counts
are left out; a token exchange that fails is a fetch that throws.

### HttpSessions

`status[s]` says whether a session id is in the table of `runHttpTransport`,
`owner[s]` whose it is, `age[s]` how long ago its last request came, and
`inflight[s]` is the counter in its record. `handleRequest` has no await between
its first line and the hand-over to the SDK that another request could use, so
`PostNew`, `PostTo`, `GetStream`, `Delete`, `Unrouted`, `Throttled` and
`AuthFails` are its paths, each whole. `at[c]` is the session on which the call c
is with the SDK; `EndCall` is the end of its response, also after the session
was removed under it. `ready` says that the SDK has seen an initialize request:
only then does its close hook free the record. `hits[ip]` are the failures of
an address, by their ages.

### PatTools

Extends `HttpSessions`: the handlers of `pat_create`, `pat_rotate` and
`pat_revoke`. `Ask` gives out an envelope (`issued[k]`: session, input, life
left), `Confirm` accepts one and marks it before the store is asked, `Reject`
refuses one. Verifying the expiry and collecting old marks read the clock
separately; `late` is that a tick lies between. `job[c]` outlives the call when
its response ends first. A token that has expired can still be rotated, one that
was revoked cannot (`Standing`). What a token carries (`holder`) is reduced to its agent
and whether it has `service:admin`. The same ceremony in `namespaces/tools.ts`
is a copy.

### NsDirectory, NsMembers, NsRules, NsFiles

`NsDirectory` has what a path leads to (`fs[i]`: directory, settings, members,
rules, index), authorization, creation and deletion in one step each (`Namespaces`
takes them apart). A directory is named by the call and the step that made it,
so no two that were ever made have one name. A file is truncated and filled in
two steps, between them it is `Torn`; where two calls fill one file, each from
its own offset, the longer text leaves its tail behind the shorter, and the file
may be `Garbled` for good. `NsMembers` has the member lock (`lock[i]`, a queue), the
read-modify-write under it (`Read`, `Truncate`, `Fill`), `namespace_update`
without a lock (`TruncateSettings`, `FillSettings`), and the prune: `Revoke`, `CheckLast`, `List`, `Walk`, and a
removal per namespace; `Mint` gives the agent a token at any time. `NsRules`
has the lock of the rules, the temporary file with its rename, and the index
that every write regenerates. `NsFiles` composes them and adds `Throws` (any
await of any call) and `Crash`.

### LifecyclePoints, DecaySweep, StalenessAudit, Lifecycle

`LifecyclePoints` is a memory as the sweeps see it (reference, signal, age,
retrieved or not, tombstone, immortal), with the requests that change it:
whole-payload rewrites in two steps (`CopyRead`, `CopyWrite`), everything else
in one. `DecaySweep` scans by pages, remembers what it will hide (`soft`) and
remove (`doomed`), and writes only afterwards, without a second look.
`StalenessAudit` takes one batch per run from its `cursor`, checks, and writes
signal and reference back. `Lifecycle` composes them with the clock and a
crash; a scroll of the decay sweep that throws is a crash, as nobody catches
the rejection. What nobody reads is not tracked: without decay, ages and
retrievals stay as they are, and without audit there are no references. One
namespace, because a sweep handles them one after another.

### Bootstrap, AdminSessions, AdminConsole

`Bootstrap` is `main()` as phases, each with the one file it writes; `Die` in a
phase leaves its file as it was or torn, in the next one whole. `SERVER_PEPPER`
is unset, a pepper, or text that is none. `AdminSessions`
is the console's sign-in: `BeginSetup`, `Claim`, `Consume`, `OpenSession` for
the first operator; `BeginLogin`, `Verified`, `OpenSession`; and `ReadSession`,
`ReadOperator`, `Touch` or `Drop`, then `Handle` or `Logout` for a request with
a cookie. Each is a query or the await of a password hash. `AdminConsole`
composes them: the server listens (`Listen`) before it has looked whether a
setup token is needed (`NeedsSetup`, `Ensure`), and before the transport.

## 4. What the runs check

| Run | Instance | Shows |
|---|---|---|
| `quota` | 2 stores, 1 search, caps of 2, 1 and 3, one midnight, one restart | caps hold; the counter equals the standing reservations up to refunds that crossed midnight; what the lock holder read is current; the service implements the atomic counter; the lock is passed on whichever holder fails |
| `memory` | 3 requests of any kind, 2 contents, 3 ids that may be stored again, a window of 2, 2 flushes in flight, one restart | hits are not counted twice; duplicates come only from overlapping stores, chosen ids, hidden memories or a full window; a purge is final |
| `memory_points` | 3 requests that store chosen ids, update, delete, restore and purge, 2 namespaces, a made-up id among 3 | only requests in flight together can close a cycle of supersessions; only a race for an id touches another namespace's point |
| `patstore` | 1 token, 2 mutating calls, lookups, clock, failed appends, one restart, one outside revocation | acknowledged ends are final; the cache agrees with the index; issued tokens work; one heir; the log implements the ledger; every queued call ends |
| `namespaces` | 3 ids (protected, another, one that extends it), 4 calls, one restart | vectors without a namespace are reachable by the sweep; delete reports are true; purges stay inside ids that were deleted; no creation replaces a namespace that can be loaded |
| `embedding` | 3 calls, no limit or one permit, one retry, one truncation, clock of 3 instants | permits are conserved and passed on in order; the limit holds; a refusal has a fresh cause; every call ends |
| `sessions` | 2 session ids on a table of 1, 3 calls on 2 places, 2 tokens, 1 address with 2 failures | places are conserved however a call ends; a session nobody uses leaves the table; a throttled address is served again |
| `ceremony` | 2 session ids, 2 calls, 2 tokens of 2 profiles, 1 envelope that lives 2 ticks | what is carried out was shown on the session that confirms it; a confirmation passes twice at most in the tick it expires in |
| `files` | 2 namespaces, 2 agents, 1 rule, 3 calls of 13 kinds, a mint, one restart | no member change is lost; a prune takes exactly what it must; the index lists the rules |
| `lifecycle` | 2 memories, a url and a file to verify against, requests on one of the memories, pages and batches of 1, a namespace that decays at once or one that is audited, one restart | nothing is removed undeservedly unless a request wrote it after the sweep read it; a signal fits the reference; every memory comes up again |
| `admin` | 2 crashes, 2 setup tokens, 2 operators, 2 requests, 2 cookies | a start refuses only for a cause; setup makes one operator; a session that is over stays over |
| `namespaces_sweep` | 2 ids that are deleted and created again, 4 calls, one restart | expects a violation, see section 5 |

Bounds. Each hazard needs two or three overlapping requests, one flush or one
restart, and the bounds allow one more than that where TLC can afford it; four
calls in `namespaces` are delete, create, store and a second delete or create.
The bounded clock has one midnight or one expiry, on either side of which every
step may fall. Three calls on one permit make one that holds it, one that waits
and one that could overtake; two recorded failures open the breaker
(`MinSamples`), and the clock lets the cool-down and the window pass. `memory`
has two contents so that neighbours exist, and one namespace, as dedup never
leaves one. `memory_points` has one content and no dedup, so that every store
inserts or overwrites; three requests close a cycle of two memories, one of which
is stored again after it was marked, and are enough for an id to change its
namespace under a third. `CopiesOnlyFromOverlap` leaves out pairs that were both there at the start, as
earlier versions of the service may have left them. Symmetry is used for the names of
requests, ids, tokens and cookies and only in runs without liveness.

`sessions` lets a call of one session end after the next session has its place;
`ceremony` needs a second session to try the envelope of the first, a life of
two ticks so that an expiry has a tick before it, and gives the transport's
caps, which `sessions` checks, their least values. Three calls in `files` are two
that meet in a lock and one that deletes, creates or prunes between them; the
second namespace makes a prune walk. In `lifecycle` two memories on pages and
batches of one are the least for which a cursor has to advance; days are counted
up to one past the longest term, after which nothing changes; a url and a file
differ in what a check may answer, and a commit answers a part of what a file
may. Two crashes
in `admin` are one start that is cut and one that is cut while it recovers.

Deadlock is not checked: where each call is made at most once the system has
nothing left to do when all are over and clock and restarts are used up; after a
shutdown of the transport only the clock runs.

A type invariant is a run's invariant in `quota` and `namespaces`; those of
`Memory`, `PatStore`, `EmbeddingGate`, `HttpSessions`, `NsFiles` and `Lifecycle` are proved
instead.

Fairness. `Quota!FairSpec` and `PatStore!FairSpec` ask weak fairness of the
steps of each call: the event loop runs every settled promise, and file I/O
ends in a result or an error. No fairness is asked of clocks, crashes, new
requests or lookups. `EmbeddingGate!FairSpec` asks that the pending continuation
runs and that what a call waits for comes: a fetch is aborted after 30 s, a sleep
is a timer, and a body that stalls is ended by the HTTP client's own body
time-out. That an embedding call ends is assumed in `Quota` and shown here
(`CallsEnd`). `HttpSessions!FairSpec` asks that the clock ticks and the interval
of the idle sweep fires; of clients and responses nothing. `Lifecycle!FairSpec`
asks that days pass, that a sweep that runs goes on (its awaits end), and, strongly,
that Qdrant does not fail a sweep's delete or the audit's scroll every time: what a
sweep could not do it tries again the next day, so it must succeed only now and
then.

## 5. Disagreements between code and documents

In a run that expects a violation; the counterexample is a run of the code:

* `namespaces_sweep`: the sweep purges by id, so an id that was deleted and
  created again loses its vectors at every start while `_deleted` is kept.

Stated in a module and not in a run of the project; a configuration with the
definition as its only property gives the counterexample:

* `Memory!DedupSparesTombstones`: a deduplicating store writes its match back
  over a delete that came in between; the memory is live again
  (`src/memory/service.ts:475` against `:444`).
* `Memory!FailedStorePersistedNothing`: when the lookup of superseded points
  throws, the store fails with its point persisted and its quota refunded
  (`service.ts:182` against `:170`, `src/memory/tools.ts:277`).
* `Memory!NamespaceNeverFlips`: two namespaces that store one new id at once
  both find it free, and the second overwrites the first's point
  (`service.ts:130` against `:126-128`). `OwnNamespaceOnly` shows that such a race
  is the only way.
* `PatStore!OutsideRevocationLandsInTtl`: a revocation by another process is
  never seen, although the comment on the cache TTL says it lands within seconds
  (`src/auth/pat-store.ts:209` against `:21`).
* `Namespaces!SkeletonWhole`: the clean-up of one create empties the directory a
  concurrent one renames; the namespace then exists and cannot be loaded
  (`src/namespaces/store.ts:131` against `:84`). Once it is empty, a third create
  that had passed its check takes its place, and two creates of one id have
  succeeded (`:166`). `NoTakeover` shows that nothing loadable is replaced.

Seen while modelling, and only told here.

Memories:

* Stores that overlap can close a cycle of supersessions, so that a search finds
  none of its memories: two that store chosen ids each name the other's as
  superseded; or an update writes back a mark which a store of that id under way
  had taken away. `SupersessionHasHead` shows that one needs calls that overlap.

Limits and quotas:

* `max_memories` can be passed by concurrent stores: the count is read before
  the lock (`src/memory/tools.ts:202`).
* `rules_upsert` charges no quota although ADR-0002 counts it among daily writes.
* A refund that arrives after midnight is taken from the new day's counter, so
  that day admits one write more than its cap.
* A half-open breaker lets every caller through until one outcome is recorded,
  although the comment at `src/embeddings.ts:132` says exactly one probe.

Tokens and confirmations:

* A confirmation can pass twice in its last millisecond: its expiry is tested at
  one reading of the clock (`src/auth/confirmation.ts:64`) and its mark collected
  at a later one (`:84`, `:93-98`); ADR-0004:167 says it is used once.
  `PatTools!ReplayOnlyAtExpiry` shows that this is the only moment.
* A token minted between the check and the walk of a prune loses its
  memberships (`src/namespaces/tools.ts:174`).

Namespaces and rules:

* A hard delete purges a living id whose earlier life is in `_deleted`.
* The console's share and unshare look at the owner before they wait for the
  lock (`src/admin/api/routes/namespaces.ts:155`, `:177`).
* A save that straddles a delete and a new creation writes the old members or
  settings into the new directory; one that straddles a delete and an append
  that makes the directory again writes settings into a bare one.
* A torn `_members.json` or `_namespace.json` makes every tool throw on that
  namespace, and no tool repairs it.
* Of two concurrent `namespace_update` the later write loses the earlier's
  change; and where the two writes themselves overlap, the longer text can leave
  its tail behind the shorter one (`src/namespaces/store.ts:295-301`), which is a
  torn file as in the point before: the namespace can no longer be used or
  deleted by a tool. `MembersAsBooked` shows that there is no other way to a torn
  file than this, a crash and an error.
* A rules write that was authorized before a delete leaves a bare directory,
  which then blocks the creation of that id.
* ADR-0001:176-185 has INDEX.md regenerated at the next read when it is out of
  date; no code does that, only the next write does.

Life cycle:

* When a scroll of the decay sweep throws, nobody catches what `runOnce`
  rejects with, and the process ends.
* ADR-0006 section 3.6 says a url that answers 200 is no change; the code writes
  `fresh`.
* Both timers fire first after 24 hours of uptime, so a process that is
  restarted daily never sweeps.
* The audit's write-back can restore a `verifies_against` that was replaced
  during the check, and a rewrite of a whole payload can revive a memory that
  was deleted since it was read.
* The decay sweep writes without a second look: a memory that was restored, or
  retrieved, after its page was read is removed or hidden all the same
  (`src/lifecycle/decay.ts:171`, `:195`).

Start and console:

* Deleting the last, revoked token in the console makes every later start
  refuse, as "data corruption" (`src/auth/bootstrap.ts:76-82`), although the
  route exists to clear out such tokens (`src/admin/api/routes/pats.ts:114`).
* A crash in the write of the setup token leaves an empty file, which counts as
  issued: setup is impossible until it is removed by hand
  (`src/admin/auth/setup-token.ts:33`; ADR-0007 section 3.4).
* The server listens before it looks for the setup token, so a setup with an
  earlier token can complete in between, and a useless token be printed.
* A start that dies between the mint and the secret file is taken for complete
  by the next one: the namespace is never made and the secret is lost
  (`src/auth/bootstrap.ts:84-95`). `BootSurvives` shows that a crash at any other
  moment loses neither.
* `logoutAll` and `deleteExpired` have no caller.

## 6. What is proved

TLAPS proves the following for every value of the constants under the named
assumptions of the modules (types of the parameters, nothing more).

`Quota_proofs`. The inductive invariant is `TypeOK`, `SnapshotCurrent` (what
the lock holder read is what is stored), `DatesOrdered` (no stored day is after
today) and `WithinCaps`. The caps alone are not inductive: a holder saves an
increment of what it read, so one must know that nobody wrote in between.
From it: `TypeCorrect`, `CapsHold`, `NoLostUpdate`, and `Refinement`, that
every step is a step of `QuotaCounter` or a stutter.
`Charges` adds the account (`Accounts`): the reservations of a day are counted as
a finite set (`FiniteStanding`), and each save adds or takes one element of
it. No reservation stands in a day after the file's (`ChargesDated`), so a new
day starts from none; and a call that has not yet reserved stands in no day
(`ReservesOnce`), so the element that is added is new.

`PatStore_proofs`. The inductive invariant adds to `TypeOK`: the head of the
chain is inside its call and the rest wait (`HeadInside`), a closed store has
an empty chain and cache (`DownIsEmpty`), the cache repeats the index
(`CacheRepeatsIndex`), the log is ahead of the index only for the call at the
head (`LogAhead`), ids are minted once (`FreshIds`), targets exist
(`Targets`), a persisted call's lines are in the log (`AppendedLines`), and the
histories agree with the log (`EndedStay`, `HeirsEnded`, `IssuedStay`,
`OneHeir`). `RevocationHolds` needs nearly all of it: a lookup answers from the
cache, the cache repeats the index, the index lags the log only for the running
call, and the log keeps what was acknowledged. From it: `TypeCorrect`,
`Revocation`, `Coherence`, `IssuedWork`, `RotationUnique`, `Refinement`.

`Namespaces_proofs`. `OrphansReachable` is not inductive: it says that some
directory of the vector's id is in `_deleted`, and a hard delete could be
removing that one. The invariant `IInv` says that the directory is that of the
vector's own life (`PointsTraced`), that past its verified count a hard delete
holds no directory that a vector needs (`RemovalSafe`; a store cannot add such a
vector any more, as a life that was deleted does not come back, `DeadStay`,
`LivesBegun`), that ids about to be purged were deleted (`Mourned`), and what a
call is by its phase (`OpOfPhase`, `PointsStored`). As a rename may replace an
empty directory, it needs two facts about files: a life that has begun loses none,
since only directories that were not renamed are cleaned (`TmpUnbegun`); and a
namespace that let a store in keeps its settings (`Furnished`), so that nothing
takes its place. Steps that only move a call
are handled once (`Quiet`), and so are the two that begin a life (`Births`).
From it: `TypeCorrect`, `Orphans`, `Reports`, `OnlyDeletedPurged`, `Takeover`.

`EmbeddingGate_proofs`. The limit is not inductive, since a release counts down
before the waiter counts up. `IInv` counts the woken call among the claims
(`GateFull`): claims never pass the limit, and equal it while a call waits. With
`PermitsConserved` (active is the number of holders), the queue's own shape
(`WaitersWait`) and the owner of the one continuation (`JobOfPhase`) this gives
the limit and the order; `Counted` ties what was sent to the two counters of the
loop, and `OpenedByFailure` the breaker's time to the last failure. From it:
`TypeCorrect`, `Permits`, `Limit`, `Order`, `Bounded`, `OneSample`, `Refusals`.

`Tools_proofs` has three parts.

* `HttpSessions`. `PlacesConserved` is nearly inductive. A counter may only
  go down because the call that ends is one of those counted; and `PostNew`, which
  does not ask for the session's cap, stays below it because an id that was never
  given out has no call on it (`UnusedIdle`). Steps are sorted by what they do to
  the table (`Touches`, `Opens`, `Joins`, `Leaves`). From it: `TypeCorrect`,
  `Places`.
* `PatTools`. Each step of a tool does to the table what a step of the transport
  does (`ToolTable`), so the table's invariant carries over. `Kept` is what the
  ceremony rests on: an envelope that was accepted keeps its place and, until its
  last tick, its mark. A collection with a late clock takes marks one tick early,
  and no earlier. From it: `ToolPlaces`, `NoEarlyReplay`, `DeedsShown`.
* `NsFiles`. `FilesInv` first says where calls stand: a write of the rules past
  its wait is at the head of its lock (`WritersFirst`), a call is in one member
  lock and past its wait at its head (`Queued`), and prunes are made by revocations
  that ask nobody (`Revoking`, `Unasked`). `DirsKnown` says that a directory was
  made by a step some call has behind it (`MadeAt`), so a new one is in nobody's
  hands. `Books` is `MembersAsBooked` for what is in flight too: the
  copy that a holder is about to save is the account plus its own change, as long
  as the directory is the one it read, and whoever has torn a file is still in it;
of the settings, two that draft at once have their directory in `spoiled`
(`SettingsFit`), and one alone fills a whole text.
  `Indexed` says the same of the rules: a writer that is about to fill the index
  has seen the rules there are, and where the index lags behind, its writer is on
  the way. Nobody comes between because of the locks. For a prune, `Orphans`
  keeps its agent without a token unless one was minted, and `Prunes` says of each
  namespace it owes that it is still on its walk, or the one it is in, or rid of
  the agent (`Cleared`, by the account and not by the file, which may be torn). A
  namespace that is rid of it stays so: what is granted after the check is no
  longer owed (`Noted`). From it: `Indexes`, `Booked`, `Pruned`.

`Memory_proofs`. Its theorems rest on one invariant each, over `Base` (types,
what a request holds in a phase, marks that name ids in use):

* `Counters`. `Counts` says that a count and what is still due to it, in the
  buffer or in the pile of hits that flushes took, never pass the hits. It must
  say so too of the counts that a flush has read and of the records that requests
  hold and write back. `Tally` is what every step owes to it: what becomes due
  was hit.
* `Deduplicates`. `Overlaps` says that requests in flight know of each other,
  `Noted` that whatever is hidden, or a request may write back as hidden, is on
  record. `Singles` then says of a store that is about to insert that every
  visible copy of its content is of a request it overlaps (`Alone`), and of two
  copies that their requests did (`Met`), unless the window was crowded.
* `OwnNamespace`. `Claims` says of every point a request may still write: it is of
  the request's namespace, or a request in flight with it gave it away since it
  was looked at (`Given`), or it is no longer there. `hist.writers` has who wrote
  a point and `Overlaps` who was in flight with whom; a step of one request keeps
  the claim of another since the two overlap.
* `Supersession`. `Claims` also says what a request missed (`Missing`): unless a
  request that it overlaps wrote the point, the record a rewrite holds carries the
  mark that is stored, and the memory whose id a store is about to write into its
  targets is itself unmarked. So a mark or a rewrite that closes a cycle was
  raced by a writer of the set (`HeadNext`), and an insertion makes a head.
* `Purged` and `TypeCorrect` follow from `Base`.

None of them limits the ids that callers choose.

`Lifecycle_proofs`. `Fits`, that a signal is one the reference can give, must hold of
every copy of a memory: in the collection, in a rewrite in flight, and as the
answer the audit is about to write beside the reference it read (`AnswersFit`).
Decay is deserved since what a scan noted of a memory stays so as long as no
request writes the memory (`NotesHold`), and since pages go on in order of the
ids, so that no memory is looked at twice (`MinExists` says where the next page
starts). From it: `TypeCorrect`, `Signal`,
`DecayDeserved`.

`AdminConsole_proofs`. `BootInv` ties the phase of a start to the files that
are there: one token is minted (`MintOnce`), with a pepper that is on disk
(`Peppered`), and its secret was handed out if the marker says so (`HandedOut`).
`ConsoleInv` has what each request may hold in its phase (`JobFits`, kept by
every step through `Onward`), that ids that were closed stay out of the table
(`ClosedEnded`), that no idle expiry passes the absolute one (`RowsBounded`),
that there is at most one operator (`OneOperator`) and that a console without
one has its setup file (`SetupThere`). From it: `Starts`, `Setup`, `EndedSessions`.

Only model-checked: liveness (`LockIsPassedOn`, `CallsEnd` of two modules,
`PlacesComeBack`, `ThrottleEnds`, `EveryPointComesUp`), since temporal proofs from
fairness need ENABLED, which the prover does not do.
What a failed authentication leaves
in `hits` is outside the proved type invariant, as it is filtered with
`SelectSeq`, which is defined by recursion.

## 7. Not modelled

See the components of PROJECT.json. Left out, since nothing in the program
depends on their state: the auth audit log (append-only, read by nobody), the
set-up of the Qdrant collection and the reading of the environment (sequential, at
the start), metrics, the web console (a client of routes that are modelled), the
operator scripts (run by hand beside a quiet server), deployment. Of the
embedding client, its cached OAuth token is left out. The stdio transport is
modelled in its start (`Bootstrap!Serve`) and as a second process on the token
file (`PatStore!RevokedOutside`); its sweep beside a serving process is not.
Vectors, scores, texts, tags, front matter, password hashing and second factors
are data whose values no property tells apart.
