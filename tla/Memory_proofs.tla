----------------------------- MODULE Memory_proofs -----------------------------
(***************************************************************************)
(* Proofs about Memory for any ids, namespaces, contents, requests,        *)
(* flushes and number of restarts.                                         *)
(***************************************************************************)
EXTENDS Memory, FiniteSetTheorems, TLAPS

-----------------------------------------------------------------------------
(* What a request is by its phase, and what the collection leaves blank.   *)
Collected == {"mark", "marking", "fetch", "rewrite", "tombstone", "untombstone", "remove"}

PhaseFits(q) ==
    /\ q.pc = "idle" => q.op = "none"
    /\ q.pc = "marking" => q.supersedes \subseteq used
    /\ q.pc \in Collected => q.id \in used
    /\ q.pc = "embed" => q.op \in {"store", "storeId", "search"}
    /\ q.pc = "upsert" => q.op \in {"store", "storeId"}
    /\ q.pc \in {"embed", "upsert"} /\ q.op = "storeId" => q.id \in Ids
    /\ q.pc = "fetch" => q.op \in {"update", "delete", "restore", "purge", "get"}
    /\ q.pc = "rewrite" => /\ q.op \in {"store", "update"}
                           /\ q.seen.superseded \in used \cup {NoId}

Blanks == \A i \in Ids \ stored : points[i] = Blank
Marks  == \A i \in Ids : points[i].superseded \in used \cup {NoId}

Base ==
    /\ TypeOK
    /\ Blanks
    /\ Marks
    /\ \A r \in Reqs : PhaseFits(req[r])

LEMMA SeedTyped == Blank \in Point /\ NoRequest \in Request
  <1>1. SeedNs \in Namespaces /\ SeedContent \in Contents
    BY IdsAssumption DEF SeedNs, SeedContent
  <1>2. Blank \in Point
    BY <1>1 DEF Blank, NewPoint, Point
  <1>3. NoRequest \in Request
    BY <1>1, <1>2 DEF NoRequest, Asks, Request, Phases
  <1>4. QED  BY <1>2, <1>3

LEMMA BaseInit ==
    ASSUME Init
    PROVE  Base
  <1>1. Blank.superseded = NoId
    BY DEF Blank, NewPoint
  <1>2. NoHits \in [Ids -> Nat] /\ NoFlush \in Flush
    BY DEF NoHits, NoFlush, Flush
  <1>3. hist \in History
    BY <1>2 DEF Init, History
  <1>4. TypeOK
    <2>1. points \in [Ids -> Point] /\ req \in [Reqs -> Request]
      BY SeedTyped DEF Init
    <2>2. pending \in [Ids -> Nat] /\ flush \in [Flushes -> Flush]
      BY <1>2 DEF Init
    <2>3. QED  BY <1>3, <2>1, <2>2, IdsAssumption, BoundAssumption DEF Init, TypeOK
  <1>5. Blanks /\ Marks
    BY <1>1 DEF Init, Blanks, Marks
  <1>6. \A r \in Reqs : PhaseFits(req[r])
    BY DEF Init, NoRequest, Asks, PhaseFits, Collected
  <1>7. QED  BY <1>4, <1>5, <1>6 DEF Base

(* The ids that were ever used stay used, so that a request that does not  *)
(* move goes on to fit.                                                    *)
LEMMA RestFits ==
    ASSUME used \subseteq used', NEW q \in Request, PhaseFits(q)
    PROVE  PhaseFits(q)'
  BY DEF PhaseFits

(* One request moves.                                                      *)
LEMMA Moves ==
    ASSUME Base, used \subseteq used', NEW r \in Reqs, NEW q \in Request, PhaseFits(q)',
           req' = [req EXCEPT ![r] = q]
    PROVE  req' \in [Reqs -> Request] /\ \A x \in Reqs : PhaseFits(req[x])'
  <1>1. req' \in [Reqs -> Request]
    BY DEF Base, TypeOK
  <1>2. ASSUME NEW x \in Reqs  PROVE PhaseFits(req[x])'
    <2>1. CASE x = r
      BY <2>1, <1>1 DEF PhaseFits, Base, TypeOK
    <2>2. CASE x # r
      <3>1. req[x] \in Request /\ PhaseFits(req[x]) /\ req'[x] = req[x]
        BY <2>2 DEF Base, TypeOK
      <3>2. PICK y \in Request : y = req[x]
        BY <3>1
      <3>3. PhaseFits(y)'
        BY <3>1, <3>2, RestFits
      <3>4. QED  BY <3>1, <3>2, <3>3 DEF PhaseFits
    <2>3. QED  BY <2>1, <2>2
  <1>3. QED  BY <1>1, <1>2

(* What a call to the collection leaves of its shape.                      *)
CollKept ==
    /\ stored' \subseteq used' /\ used \subseteq used' /\ used' \subseteq Ids
    /\ points' \in [Ids -> Point]
    /\ Blanks'
    /\ Marks'

LEMMA StillKept ==
    ASSUME Base, UNCHANGED <<stored, points, used>>
    PROVE  CollKept
  BY DEF Base, TypeOK, CollKept, Blanks, Marks

LEMMA PayloadKept ==
    ASSUME Base, NEW i \in Ids, NEW p \in Point, p.superseded \in used \cup {NoId},
           SetPayload(i, p)
    PROVE  CollKept
  <1>1. /\ points' = IF i \in stored THEN [points EXCEPT ![i] = p] ELSE points
        /\ stored' = stored /\ used' = used
    BY DEF SetPayload
  <1>2. points' \in [Ids -> Point]
    BY <1>1 DEF Base, TypeOK
  <1>3. Blanks' /\ Marks'
    BY <1>1 DEF Base, TypeOK, Blanks, Marks
  <1>4. QED  BY <1>1, <1>2, <1>3 DEF Base, TypeOK, CollKept

LEMMA UpsertKept ==
    ASSUME Base, NEW i \in Ids, NEW p \in Point, p.superseded = NoId, UpsertPoint(i, p)
    PROVE  CollKept
  <1>1. /\ points' = [points EXCEPT ![i] = p]
        /\ stored' = stored \cup {i} /\ used' = used \cup {i}
    BY DEF UpsertPoint
  <1>2. points' \in [Ids -> Point]
    BY <1>1 DEF Base, TypeOK
  <1>3. Blanks' /\ Marks'
    BY <1>1 DEF Base, TypeOK, Blanks, Marks
  <1>4. QED  BY <1>1, <1>2, <1>3 DEF Base, TypeOK, CollKept

LEMMA DeleteKept ==
    ASSUME Base, NEW i \in Ids, DeletePoint(i)
    PROVE  CollKept
  <1>1. /\ points' = [points EXCEPT ![i] = Blank]
        /\ stored' = stored \ {i} /\ used' = used
    BY DEF DeletePoint
  <1>2. points' \in [Ids -> Point] /\ Blank.superseded = NoId
    BY <1>1, SeedTyped DEF Base, TypeOK, Blank, NewPoint
  <1>3. Blanks' /\ Marks'
    BY <1>1, <1>2 DEF Base, TypeOK, Blanks, Marks
  <1>4. QED  BY <1>1, <1>2, <1>3 DEF Base, TypeOK, CollKept

(* What the steps below leave to show.                                     *)
LEMMA BaseFrom ==
    ASSUME Base, CollKept, NEW r \in Reqs, NEW q \in Request, PhaseFits(q)',
           req' = [req EXCEPT ![r] = q],
           hist' \in History, pending' \in [Ids -> Nat],
           UNCHANGED <<flush, crashes>>
    PROVE  Base'
  <1>1. req' \in [Reqs -> Request] /\ \A x \in Reqs : PhaseFits(req[x])'
    BY Moves DEF CollKept
  <1>2. QED  BY <1>1 DEF Base, CollKept, TypeOK

(* What becomes of the request: q, for the reading of the steps below.     *)
Moved(r, q) == q \in Request /\ req' = [req EXCEPT ![r] = q]

Alias(r, q) == q.op = req[r].op /\ q.ns = req[r].ns /\ q.content = req[r].content

Still == UNCHANGED <<stored, points, used>>

(* A field of a request changes.                                           *)
WithPc(x, v)      == [x EXCEPT !.pc = v]
WithId(x, v)      == [x EXCEPT !.id = v]
WithTargets(x, v) == [x EXCEPT !.supersedes = v]
WithSeen(x, v)    == [x EXCEPT !.seen = v]

LEMMA WithPcTyped ==
    ASSUME NEW x \in Request, NEW v \in Phases
    PROVE  /\ WithPc(x, v) \in Request
           /\ WithPc(x, v).pc = v /\ WithPc(x, v).op = x.op /\ WithPc(x, v).ns = x.ns
           /\ WithPc(x, v).content = x.content /\ WithPc(x, v).supersedes = x.supersedes
           /\ WithPc(x, v).id = x.id /\ WithPc(x, v).seen = x.seen
  <1>1. WithPc(x, v) \in Request
    BY DEF WithPc, Request
  <1>2. /\ WithPc(x, v).pc = v /\ WithPc(x, v).op = x.op /\ WithPc(x, v).ns = x.ns
        /\ WithPc(x, v).content = x.content /\ WithPc(x, v).supersedes = x.supersedes
        /\ WithPc(x, v).id = x.id /\ WithPc(x, v).seen = x.seen
    BY DEF WithPc, Request
  <1>3. QED  BY <1>1, <1>2

LEMMA WithIdTyped ==
    ASSUME NEW x \in Request, NEW v \in Ids \cup {NoId}
    PROVE  /\ WithId(x, v) \in Request
           /\ WithId(x, v).pc = x.pc /\ WithId(x, v).op = x.op /\ WithId(x, v).ns = x.ns
           /\ WithId(x, v).content = x.content /\ WithId(x, v).supersedes = x.supersedes
           /\ WithId(x, v).id = v /\ WithId(x, v).seen = x.seen
  <1>1. WithId(x, v) \in Request
    BY DEF WithId, Request
  <1>2. /\ WithId(x, v).pc = x.pc /\ WithId(x, v).op = x.op /\ WithId(x, v).ns = x.ns
        /\ WithId(x, v).content = x.content /\ WithId(x, v).supersedes = x.supersedes
        /\ WithId(x, v).id = v /\ WithId(x, v).seen = x.seen
    BY DEF WithId, Request
  <1>3. QED  BY <1>1, <1>2

LEMMA WithTargetsTyped ==
    ASSUME NEW x \in Request, NEW v \in SUBSET Ids
    PROVE  /\ WithTargets(x, v) \in Request
           /\ WithTargets(x, v).pc = x.pc /\ WithTargets(x, v).op = x.op /\ WithTargets(x, v).ns = x.ns
           /\ WithTargets(x, v).content = x.content /\ WithTargets(x, v).supersedes = v
           /\ WithTargets(x, v).id = x.id /\ WithTargets(x, v).seen = x.seen
  <1>1. WithTargets(x, v) \in Request
    BY DEF WithTargets, Request
  <1>2. /\ WithTargets(x, v).pc = x.pc /\ WithTargets(x, v).op = x.op /\ WithTargets(x, v).ns = x.ns
        /\ WithTargets(x, v).content = x.content /\ WithTargets(x, v).supersedes = v
        /\ WithTargets(x, v).id = x.id /\ WithTargets(x, v).seen = x.seen
    BY DEF WithTargets, Request
  <1>3. QED  BY <1>1, <1>2

LEMMA WithSeenTyped ==
    ASSUME NEW x \in Request, NEW v \in Point
    PROVE  /\ WithSeen(x, v) \in Request
           /\ WithSeen(x, v).pc = x.pc /\ WithSeen(x, v).op = x.op /\ WithSeen(x, v).ns = x.ns
           /\ WithSeen(x, v).content = x.content /\ WithSeen(x, v).supersedes = x.supersedes
           /\ WithSeen(x, v).id = x.id /\ WithSeen(x, v).seen = v
  <1>1. WithSeen(x, v) \in Request
    BY DEF WithSeen, Request
  <1>2. /\ WithSeen(x, v).pc = x.pc /\ WithSeen(x, v).op = x.op /\ WithSeen(x, v).ns = x.ns
        /\ WithSeen(x, v).content = x.content /\ WithSeen(x, v).supersedes = x.supersedes
        /\ WithSeen(x, v).id = x.id /\ WithSeen(x, v).seen = v
    BY DEF WithSeen, Request
  <1>3. QED  BY <1>1, <1>2

(* A request that only goes to another phase.                              *)
LEMMA GotoMoves ==
    ASSUME Base, NEW r \in Reqs, NEW p \in Phases, Goto(r, p)
    PROVE  \E q : /\ Moved(r, q) /\ Alias(r, q) /\ q.pc = p
                  /\ q.id = req[r].id /\ q.supersedes = req[r].supersedes /\ q.seen = req[r].seen
  <1> DEFINE q == WithPc(req[r], p)
  <1>1. req[r] \in Request
    BY DEF Base, TypeOK
  <1>2. req' = [req EXCEPT ![r] = q]
    BY Zenon DEF Goto, WithPc
  <1>3. /\ q \in Request /\ q.pc = p /\ q.op = req[r].op /\ q.ns = req[r].ns
        /\ q.id = req[r].id /\ q.content = req[r].content
        /\ q.supersedes = req[r].supersedes /\ q.seen = req[r].seen
    BY <1>1, WithPcTyped
  <1> HIDE DEF q
  <1>4. QED  BY <1>2, <1>3 DEF Moved, Alias

LEMMA CountTyped ==
    ASSUME Base, NEW S, hist' = CountHits(S)
    PROVE  hist' \in History
  <1>1. PICK h \in History : h = hist
    BY DEF Base, TypeOK
  <1>2. [i \in Ids |-> IF i \in S THEN h.hits[i] + 1 ELSE h.hits[i]] \in [Ids -> Nat]
    BY <1>1 DEF History
  <1>3. QED  BY <1>1, <1>2 DEF CountHits, History

LEMMA RecordTyped ==
    ASSUME Base, NEW S, Record(S)
    PROVE  hist' \in History /\ pending' \in [Ids -> Nat]
  BY CountTyped DEF Record, Base, TypeOK

LEMMA HideTyped ==
    ASSUME Base, NEW i \in Ids, hist' = [hist EXCEPT !.wasHidden = @ \cup {i}]
    PROVE  hist' \in History
  BY DEF Base, TypeOK, History

Inserted(h, r, i) == [h EXCEPT !.inserted = @ \cup {r}, !.origin[i] = r, !.writers[i] = @ \cup {r}]
Marked(h, r, i)   == [h EXCEPT !.wasHidden = @ \cup {i}, !.writers[i] = @ \cup {r}]
Rewrote(h, r, i)  == [h EXCEPT !.writers[i] = @ \cup {r}]
WroteBy(r, i)     == [hist.writers EXCEPT ![i] = @ \cup {r}]

LEMMA WritersTyped ==
    ASSUME NEW h \in History, NEW r \in Reqs, NEW i \in Ids
    PROVE  /\ Rewrote(h, r, i) \in History
           /\ Rewrote(h, r, i).writers = [h.writers EXCEPT ![i] = @ \cup {r}]
           /\ Rewrote(h, r, i).origin = h.origin /\ Rewrote(h, r, i).hits = h.hits
           /\ Rewrote(h, r, i).overlap = h.overlap /\ Rewrote(h, r, i).wasHidden = h.wasHidden
  <1> DEFINE w == [h.writers EXCEPT ![i] = @ \cup {r}]
  <1>1. w \in [Ids -> SUBSET Reqs]
    BY DEF History
  <1>2. Rewrote(h, r, i) = [h EXCEPT !.writers = w]
    BY DEF Rewrote, History
  <1> HIDE DEF w
  <1>3. QED  BY <1>1, <1>2 DEF History, w

LEMMA InsertTyped ==
    ASSUME Base, NEW r \in Reqs, NEW i \in Ids,
           hist' = Inserted(hist, r, i)
    PROVE  /\ hist' \in History
           /\ hist'.origin = [hist.origin EXCEPT ![i] = r] /\ hist'.writers = WroteBy(r, i)
           /\ hist'.hits = hist.hits /\ hist'.overlap = hist.overlap
           /\ hist'.wasHidden = hist.wasHidden
  <1>1. PICK h \in History : h = hist
    BY DEF Base, TypeOK
  <1> DEFINE o == [h.origin EXCEPT ![i] = r]
             k == h.inserted \cup {r}
             a == [h EXCEPT !.inserted = k]
             b == [a EXCEPT !.origin = o]
  <1>2. hist' = Rewrote(b, r, i)
    BY <1>1 DEF Inserted, Rewrote, History
  <1>3. o \in [Ids -> Reqs \cup {NoId}] /\ k \in SUBSET Reqs
    BY DEF History
  <1> HIDE DEF o, k
  <1>4. /\ a \in History /\ a.hits = h.hits /\ a.overlap = h.overlap
        /\ a.wasHidden = h.wasHidden /\ a.origin = h.origin /\ a.writers = h.writers
    BY <1>3 DEF History
  <1> HIDE DEF a
  <1>5. /\ b \in History /\ b.hits = h.hits /\ b.overlap = h.overlap
        /\ b.wasHidden = h.wasHidden /\ b.origin = o /\ b.writers = h.writers
    BY <1>3, <1>4 DEF History
  <1> HIDE DEF b
  <1>6. QED  BY <1>1, <1>2, <1>5, WritersTyped DEF o, WroteBy

LEMMA MarkTyped ==
    ASSUME Base, NEW r \in Reqs, NEW i \in Ids, hist' = Marked(hist, r, i)
    PROVE  /\ hist' \in History
           /\ hist'.origin = hist.origin /\ hist'.writers = WroteBy(r, i)
           /\ hist'.hits = hist.hits /\ hist'.overlap = hist.overlap
           /\ hist'.wasHidden = hist.wasHidden \cup {i}
  <1>1. PICK h \in History : h = hist
    BY DEF Base, TypeOK
  <1> DEFINE b == [h EXCEPT !.wasHidden = @ \cup {i}]
  <1>2. hist' = Rewrote(b, r, i)
    BY <1>1 DEF Marked, Rewrote, History
  <1>3. /\ b \in History /\ b.hits = h.hits /\ b.overlap = h.overlap
        /\ b.wasHidden = h.wasHidden \cup {i} /\ b.origin = h.origin /\ b.writers = h.writers
    BY DEF History
  <1> HIDE DEF b
  <1>4. QED  BY <1>1, <1>2, <1>3, WritersTyped DEF WroteBy

LEMMA RewriteTyped ==
    ASSUME Base, NEW r \in Reqs, NEW i \in Ids, NEW S, hist' = Rewrote(CountHits(S), r, i)
    PROVE  /\ hist' \in History
           /\ hist'.origin = hist.origin /\ hist'.writers = WroteBy(r, i)
           /\ hist'.hits = CountHits(S).hits /\ hist'.overlap = hist.overlap
           /\ hist'.wasHidden = hist.wasHidden
  <1>1. PICK h \in History : h = hist
    BY DEF Base, TypeOK
  <1> DEFINE k == [j \in Ids |-> IF j \in S THEN h.hits[j] + 1 ELSE h.hits[j]]
             b == [h EXCEPT !.hits = k]
  <1>2. CountHits(S) = b
    BY <1>1 DEF CountHits
  <1>3. k \in [Ids -> Nat]
    BY DEF History
  <1> HIDE DEF k
  <1>4. /\ b \in History /\ b.overlap = h.overlap
        /\ b.wasHidden = h.wasHidden /\ b.origin = h.origin /\ b.writers = h.writers
    BY <1>3 DEF History
  <1> HIDE DEF b
  <1>5. QED  BY <1>1, <1>2, <1>4, WritersTyped DEF WroteBy

-----------------------------------------------------------------------------
(* One lemma per operation: it keeps the base.                             *)
LEMMA BeginBase ==
    ASSUME Base, NEW r \in Reqs, Begin(r)
    PROVE  Base'
  <1>1. CollKept /\ UNCHANGED <<used, pending, flush, crashes>>
    BY StillKept DEF Begin
  <1>2. hist' \in History
    <2>1. PICK h \in History : h = hist
      BY DEF Base, TypeOK
    <2>2. InFlight \subseteq Reqs
      BY DEF InFlight
    <2>3. [q \in Reqs |-> CASE q = r -> InFlight
                            [] q \in InFlight -> h.overlap[q] \cup {r}
                            [] OTHER -> h.overlap[q]] \in [Reqs -> SUBSET Reqs]
      BY <2>2 DEF History
    <2>4. QED  BY <2>1, <2>3 DEF Begin, History
  <1> DEFINE P(o) == IF o \in {"store", "storeId", "search"} THEN "embed" ELSE "fetch"
             Fits(i, o) == /\ o = "storeId" => i \in Ids
                           /\ o \notin {"store", "storeId", "search"} => i \in used
             Asked(n, c, s, i, o) == req' = [req EXCEPT ![r] = Asks(P(o), o, n, c, s, i)]
  <1>3. ASSUME NEW o \in Ops, NEW n \in Namespaces, NEW c \in Contents, NEW s \in SUBSET Ids,
               NEW i \in Ids \cup {NoId}, Fits(i, o)
        PROVE  Asks(P(o), o, n, c, s, i) \in Request /\ PhaseFits(Asks(P(o), o, n, c, s, i))
    <2>1. Asks(P(o), o, n, c, s, i) \in Request
      BY <1>3, SeedTyped DEF Asks, Request, Phases, Base, TypeOK
    <2>2. PhaseFits(Asks(P(o), o, n, c, s, i))
      BY <1>3, OpsAssumption DEF Asks, PhaseFits, Collected
    <2>3. QED  BY <2>1, <2>2
  <1>4. PICK q \in Request : PhaseFits(q) /\ req' = [req EXCEPT ![r] = q]
    <2>1. used \subseteq Ids /\ Named \subseteq Ids /\ SeedContent \in Contents
          /\ {} \in SUBSET Ids
      BY IdsAssumption DEF Base, TypeOK, SeedContent, Named
    <2>2. PICK n \in Namespaces :
            \/ /\ "store" \in Ops
               /\ \E c \in Contents, s \in SUBSET Named : Asked(n, c, s, NoId, "store")
            \/ /\ "storeId" \in Ops
               /\ \E c \in Contents, s \in SUBSET Named, i \in Named : Asked(n, c, s, i, "storeId")
            \/ "search" \in Ops /\ Asked(n, SeedContent, {}, NoId, "search")
            \/ \E o \in Ops \ {"store", "storeId", "search"}, i \in used : Asked(n, SeedContent, {}, i, o)
      BY DEF Begin
    <2>3. PICK c \in Contents, s \in SUBSET Ids, i \in Ids \cup {NoId}, o \in Ops :
             Fits(i, o) /\ Asked(n, c, s, i, o)
      <3>1. Fits(NoId, "store") /\ Fits(NoId, "search")
            /\ (\A i \in Ids : Fits(i, "storeId"))
            /\ (\A i \in used, o \in Ops \ {"store", "storeId", "search"} : Fits(i, o))
        OBVIOUS
      <3> HIDE DEF Asked, Fits
      <3>2. QED  BY <2>1, <2>2, <3>1
    <2>4. QED  BY <1>3, <2>3
  <1>5. PhaseFits(q)'
    BY <1>1, <1>4, RestFits
  <1>6. QED  BY <1>1, <1>2, <1>4, <1>5, BaseFrom DEF Base, TypeOK

LEMMA SearchMoves ==
    ASSUME Base, NEW r \in Reqs, SearchTopOne(r)
    PROVE  /\ req[r].pc = "embed" /\ req[r].op = "store"
           /\ Still /\ UNCHANGED <<pending, flush, crashes, hist>>
           /\ \E q : /\ Moved(r, q) /\ Alias(r, q) /\ q.supersedes = req[r].supersedes
                     /\ \/ /\ q.pc = "rewrite" /\ q.id \in stored
                           /\ points[q.id].ns = req[r].ns /\ ~Hidden(points[q.id])
                           /\ q.seen \in {Reinforced(points[q.id]), Merged(points[q.id], r)}
                        \/ /\ q.pc = "upsert" /\ q.id = req[r].id
                           /\ req[r].ns \in DedupNamespaces => Missed(req[r].ns, req[r].content)
  <1>1. /\ req[r].pc = "embed" /\ req[r].op = "store"
        /\ Still /\ UNCHANGED <<pending, flush, crashes, hist>>
    BY DEF SearchTopOne, At, Still
  <1>2. CASE \E i \in stored, p \in Point :
               /\ points[i].ns = req[r].ns /\ ~Hidden(points[i])
               /\ p \in {Reinforced(points[i]), Merged(points[i], r)}
               /\ req' = [req EXCEPT ![r].pc = "rewrite", ![r].id = i, ![r].seen = p]
    <2>1. PICK i \in stored, p \in Point :
               /\ points[i].ns = req[r].ns /\ ~Hidden(points[i])
               /\ p \in {Reinforced(points[i]), Merged(points[i], r)}
               /\ req' = [req EXCEPT ![r].pc = "rewrite", ![r].id = i, ![r].seen = p]
      BY <1>2
    <2> DEFINE x == WithPc(req[r], "rewrite")
               y == WithId(x, i)
               q == WithSeen(y, p)
    <2>2. req[r] \in Request /\ "rewrite" \in Phases /\ i \in Ids
      BY DEF Base, TypeOK, Phases
    <2>3. req' = [req EXCEPT ![r] = q]
      BY <2>1, <2>2 DEF WithPc, WithId, WithSeen, Base, TypeOK
    <2>4. q \in Request /\ Alias(r, q) /\ q.supersedes = req[r].supersedes
          /\ q.pc = "rewrite" /\ q.id = i /\ q.seen = p
      BY <2>2, WithPcTyped, WithIdTyped, WithSeenTyped DEF Alias
    <2> HIDE DEF q
    <2>5. QED  BY <1>1, <2>1, <2>3, <2>4 DEF Moved
  <1>3. CASE /\ req[r].ns \in DedupNamespaces => Missed(req[r].ns, req[r].content)
             /\ Goto(r, "upsert")
    BY <1>1, <1>3, GotoMoves, "upsert" \in Phases DEF Phases
  <1>4. ASSUME NEW i \in stored
        PROVE  Reinforced(points[i]) \in Point /\ Merged(points[i], r) \in Point
    <2>1. PICK p \in Point : p = points[i]
      BY DEF Base, TypeOK
    <2>2. p.count + 1 \in Nat
      BY DEF Point
    <2>3. QED  BY <2>1, <2>2 DEF Reinforced, Merged, Point
  <1>5. QED
    BY <1>2, <1>3, <1>4 DEF SearchTopOne, FoundAlike, FoundNear, Visible, Alike, Near, InNamespace

LEMMA UpsertMoves ==
    ASSUME Base, NEW r \in Reqs, Upsert(r)
    PROVE  /\ req[r].pc = "upsert" /\ UNCHANGED <<pending, flush, crashes>>
           /\ \E q, i : /\ Moved(r, q) /\ Alias(r, q) /\ q.id = i /\ q.supersedes = req[r].supersedes
                        /\ q.pc \in {"inserted", "mark"}
                        /\ i \in Ids
                        /\ req[r].op = "storeId" => i = req[r].id
                        /\ req[r].op # "storeId" => i \in FreshIds
                        /\ UpsertPoint(i, NewPoint(req[r].ns, req[r].content, r))
                        /\ hist' = Inserted(hist, r, i)
  <1>1. req[r].pc = "upsert" /\ UNCHANGED <<pending, flush, crashes>>
    BY DEF Upsert, At
  <1>2. PICK i \in (IF req[r].op = "storeId" THEN {req[r].id} ELSE FreshIds) :
           /\ UpsertPoint(i, NewPoint(req[r].ns, req[r].content, r))
           /\ hist' = Inserted(hist, r, i)
           /\ req' = [req EXCEPT ![r].id = i,
                   ![r].pc = IF req[r].supersedes \ {i} = {} THEN "inserted" ELSE "mark"]
    BY DEF Upsert, Inserted
  <1>3. i \in Ids
    BY <1>1, <1>2, IdsAssumption DEF Base, PhaseFits, FreshIds
  <1> DEFINE p == IF req[r].supersedes \ {i} = {} THEN "inserted" ELSE "mark"
             x == WithId(req[r], i)
             q == WithPc(x, p)
  <1>4. req[r] \in Request /\ p \in {"inserted", "mark"} /\ p \in Phases
    BY DEF Base, TypeOK, Phases
  <1>5. req' = [req EXCEPT ![r] = q]
    BY <1>2, <1>4 DEF WithPc, WithId, Base, TypeOK
  <1> HIDE DEF p
  <1>6. q \in Request /\ Alias(r, q) /\ q.supersedes = req[r].supersedes
        /\ q.pc \in {"inserted", "mark"} /\ q.id = i
    BY <1>3, <1>4, WithPcTyped, WithIdTyped DEF Alias
  <1> HIDE DEF q
  <1>7. QED  BY <1>1, <1>2, <1>3, <1>5, <1>6 DEF Moved

LEMMA MarkRetrieveMoves ==
    ASSUME Base, NEW r \in Reqs, MarkRetrieve(r)
    PROVE  /\ req[r].pc = "mark" /\ Still /\ UNCHANGED <<pending, flush, crashes, hist>>
           /\ \E q : /\ Moved(r, q) /\ Alias(r, q) /\ q.id = req[r].id
                     /\ q.pc \in {"inserted", "marking"}
                     /\ q.supersedes = {i \in req[r].supersedes \ {req[r].id} :
                                           i \in InNamespace(req[r].ns)}
  <1> DEFINE targets == {i \in req[r].supersedes \ {req[r].id} : i \in InNamespace(req[r].ns)}
             p == IF targets = {} THEN "inserted" ELSE "marking"
             x == WithPc(req[r], p)
             q == WithTargets(x, targets)
  <1>1. /\ req[r].pc = "mark" /\ Still /\ UNCHANGED <<pending, flush, crashes, hist>>
        /\ req' = [req EXCEPT ![r].pc = p, ![r].supersedes = targets]
    BY DEF MarkRetrieve, At, Still
  <1>2. req[r] \in Request /\ p \in Phases /\ targets \in SUBSET Ids
    BY DEF Base, TypeOK, Phases, InNamespace
  <1> HIDE DEF targets
  <1>3. req' = [req EXCEPT ![r] = q]
    BY <1>1, <1>2 DEF WithPc, WithTargets, Base, TypeOK
  <1>4. q \in Request /\ Alias(r, q) /\ q.supersedes = targets
        /\ q.pc \in {"inserted", "marking"} /\ q.id = req[r].id
    BY SMTT(30), <1>2, WithPcTyped, WithTargetsTyped DEF Alias
  <1> HIDE DEF q
  <1>5. QED  BY <1>1, <1>3, <1>4 DEF Moved, targets

LEMMA MarkOneMoves ==
    ASSUME Base, NEW r \in Reqs, MarkOne(r)
    PROVE  /\ req[r].pc = "marking" /\ UNCHANGED <<pending, flush, crashes>>
           /\ \E q, i : /\ Moved(r, q) /\ Alias(r, q) /\ q.id = req[r].id
                        /\ q.pc \in {"inserted", "marking"}
                        /\ q.supersedes = req[r].supersedes \ {i}
                        /\ i \in req[r].supersedes
                        /\ \/ /\ SetPayload(i, [points[i] EXCEPT !.superseded = req[r].id])
                              /\ hist' = Marked(hist, r, i)
                           \/ Still /\ hist' = hist
  <1>1. req[r].pc = "marking" /\ UNCHANGED <<pending, flush, crashes>>
    BY DEF MarkOne, At
  <1>2. PICK i \in req[r].supersedes :
           /\ \/ /\ SetPayload(i, [points[i] EXCEPT !.superseded = req[r].id])
                 /\ hist' = Marked(hist, r, i)
              \/ UNCHANGED <<stored, points, used, hist>>
           /\ req' = [req EXCEPT ![r].supersedes = @ \ {i},
                                 ![r].pc = IF req[r].supersedes = {i} THEN "inserted" ELSE @]
    BY DEF MarkOne, Marked
  <1> DEFINE targets == req[r].supersedes \ {i}
             p == IF req[r].supersedes = {i} THEN "inserted" ELSE "marking"
             x == WithTargets(req[r], targets)
             q == WithPc(x, p)
  <1>3. req[r] \in Request /\ p \in Phases /\ targets \in SUBSET Ids
    BY <1>1 DEF Base, TypeOK, Phases, PhaseFits
  <1>4. x.pc = "marking" /\ x \in Request
    BY <1>1, <1>3, WithTargetsTyped
  <1>5. req' = [req EXCEPT ![r] = q]
    BY <1>1, <1>2, <1>3, <1>4 DEF WithPc, WithTargets, Base, TypeOK
  <1>6. q \in Request /\ Alias(r, q) /\ q.supersedes = targets
        /\ q.pc \in {"inserted", "marking"} /\ q.id = req[r].id
    BY <1>3, WithPcTyped, WithTargetsTyped DEF Alias
  <1> HIDE DEF q
  <1>7. QED  BY <1>1, <1>2, <1>5, <1>6 DEF Moved, Still

LEMMA FetchMoves ==
    ASSUME Base, NEW r \in Reqs, Fetch(r)
    PROVE  /\ req[r].pc = "fetch" /\ Still /\ UNCHANGED <<flush, crashes>>
           /\ \E S \in SUBSET Ids : Record(S)
           /\ \E q : /\ Moved(r, q) /\ Alias(r, q) /\ q.id = req[r].id
                     /\ q.supersedes = req[r].supersedes
                     /\ \/ q.pc \in {"notFound", "done"}
                        \/ /\ q.id \in stored /\ points[q.id].ns = req[r].ns
                           /\ \/ q.pc \in {"tombstone", "untombstone", "remove"}
                              \/ /\ q.pc = "rewrite" /\ req[r].op = "update"
                                 /\ q.seen = [points[q.id] EXCEPT !.edit = r]
  <1> DEFINE i == req[r].id
             found == Owned(i, req[r].ns) /\ (points[i].deleted => req[r].op \in OptsIn)
             wanted == IF req[r].op = "update" THEN [points[i] EXCEPT !.edit = r] ELSE points[i]
             S == IF found /\ req[r].op = "get" THEN {i} ELSE {}
  <1>1. /\ req[r].pc = "fetch" /\ Still /\ UNCHANGED <<flush, crashes>>
        /\ Record(S)
        /\ IF found THEN req' = [req EXCEPT ![r].pc = AfterFetch(req[r].op, points[i]), ![r].seen = wanted]
                    ELSE Goto(r, "notFound")
    BY DEF Fetch, At, Still
  <1>2. /\ req[r] \in Request /\ i \in used /\ i \in Ids
        /\ req[r].op \in {"update", "delete", "restore", "purge", "get"}
    BY <1>1 DEF Base, TypeOK, PhaseFits, Collected
  <1>3. S \in SUBSET Ids
    BY <1>2
  <1>4. CASE ~found
    <2>1. Goto(r, "notFound") /\ "notFound" \in Phases
      BY <1>1, <1>4 DEF Phases
    <2>2. PICK q : /\ Moved(r, q) /\ Alias(r, q) /\ q.pc = "notFound"
                   /\ q.id = req[r].id /\ q.supersedes = req[r].supersedes
      BY <2>1, GotoMoves
    <2> HIDE DEF S
    <2>3. QED  BY <1>1, <1>3, <2>2
  <1>5. CASE found
    <2> DEFINE p == AfterFetch(req[r].op, points[i])
               x == WithPc(req[r], p)
               q == WithSeen(x, wanted)
    <2>1. wanted \in Point
      <3>1. PICK v \in Point : v = points[i]
        BY <1>2 DEF Base, TypeOK
      <3>2. [v EXCEPT !.edit = r] \in Point
        BY DEF Point
      <3>3. QED  BY <3>1, <3>2
    <2>2. /\ req[r].op = "update" => p = "rewrite"
          /\ req[r].op = "delete" => p = "tombstone"
          /\ req[r].op = "restore" => p \in {"untombstone", "done"}
          /\ req[r].op = "purge" => p = "remove"
          /\ req[r].op = "get" => p = "done"
      BY DEF AfterFetch
    <2>3. p \in Phases
      BY <1>2, <2>2 DEF Phases
    <2>4. i \in stored /\ points[i].ns = req[r].ns
      BY <1>5 DEF Owned
    <2> HIDE DEF wanted, p
    <2>5. req' = [req EXCEPT ![r] = q]
      BY <1>1, <1>2, <1>5 DEF WithPc, WithSeen, Base, TypeOK, p
    <2>6. q \in Request /\ Alias(r, q) /\ q.supersedes = req[r].supersedes
          /\ q.pc = p /\ q.id = i /\ q.seen = wanted
      BY <1>2, <2>1, <2>3, WithPcTyped, WithSeenTyped DEF Alias
    <2> HIDE DEF q
    <2>7. \/ q.pc = "done"
          \/ q.pc \in {"tombstone", "untombstone", "remove"}
          \/ q.pc = "rewrite" /\ req[r].op = "update" /\ q.seen = [points[q.id] EXCEPT !.edit = r]
      BY <1>2, <2>2, <2>6 DEF wanted
    <2>8. QED  BY <1>1, <1>3, <2>4, <2>5, <2>6, <2>7 DEF Moved
  <1>6. QED  BY <1>4, <1>5

(* A field of a point changes.                                             *)
AsSuperseded(p, v) == [p EXCEPT !.superseded = v]
AsDeleted(p, v)    == [p EXCEPT !.deleted = v]
AsCounted(p, v)    == [p EXCEPT !.count = v]
AsEdited(p, v)     == [p EXCEPT !.edit = v]

LEMMA AsSupersededTyped ==
    ASSUME NEW p \in Point, NEW v \in Ids \cup {NoId}
    PROVE  /\ AsSuperseded(p, v) \in Point
           /\ AsSuperseded(p, v).ns = p.ns /\ AsSuperseded(p, v).content = p.content /\ AsSuperseded(p, v).edit = p.edit
           /\ AsSuperseded(p, v).count = p.count /\ AsSuperseded(p, v).superseded = v /\ AsSuperseded(p, v).deleted = p.deleted
  <1>1. AsSuperseded(p, v) \in Point
    BY DEF AsSuperseded, Point
  <1>2. /\ AsSuperseded(p, v).ns = p.ns /\ AsSuperseded(p, v).content = p.content /\ AsSuperseded(p, v).edit = p.edit
        /\ AsSuperseded(p, v).count = p.count /\ AsSuperseded(p, v).superseded = v /\ AsSuperseded(p, v).deleted = p.deleted
    BY DEF AsSuperseded, Point
  <1>3. QED  BY <1>1, <1>2

LEMMA AsDeletedTyped ==
    ASSUME NEW p \in Point, NEW v \in BOOLEAN
    PROVE  /\ AsDeleted(p, v) \in Point
           /\ AsDeleted(p, v).ns = p.ns /\ AsDeleted(p, v).content = p.content /\ AsDeleted(p, v).edit = p.edit
           /\ AsDeleted(p, v).count = p.count /\ AsDeleted(p, v).superseded = p.superseded /\ AsDeleted(p, v).deleted = v
  <1>1. AsDeleted(p, v) \in Point
    BY DEF AsDeleted, Point
  <1>2. /\ AsDeleted(p, v).ns = p.ns /\ AsDeleted(p, v).content = p.content /\ AsDeleted(p, v).edit = p.edit
        /\ AsDeleted(p, v).count = p.count /\ AsDeleted(p, v).superseded = p.superseded /\ AsDeleted(p, v).deleted = v
    BY DEF AsDeleted, Point
  <1>3. QED  BY <1>1, <1>2

LEMMA AsCountedTyped ==
    ASSUME NEW p \in Point, NEW v \in Nat
    PROVE  /\ AsCounted(p, v) \in Point
           /\ AsCounted(p, v).ns = p.ns /\ AsCounted(p, v).content = p.content /\ AsCounted(p, v).edit = p.edit
           /\ AsCounted(p, v).count = v /\ AsCounted(p, v).superseded = p.superseded /\ AsCounted(p, v).deleted = p.deleted
  <1>1. AsCounted(p, v) \in Point
    BY DEF AsCounted, Point
  <1>2. /\ AsCounted(p, v).ns = p.ns /\ AsCounted(p, v).content = p.content /\ AsCounted(p, v).edit = p.edit
        /\ AsCounted(p, v).count = v /\ AsCounted(p, v).superseded = p.superseded /\ AsCounted(p, v).deleted = p.deleted
    BY DEF AsCounted, Point
  <1>3. QED  BY <1>1, <1>2

LEMMA AsEditedTyped ==
    ASSUME NEW p \in Point, NEW v \in Reqs \cup {NoId}
    PROVE  /\ AsEdited(p, v) \in Point
           /\ AsEdited(p, v).ns = p.ns /\ AsEdited(p, v).content = p.content /\ AsEdited(p, v).edit = v
           /\ AsEdited(p, v).count = p.count /\ AsEdited(p, v).superseded = p.superseded /\ AsEdited(p, v).deleted = p.deleted
  <1>1. AsEdited(p, v) \in Point
    BY DEF AsEdited, Point
  <1>2. /\ AsEdited(p, v).ns = p.ns /\ AsEdited(p, v).content = p.content /\ AsEdited(p, v).edit = v
        /\ AsEdited(p, v).count = p.count /\ AsEdited(p, v).superseded = p.superseded /\ AsEdited(p, v).deleted = p.deleted
    BY DEF AsEdited, Point
  <1>3. QED  BY <1>1, <1>2

LEMMA RewriteMoves ==
    ASSUME Base, NEW r \in Reqs, Rewrite(r)
    PROVE  /\ req[r].pc = "rewrite" /\ UNCHANGED <<pending, flush, crashes>>
           /\ req[r].id \in used /\ req[r].id \in Ids /\ req[r].seen \in Point
           /\ SetPayload(req[r].id, req[r].seen)
           /\ hist' = Rewrote(CountHits(IF req[r].op = "store" THEN {req[r].id} ELSE {}), r, req[r].id)
           /\ \E q : /\ Moved(r, q) /\ Alias(r, q) /\ q.id = req[r].id
                     /\ q.supersedes = req[r].supersedes /\ q.pc \in {"matched", "done"}
  <1>1. /\ req[r].pc = "rewrite" /\ UNCHANGED <<pending, flush, crashes>>
        /\ SetPayload(req[r].id, req[r].seen)
        /\ hist' = Rewrote(CountHits(IF req[r].op = "store" THEN {req[r].id} ELSE {}), r, req[r].id)
        /\ Goto(r, IF req[r].op = "store" THEN "matched" ELSE "done")
    BY DEF Rewrite, At, Rewrote
  <1>2. req[r].id \in used /\ req[r].id \in Ids /\ req[r].seen \in Point
    BY <1>1 DEF Base, TypeOK, PhaseFits, Collected, Request
  <1>3. PICK p \in {"matched", "done"} : Goto(r, p)
    BY <1>1
  <1>4. p \in Phases
    BY DEF Phases
  <1>5. QED  BY <1>1, <1>2, <1>3, <1>4, GotoMoves

LEMMA TombstoneMoves ==
    ASSUME Base, NEW r \in Reqs, Tombstone(r) \/ Untombstone(r)
    PROVE  /\ req[r].pc \in {"tombstone", "untombstone"} /\ UNCHANGED <<pending, flush, crashes>>
           /\ req[r].id \in used /\ req[r].id \in Ids
           /\ \E v \in BOOLEAN :
                 /\ SetPayload(req[r].id, AsDeleted(points[req[r].id], v))
                 /\ \/ v /\ hist' = [hist EXCEPT !.wasHidden = @ \cup {req[r].id}]
                    \/ ~v /\ hist' = hist
           /\ \E q : /\ Moved(r, q) /\ Alias(r, q) /\ q.id = req[r].id
                     /\ q.supersedes = req[r].supersedes /\ q.pc = "done"
  <1>1. /\ req[r].pc \in {"tombstone", "untombstone"} /\ UNCHANGED <<pending, flush, crashes>>
        /\ Goto(r, "done")
    BY DEF Tombstone, Untombstone, At
  <1>2. req[r].id \in used /\ req[r].id \in Ids
    BY <1>1 DEF Base, TypeOK, PhaseFits, Collected
  <1>3. PICK v \in BOOLEAN :
                 /\ SetPayload(req[r].id, AsDeleted(points[req[r].id], v))
                 /\ \/ v /\ hist' = [hist EXCEPT !.wasHidden = @ \cup {req[r].id}]
                    \/ ~v /\ hist' = hist
    BY DEF Tombstone, Untombstone, AsDeleted
  <1>4. "done" \in Phases
    BY DEF Phases
  <1>5. QED  BY <1>1, <1>2, <1>3, <1>4, GotoMoves

LEMMA RemoveMoves ==
    ASSUME Base, NEW r \in Reqs, Remove(r)
    PROVE  /\ req[r].pc = "remove" /\ UNCHANGED <<pending, flush, crashes, hist>>
           /\ req[r].id \in used /\ req[r].id \in Ids
           /\ DeletePoint(req[r].id)
           /\ \E q : /\ Moved(r, q) /\ Alias(r, q) /\ q.id = req[r].id
                     /\ q.supersedes = req[r].supersedes /\ q.pc = "done"
  <1>1. /\ req[r].pc = "remove" /\ UNCHANGED <<pending, flush, crashes, hist>>
        /\ DeletePoint(req[r].id) /\ Goto(r, "done")
    BY DEF Remove, At
  <1>2. req[r].id \in used /\ req[r].id \in Ids
    BY <1>1 DEF Base, TypeOK, PhaseFits, Collected
  <1>3. "done" \in Phases
    BY DEF Phases
  <1>4. QED  BY <1>1, <1>2, <1>3, GotoMoves

(* Steps that do nothing but end a request, or find its id free.           *)
LEMMA PlainMoves ==
    ASSUME Base, NEW r \in Reqs, AssertIdFree(r) \/ CallFails(r) \/ Search(r)
    PROVE  /\ Still /\ UNCHANGED <<flush, crashes>>
           /\ \E S \in SUBSET Ids : Record(S)
           /\ req[r].pc \notin Over
           /\ \E q : /\ Moved(r, q) /\ Alias(r, q) /\ q.id = req[r].id
                     /\ q.supersedes = req[r].supersedes
                     /\ \/ q.pc \in {"failed", "done"}
                        \/ q.pc = "upsert" /\ req[r].pc = "embed" /\ req[r].op = "storeId"
  <1>1. ASSUME UNCHANGED <<pending, hist>>  PROVE Record({})
    <2>1. PICK h \in History : h = hist
      BY DEF Base, TypeOK
    <2>2. [h EXCEPT !.hits = [i \in Ids |-> h.hits[i]]] = h
      BY DEF History
    <2>3. hist' = CountHits({})
      BY <1>1, <2>1, <2>2 DEF CountHits
    <2>4. QED  BY <1>1, <2>3 DEF Record, Base, TypeOK
  <1>2. PICK S \in SUBSET Ids : Record(S)
    <2>1. CASE Search(r)
      <3>1. Visible(InNamespace(req[r].ns)) \in SUBSET Ids
        BY DEF Visible, InNamespace, Base, TypeOK
      <3>2. QED  BY <2>1, <3>1 DEF Search
    <2>2. CASE AssertIdFree(r) \/ CallFails(r)
      BY <1>1, <2>2 DEF AssertIdFree, CallFails
    <2>3. QED  BY <2>1, <2>2
  <1>3. Still /\ UNCHANGED <<flush, crashes>> /\ req[r].pc \notin Over
    BY DEF AssertIdFree, CallFails, Search, At, Still, Over
  <1>4. PICK p \in {"failed", "done", "upsert"} :
           /\ Goto(r, p)
           /\ p = "upsert" => req[r].pc = "embed" /\ req[r].op = "storeId"
    BY DEF AssertIdFree, CallFails, Search, At
  <1>5. p \in Phases
    BY DEF Phases
  <1>6. PICK q : /\ Moved(r, q) /\ Alias(r, q) /\ q.pc = p
                 /\ q.id = req[r].id /\ q.supersedes = req[r].supersedes
    BY <1>4, <1>5, GotoMoves
  <1>7. \/ q.pc \in {"failed", "done"}
        \/ q.pc = "upsert" /\ req[r].pc = "embed" /\ req[r].op = "storeId"
    BY <1>4, <1>6
  <1>8. QED  BY <1>2, <1>3, <1>6, <1>7

(* The three stages of a flush.                                            *)
FlushMoved(f, g) == g \in Flush /\ flush' = [flush EXCEPT ![f] = g]

LEMMA TakeMoves ==
    ASSUME Base, NEW f \in Flushes, FlushTake(f)
    PROVE  /\ Idle(f) /\ pending' = NoHits /\ Still /\ UNCHANGED <<req, crashes, hist>>
           /\ \E g : /\ FlushMoved(f, g)
                     /\ g.reading = TRUE /\ g.batch = pending /\ g.todo = {}
  <1> DEFINE g == [NoFlush EXCEPT !.reading = TRUE, !.batch = pending]
  <1>1. g \in Flush
    BY DEF NoFlush, NoHits, Flush, Base, TypeOK
  <1>2. g.reading = TRUE /\ g.batch = pending /\ g.todo = {}
    BY DEF NoFlush
  <1>3. /\ Idle(f) /\ pending' = NoHits /\ Still /\ UNCHANGED <<req, crashes, hist>>
        /\ flush' = [flush EXCEPT ![f] = g]
    BY DEF FlushTake, Still
  <1> HIDE DEF g
  <1>4. QED  BY <1>1, <1>2, <1>3 DEF FlushMoved

LEMMA NoFlushTyped ==
    /\ NoFlush \in Flush /\ NoFlush.reading = FALSE /\ NoFlush.todo = {}
    /\ NoHits \in [Ids -> Nat] /\ \A i \in Ids : NoHits[i] = 0
  BY DEF NoFlush, NoHits, Flush

LEMMA ReadMoves ==
    ASSUME Base, NEW f \in Flushes, FlushRead(f)
    PROVE  /\ flush[f].reading /\ Still /\ UNCHANGED <<req, pending, crashes, hist>>
           /\ \E g : /\ FlushMoved(f, g)
                     /\ g.reading = FALSE /\ g.todo \subseteq stored
                     /\ \A i \in g.todo : g.batch[i] = flush[f].batch[i] /\ g.read[i] = points[i].count
  <1> DEFINE found == {i \in stored : flush[f].batch[i] > 0}
             counts == [i \in Ids |-> IF i \in found THEN points[i].count ELSE 0]
             g == [flush[f] EXCEPT !.reading = FALSE, !.todo = found, !.read = counts]
  <1>1. PICK x \in Flush : x = flush[f]
    BY DEF Base, TypeOK
  <1>2. found \subseteq Ids /\ found \subseteq stored
    BY DEF Base, TypeOK
  <1>3. counts \in [Ids -> Nat]
    <2>1. \A i \in Ids : points[i].count \in Nat
      BY DEF Base, TypeOK, Point
    <2>2. QED  BY <2>1
  <1> HIDE DEF found
  <1>4. g \in Flush /\ g.reading = FALSE /\ g.todo = found /\ g.read = counts /\ g.batch = flush[f].batch
    <2> DEFINE a == [x EXCEPT !.reading = FALSE]
               b == [a EXCEPT !.todo = found]
               c == [b EXCEPT !.read = counts]
    <2> HIDE DEF counts
    <2>1. a \in Flush /\ a.reading = FALSE /\ a.batch = x.batch
      BY DEF Flush
    <2>2. b \in Flush /\ b.reading = FALSE /\ b.batch = x.batch /\ b.todo = found
      <3> HIDE DEF a
      <3>1. QED  BY <1>2, <2>1 DEF Flush
    <2>3. c \in Flush /\ c.reading = FALSE /\ c.batch = x.batch /\ c.todo = found /\ c.read = counts
      <3> HIDE DEF b
      <3>1. QED  BY <1>3, <2>2 DEF Flush
    <2>4. c = g
      BY <1>1
    <2> HIDE DEF c, g
    <2>5. QED  BY <1>1, <2>3, <2>4
  <1>5. \A i \in found : counts[i] = points[i].count
    BY <1>2
  <1>6. /\ flush[f].reading /\ Still /\ UNCHANGED <<req, pending, crashes, hist>>
        /\ flush' = [flush EXCEPT ![f] = g] \/ flush' = [flush EXCEPT ![f] = NoFlush]
    <2>1. /\ flush[f].reading
          /\ \/ flush' = [flush EXCEPT ![f] = [@ EXCEPT !.reading = FALSE, !.todo = found, !.read = counts]]
             \/ flush' = [flush EXCEPT ![f] = NoFlush]
          /\ UNCHANGED <<stored, points, req, used, pending, crashes, hist>>
      BY Zenon DEF FlushRead, found
    <2>2. [flush EXCEPT ![f] = [@ EXCEPT !.reading = FALSE, !.todo = found, !.read = counts]]
             = [flush EXCEPT ![f] = g]
      OBVIOUS
    <2>3. QED  BY <2>1, <2>2 DEF Still
  <1> HIDE DEF g, counts
  <1>7. QED  BY <1>2, <1>4, <1>5, <1>6, NoFlushTyped DEF FlushMoved

LEMMA WriteMoves ==
    ASSUME Base, NEW f \in Flushes, FlushWrite(f)
    PROVE  \E i, g, n :
              /\ i \in flush[f].todo /\ i \in Ids
              /\ n \in Nat /\ n = flush[f].read[i] + flush[f].batch[i]
              /\ SetPayload(i, AsCounted(points[i], n)) \/ Still
              /\ UNCHANGED <<req, pending, crashes, hist>>
              /\ FlushMoved(f, g)
              /\ g.todo = flush[f].todo \ {i}
              /\ g = NoFlush \/ (/\ g.reading = flush[f].reading /\ g.batch = flush[f].batch
                                 /\ g.read = flush[f].read)
  <1>1. PICK i \in flush[f].todo :
        /\ \/ SetPayload(i, [points[i] EXCEPT !.count = flush[f].read[i] + flush[f].batch[i]])
           \/ UNCHANGED <<stored, points, used>>
        /\ flush' = [flush EXCEPT ![f] = Written(flush[f], i)]
        /\ UNCHANGED <<req, pending, crashes, hist>>
    BY DEF FlushWrite
  <1>2. PICK x \in Flush : x = flush[f]
    BY DEF Base, TypeOK
  <1>3. i \in Ids /\ x.read[i] + x.batch[i] \in Nat
    BY <1>1, <1>2 DEF Flush
  <1>4. SetPayload(i, AsCounted(points[i], x.read[i] + x.batch[i])) \/ Still
    BY <1>1, <1>2 DEF AsCounted, Still
  <1> DEFINE g == IF x.todo = {i} THEN NoFlush ELSE [x EXCEPT !.todo = @ \ {i}]
  <1>5. /\ g \in Flush /\ g.todo = x.todo \ {i}
        /\ g = NoFlush \/ (g.reading = x.reading /\ g.batch = x.batch /\ g.read = x.read)
    <2>1. CASE x.todo = {i}
      BY <2>1, NoFlushTyped
    <2>2. CASE x.todo # {i}
      <3> DEFINE a == [x EXCEPT !.todo = @ \ {i}]
      <3>1. a \in Flush /\ a.todo = x.todo \ {i} /\ a.reading = x.reading /\ a.batch = x.batch
            /\ a.read = x.read
        BY DEF Flush
      <3>2. g = a
        BY <2>2
      <3> HIDE DEF a, g
      <3>3. QED  BY <3>1, <3>2
    <2>3. QED  BY <2>1, <2>2
  <1>6. flush' = [flush EXCEPT ![f] = g]
    BY <1>1, <1>2 DEF Written
  <1> HIDE DEF g
  <1>7. QED  BY <1>1, <1>2, <1>3, <1>4, <1>5, <1>6 DEF FlushMoved

LEMMA CrashMoves ==
    ASSUME Base, Crash
    PROVE  /\ Still /\ UNCHANGED hist
           /\ pending' = NoHits /\ flush' = [f \in Flushes |-> NoFlush]
           /\ crashes' \in 0..MaxCrashes
           /\ req' \in [Reqs -> Request]
           /\ \A r \in Reqs : /\ req'[r].op = req[r].op /\ req'[r].ns = req[r].ns
                              /\ req'[r].content = req[r].content /\ req'[r].id = req[r].id
                              /\ req'[r].supersedes = req[r].supersedes
                              /\ \/ req'[r].pc = req[r].pc /\ req[r].pc \in Over
                                 \/ req'[r].pc = "failed" /\ req[r].pc \notin Over
  <1>1. /\ Still /\ UNCHANGED hist
        /\ pending' = NoHits /\ flush' = [f \in Flushes |-> NoFlush]
        /\ crashes' \in 0..MaxCrashes
        /\ req' = [r \in Reqs |-> IF req[r].pc \in Over THEN req[r] ELSE WithPc(req[r], "failed")]
    BY BoundAssumption DEF Crash, Still, Base, TypeOK, WithPc
  <1>2. ASSUME NEW r \in Reqs
        PROVE  /\ req'[r] \in Request
               /\ req'[r].op = req[r].op /\ req'[r].ns = req[r].ns
               /\ req'[r].content = req[r].content /\ req'[r].id = req[r].id
               /\ req'[r].supersedes = req[r].supersedes
               /\ \/ req'[r].pc = req[r].pc /\ req[r].pc \in Over
                  \/ req'[r].pc = "failed" /\ req[r].pc \notin Over
    <2>1. req[r] \in Request /\ "failed" \in Phases
      BY DEF Base, TypeOK, Phases
    <2>2. req'[r] = IF req[r].pc \in Over THEN req[r] ELSE WithPc(req[r], "failed")
      BY <1>1
    <2>3. QED  BY <2>1, <2>2, WithPcTyped
  <1>3. req' \in [Reqs -> Request]
    BY <1>1, <1>2
  <1>4. QED  BY <1>1, <1>2, <1>3

-----------------------------------------------------------------------------
(* Every step keeps the base.                                              *)
LEMMA MovedBase ==
    ASSUME Base, CollKept, NEW r \in Reqs, NEW q, Moved(r, q), PhaseFits(q)',
           hist' \in History, pending' \in [Ids -> Nat], UNCHANGED <<flush, crashes>>
    PROVE  Base'
  BY BaseFrom DEF Moved

LEMMA RequestBase ==
    ASSUME Base, NEW r \in Reqs, Begin(r) \/ CallFails(r) \/ Step(r)
    PROVE  Base'
  <1> USE DEF PhaseFits, Collected
  <1>1. PhaseFits(req[r]) /\ hist \in History /\ pending \in [Ids -> Nat] /\ used \subseteq Ids
    BY DEF Base, TypeOK
  <1>2. CASE Begin(r)
    BY <1>2, BeginBase
  <1>3. CASE AssertIdFree(r) \/ CallFails(r) \/ Search(r)
    <2>1. PICK q : /\ Moved(r, q) /\ Alias(r, q) /\ q.id = req[r].id
                   /\ q.supersedes = req[r].supersedes
                   /\ \/ q.pc \in {"failed", "done"}
                      \/ q.pc = "upsert" /\ req[r].pc = "embed" /\ req[r].op = "storeId"
      BY <1>3, PlainMoves
    <2>2. Still /\ UNCHANGED <<flush, crashes>> /\ \E S \in SUBSET Ids : Record(S)
      BY <1>3, PlainMoves
    <2>3. PhaseFits(q)'
      BY <1>1, <2>1, <2>2 DEF Still, Alias
    <2>4. CollKept /\ hist' \in History /\ pending' \in [Ids -> Nat]
      BY <2>2, StillKept, RecordTyped DEF Still
    <2> HIDE DEF PhaseFits
    <2>5. QED  BY <2>1, <2>2, <2>3, <2>4, MovedBase
  <1>4. CASE SearchTopOne(r)
    <2>1. PICK q : /\ Moved(r, q) /\ Alias(r, q) /\ q.supersedes = req[r].supersedes
                   /\ \/ /\ q.pc = "rewrite" /\ q.id \in stored
                         /\ q.seen \in {Reinforced(points[q.id]), Merged(points[q.id], r)}
                      \/ /\ q.pc = "upsert" /\ q.id = req[r].id
      BY <1>4, SearchMoves
    <2>2. Still /\ UNCHANGED <<pending, flush, crashes, hist>> /\ req[r].op = "store"
      BY <1>4, SearchMoves
    <2>3. ASSUME q.pc = "rewrite"  PROVE q.id \in used /\ q.seen.superseded \in used \cup {NoId}
      <3>1. PICK v \in Point : v = points[q.id]
        BY <2>1, <2>3 DEF Base, TypeOK
      <3>2. q.seen.superseded = v.superseded
        BY <2>1, <2>3, <3>1 DEF Reinforced, Merged, Point
      <3>3. QED  BY <2>1, <2>3, <3>1, <3>2 DEF Base, TypeOK, Marks
    <2>4. PhaseFits(q)'
      BY <1>1, <2>1, <2>2, <2>3 DEF Still, Alias
    <2>5. CollKept
      BY <2>2, StillKept DEF Still
    <2> HIDE DEF PhaseFits
    <2>6. QED  BY <1>1, <2>1, <2>2, <2>4, <2>5, MovedBase
  <1>5. CASE Upsert(r)
    <2>1. PICK q, i : /\ Moved(r, q) /\ Alias(r, q) /\ q.id = i /\ q.supersedes = req[r].supersedes
                      /\ q.pc \in {"inserted", "mark"}
                      /\ i \in Ids
                      /\ UpsertPoint(i, NewPoint(req[r].ns, req[r].content, r))
                      /\ hist' = Inserted(hist, r, i)
      BY <1>5, UpsertMoves
    <2>2. UNCHANGED <<pending, flush, crashes>>
      BY <1>5, UpsertMoves
    <2>3. req[r] \in Request
      BY DEF Base, TypeOK
    <2>4. NewPoint(req[r].ns, req[r].content, r) \in Point
          /\ NewPoint(req[r].ns, req[r].content, r).superseded = NoId
      BY <2>3 DEF NewPoint, Point, Request
    <2>5. CollKept
      BY <2>1, <2>4, UpsertKept
    <2>6. PhaseFits(q)'
      BY <1>1, <2>1 DEF Alias, UpsertPoint
    <2>7. hist' \in History
      BY <2>1, InsertTyped
    <2> HIDE DEF PhaseFits
    <2>8. QED  BY <1>1, <2>1, <2>2, <2>5, <2>6, <2>7, MovedBase
  <1>6. CASE MarkRetrieve(r)
    <2>1. PICK q : /\ Moved(r, q) /\ Alias(r, q) /\ q.id = req[r].id
                   /\ q.pc \in {"inserted", "marking"}
                   /\ q.supersedes = {i \in req[r].supersedes \ {req[r].id} : i \in InNamespace(req[r].ns)}
      BY <1>6, MarkRetrieveMoves
    <2>2. req[r].pc = "mark" /\ Still /\ UNCHANGED <<pending, flush, crashes, hist>>
      BY <1>6, MarkRetrieveMoves
    <2>3. PhaseFits(q)'
      BY <1>1, <2>1, <2>2 DEF Still, Alias, InNamespace, Base, TypeOK
    <2>4. CollKept
      BY <2>2, StillKept DEF Still
    <2> HIDE DEF PhaseFits
    <2>5. QED  BY <1>1, <2>1, <2>2, <2>3, <2>4, MovedBase
  <1>7. CASE MarkOne(r)
    <2>1. PICK q, i : /\ Moved(r, q) /\ Alias(r, q) /\ q.id = req[r].id
                      /\ q.pc \in {"inserted", "marking"}
                      /\ q.supersedes = req[r].supersedes \ {i}
                      /\ i \in req[r].supersedes
                      /\ \/ /\ SetPayload(i, [points[i] EXCEPT !.superseded = req[r].id])
                            /\ hist' = Marked(hist, r, i)
                         \/ Still /\ hist' = hist
      BY <1>7, MarkOneMoves
    <2>2. req[r].pc = "marking" /\ UNCHANGED <<pending, flush, crashes>>
      BY <1>7, MarkOneMoves
    <2>3. i \in Ids /\ req[r].id \in used
      BY <1>1, <2>1, <2>2
    <2>4. hist' \in History
      BY <1>1, <2>1, <2>3, MarkTyped
    <2>5. CollKept
      <3>1. PICK v \in Point : v = points[i]
        BY <2>3 DEF Base, TypeOK
      <3>2. [v EXCEPT !.superseded = req[r].id] = AsSuperseded(v, req[r].id)
        BY DEF AsSuperseded
      <3>3. AsSuperseded(v, req[r].id) \in Point /\ AsSuperseded(v, req[r].id).superseded = req[r].id
        BY <1>1, <2>3, AsSupersededTyped
      <3>4. CASE SetPayload(i, AsSuperseded(v, req[r].id))
        BY <2>3, <3>3, <3>4, PayloadKept
      <3>5. QED  BY <2>1, <3>1, <3>2, <3>4, StillKept DEF Still
    <2>6. PhaseFits(q)'
      BY <1>1, <2>1, <2>2, <2>5 DEF CollKept, Alias
    <2> HIDE DEF PhaseFits
    <2>7. QED  BY <1>1, <2>1, <2>2, <2>4, <2>5, <2>6, MovedBase
  <1>8. CASE Fetch(r)
    <2>1. PICK q : /\ Moved(r, q) /\ Alias(r, q) /\ q.id = req[r].id
                   /\ q.supersedes = req[r].supersedes
                   /\ \/ q.pc \in {"notFound", "done"}
                      \/ /\ q.id \in stored
                         /\ \/ q.pc \in {"tombstone", "untombstone", "remove"}
                            \/ /\ q.pc = "rewrite" /\ req[r].op = "update"
                               /\ q.seen = [points[q.id] EXCEPT !.edit = r]
      BY <1>8, FetchMoves
    <2>2. req[r].pc = "fetch" /\ Still /\ UNCHANGED <<flush, crashes>> /\ \E S \in SUBSET Ids : Record(S)
      BY <1>8, FetchMoves
    <2>3. ASSUME q.pc = "rewrite"  PROVE q.seen.superseded \in used \cup {NoId}
      <3>1. PICK v \in Point : v = points[q.id]
        BY <2>1, <2>3 DEF Base, TypeOK
      <3>2. q.seen.superseded = v.superseded
        BY <2>1, <2>3, <3>1 DEF Point
      <3>3. QED  BY <2>1, <2>3, <3>1, <3>2 DEF Base, TypeOK, Marks
    <2>4. PhaseFits(q)'
      BY <1>1, <2>1, <2>2, <2>3 DEF Still, Alias
    <2>5. CollKept /\ hist' \in History /\ pending' \in [Ids -> Nat]
      BY <2>2, StillKept, RecordTyped DEF Still
    <2> HIDE DEF PhaseFits
    <2>6. QED  BY <2>1, <2>2, <2>4, <2>5, MovedBase
  <1>9. CASE Rewrite(r)
    <2>1. /\ req[r].pc = "rewrite" /\ UNCHANGED <<pending, flush, crashes>>
          /\ req[r].id \in Ids /\ req[r].seen \in Point
          /\ SetPayload(req[r].id, req[r].seen)
          /\ hist' \in History
      BY <1>9, RewriteMoves, RewriteTyped
    <2>2. PICK q : /\ Moved(r, q) /\ Alias(r, q) /\ q.id = req[r].id
                   /\ q.supersedes = req[r].supersedes /\ q.pc \in {"matched", "done"}
      BY <1>9, RewriteMoves
    <2>3. CollKept
      BY <1>1, <2>1, PayloadKept
    <2>4. PhaseFits(q)'
      BY <1>1, <2>2, <2>3 DEF CollKept, Alias
    <2> HIDE DEF PhaseFits
    <2>5. QED  BY <1>1, <2>1, <2>2, <2>3, <2>4, MovedBase
  <1>10. CASE Tombstone(r) \/ Untombstone(r)
    <2>1. /\ UNCHANGED <<pending, flush, crashes>> /\ req[r].id \in Ids
      BY <1>10, TombstoneMoves
    <2>2. PICK v \in BOOLEAN : /\ SetPayload(req[r].id, AsDeleted(points[req[r].id], v))
                               /\ \/ v /\ hist' = [hist EXCEPT !.wasHidden = @ \cup {req[r].id}]
                                  \/ ~v /\ hist' = hist
      BY <1>10, TombstoneMoves
    <2>3. PICK q : /\ Moved(r, q) /\ Alias(r, q) /\ q.id = req[r].id
                   /\ q.supersedes = req[r].supersedes /\ q.pc = "done"
      BY <1>10, TombstoneMoves
    <2>4. AsDeleted(points[req[r].id], v) \in Point
          /\ AsDeleted(points[req[r].id], v).superseded \in used \cup {NoId}
      BY <2>1, AsDeletedTyped DEF Base, TypeOK, Marks
    <2>5. CollKept
      BY <2>1, <2>2, <2>4, PayloadKept
    <2>6. hist' \in History
      BY <1>1, <2>1, <2>2, HideTyped
    <2>7. PhaseFits(q)'
      BY <1>1, <2>3, <2>5 DEF CollKept, Alias
    <2> HIDE DEF PhaseFits
    <2>8. QED  BY <1>1, <2>1, <2>3, <2>5, <2>6, <2>7, MovedBase
  <1>11. CASE Remove(r)
    <2>1. UNCHANGED <<pending, flush, crashes, hist>> /\ req[r].id \in Ids /\ DeletePoint(req[r].id)
      BY <1>11, RemoveMoves
    <2>2. PICK q : /\ Moved(r, q) /\ Alias(r, q) /\ q.id = req[r].id
                   /\ q.supersedes = req[r].supersedes /\ q.pc = "done"
      BY <1>11, RemoveMoves
    <2>3. CollKept
      BY <2>1, DeleteKept
    <2>4. PhaseFits(q)'
      BY <1>1, <2>2, <2>3 DEF CollKept, Alias
    <2> HIDE DEF PhaseFits
    <2>5. QED  BY <1>1, <2>1, <2>2, <2>3, <2>4, MovedBase
  <1>12. QED
    BY <1>2, <1>3, <1>4, <1>5, <1>6, <1>7, <1>8, <1>9, <1>10, <1>11 DEF Step

LEMMA FlushBase ==
    ASSUME Base, NEW f \in Flushes, FlushTake(f) \/ FlushRead(f) \/ FlushWrite(f)
    PROVE  Base'
  <1>1. /\ CollKept
        /\ UNCHANGED <<req, crashes, hist>> /\ pending' \in [Ids -> Nat]
        /\ \E g \in Flush : flush' = [flush EXCEPT ![f] = g]
    <2>1. CASE FlushTake(f)
      BY <2>1, TakeMoves, StillKept, NoFlushTyped DEF Still, FlushMoved
    <2>2. CASE FlushRead(f)
      BY <2>2, ReadMoves, StillKept DEF Still, FlushMoved, Base, TypeOK
    <2>3. CASE FlushWrite(f)
      <3>1. PICK i, g, n :
              /\ i \in Ids /\ n \in Nat
              /\ SetPayload(i, AsCounted(points[i], n)) \/ Still
              /\ UNCHANGED <<req, pending, crashes, hist>>
              /\ FlushMoved(f, g)
        BY <2>3, WriteMoves
      <3>2. AsCounted(points[i], n) \in Point /\ AsCounted(points[i], n).superseded \in used \cup {NoId}
        <4>1. points[i] \in Point /\ points[i].superseded \in used \cup {NoId}
          BY <3>1 DEF Base, TypeOK, Marks
        <4>2. QED  BY <3>1, <4>1, AsCountedTyped
      <3>3. CollKept
        BY <3>1, <3>2, PayloadKept, StillKept DEF Still
      <3>4. QED  BY <3>1, <3>3 DEF FlushMoved, Base, TypeOK
    <2>4. QED  BY <2>1, <2>2, <2>3
  <1>2. \A r \in Reqs : PhaseFits(req[r])'
    BY <1>1, RestFits DEF CollKept, Base, TypeOK, PhaseFits
  <1>3. flush' \in [Flushes -> Flush]
    BY <1>1 DEF Base, TypeOK
  <1>4. QED  BY <1>1, <1>2, <1>3 DEF CollKept, Base, TypeOK

LEMMA BaseNext ==
    ASSUME Base, [Next]_vars
    PROVE  Base'
  <1>1. CASE Crash
    <2>1. CollKept
      BY <1>1, CrashMoves, StillKept DEF Still
    <2>2. ASSUME NEW r \in Reqs  PROVE PhaseFits(req[r])'
      <3>1. /\ req'[r].op = req[r].op
            /\ req'[r].pc \in Over
            /\ req'[r].pc = "idle" => req[r].pc = "idle"
        BY <1>1, CrashMoves DEF Over
      <3>2. req[r].pc = "idle" => req[r].op = "none"
        BY DEF Base, PhaseFits
      <3>3. QED  BY <3>1, <3>2 DEF PhaseFits, Over, Collected
    <2>3. /\ req' \in [Reqs -> Request] /\ hist' = hist /\ crashes' \in 0..MaxCrashes
          /\ pending' = NoHits /\ flush' = [f \in Flushes |-> NoFlush]
      BY <1>1, CrashMoves
    <2>4. hist' \in History /\ pending' \in [Ids -> Nat] /\ flush' \in [Flushes -> Flush]
      BY <2>3, NoFlushTyped DEF Base, TypeOK
    <2>5. TypeOK'
      BY <2>1, <2>3, <2>4 DEF TypeOK, CollKept
    <2>6. QED  BY <2>1, <2>2, <2>5 DEF Base, CollKept
  <1>2. CASE UNCHANGED vars
    BY <1>2 DEF vars, Base, TypeOK, Blanks, Marks, PhaseFits
  <1>3. QED  BY <1>1, <1>2, RequestBase, FlushBase DEF Next

(* Every variable keeps its type, for any number of requests, ids and      *)
(* flushes: in particular a counter never becomes negative, and a point    *)
(* that is not stored is not written (service.ts, reinforcement.ts).       *)
THEOREM TypeCorrect == Spec => []TypeOK
  <1>1. Init => Base
    BY BaseInit
  <1>2. Base /\ [Next]_vars => Base'
    BY BaseNext
  <1>3. Base => TypeOK
    BY DEF Base
  <1>4. QED  BY <1>1, <1>2, <1>3, PTL DEF Spec

-----------------------------------------------------------------------------
(* A step of a request calls the collection in one of these ways, a flush  *)
(* only writes a counter, and nothing else touches a point.                *)
LEMMA RequestCalls ==
    ASSUME Base, NEW r \in Reqs, Begin(r) \/ CallFails(r) \/ Step(r)
    PROVE  /\ \E q : Moved(r, q)
           /\ \/ Still
              \/ Upsert(r)
              \/ MarkOne(r) \/ Rewrite(r) \/ Tombstone(r) \/ Untombstone(r) \/ Remove(r)
  <1>1. CASE Begin(r)
    <2>1. Still
      BY <1>1 DEF Begin, Still
    <2>2. req' \in [Reqs -> Request] /\ \E q : req' = [req EXCEPT ![r] = q]
      BY <1>1, BeginBase DEF Begin, Base, TypeOK
    <2>3. PICK q : req' = [req EXCEPT ![r] = q]
      BY <2>2
    <2>4. req'[r] = q
      BY <2>3 DEF Base, TypeOK
    <2>5. q \in Request
      BY <2>2, <2>4
    <2>6. QED  BY <2>1, <2>3, <2>5 DEF Moved
  <1>2. CASE AssertIdFree(r) \/ CallFails(r) \/ Search(r)
    BY <1>2, PlainMoves
  <1>3. CASE SearchTopOne(r)
    BY <1>3, SearchMoves
  <1>4. CASE Upsert(r)
    BY <1>4, UpsertMoves
  <1>5. CASE MarkRetrieve(r)
    BY <1>5, MarkRetrieveMoves
  <1>6. CASE MarkOne(r)
    BY <1>6, MarkOneMoves
  <1>7. CASE Fetch(r)
    BY <1>7, FetchMoves
  <1>8. CASE Rewrite(r)
    BY <1>8, RewriteMoves
  <1>9. CASE Tombstone(r) \/ Untombstone(r)
    BY <1>9, TombstoneMoves
  <1>10. CASE Remove(r)
    BY <1>10, RemoveMoves
  <1>11. QED
    BY <1>1, <1>2, <1>3, <1>4, <1>5, <1>6, <1>7, <1>8, <1>9, <1>10 DEF Step

LEMMA FlushCalls ==
    ASSUME Base, NEW f \in Flushes, FlushTake(f) \/ FlushRead(f) \/ FlushWrite(f)
    PROVE  /\ UNCHANGED req
           /\ Still \/ \E i \in Ids, n \in Nat : SetPayload(i, AsCounted(points[i], n))
  BY TakeMoves, ReadMoves, WriteMoves

(* An id that becomes a point is the one an upsert wrote.                  *)
LEMMA Grows ==
    ASSUME Base, [Next]_vars, NEW i \in stored' \ stored
    PROVE  \E r \in Reqs : Upsert(r) /\ UpsertPoint(i, NewPoint(req[r].ns, req[r].content, r))
  <1>1. ~ Still /\ ~ \E j, p : SetPayload(j, p)
    BY DEF Still, SetPayload
  <1>2. ~ UNCHANGED vars /\ ~ Crash
    BY <1>1, CrashMoves DEF vars, Still
  <1>3. PICK r \in Reqs : Begin(r) \/ CallFails(r) \/ Step(r)
    BY <1>1, <1>2, FlushCalls DEF Next
  <1>4. ~ MarkOne(r) /\ ~ Rewrite(r) /\ ~ Tombstone(r) /\ ~ Untombstone(r)
    BY <1>1, MarkOneMoves, RewriteMoves, TombstoneMoves
  <1>5. ~ Remove(r)
    BY RemoveMoves DEF DeletePoint
  <1>6. Upsert(r)
    BY <1>1, <1>3, <1>4, <1>5, RequestCalls
  <1>7. PICK j : UpsertPoint(j, NewPoint(req[r].ns, req[r].content, r))
    BY <1>6, UpsertMoves
  <1>8. j = i
    BY <1>7 DEF UpsertPoint
  <1>9. QED  BY <1>6, <1>7, <1>8

(* A purged memory comes back only through a store that supplies its id:   *)
(* no write that was in flight when the purge landed revives it            *)
(* (service.ts, delete; reinforcement.ts, flush).                          *)
THEOREM Purged == Spec => PurgeIsFinal
  <1> DEFINE Back(i) == \E r \in Reqs : At(r, "upsert") /\ req[r].op = "storeId" /\ req[r].id = i
  <1>1. ASSUME Base, [Next]_vars, NEW i \in used \ stored, i \in stored'
        PROVE  Back(i)
    <2>1. PICK r \in Reqs : Upsert(r) /\ UpsertPoint(i, NewPoint(req[r].ns, req[r].content, r))
      BY <1>1, Grows
    <2>2. PICK j : /\ UpsertPoint(j, NewPoint(req[r].ns, req[r].content, r))
                   /\ req[r].op = "storeId" => j = req[r].id
                   /\ req[r].op # "storeId" => j \in FreshIds
      BY <1>1, <2>1, UpsertMoves
    <2>3. j = i
      BY <1>1, <2>2 DEF UpsertPoint
    <2>4. req[r].op = "storeId" /\ req[r].id = i
      BY <1>1, <2>2, <2>3 DEF FreshIds, Named
    <2>5. At(r, "upsert")
      BY <2>1 DEF Upsert
    <2>6. QED  BY <2>4, <2>5
  <1>2. Base /\ [Next]_vars => [\A i \in used \ stored : i \in stored' => Back(i)]_vars
    <2> HIDE DEF Back
    <2>1. QED  BY <1>1
  <1>3. Init => Base
    BY BaseInit
  <1>4. Base /\ [Next]_vars => Base'
    BY BaseNext
  <1>5. QED  BY <1>2, <1>3, <1>4, PTL DEF Spec, PurgeIsFinal

-----------------------------------------------------------------------------
(* An id a caller chose stays chosen.                                      *)
LEMMA ChosenGrows ==
    ASSUME Base, [Next]_vars
    PROVE  Chosen \subseteq Chosen'
  <1>1. SUFFICES ASSUME NEW x \in Reqs, req[x].op = "storeId"
                 PROVE  req'[x].op = "storeId" /\ req'[x].id = req[x].id
    BY DEF Chosen
  <1>2. CASE UNCHANGED req
    BY <1>1, <1>2
  <1>3. CASE Crash
    BY <1>1, <1>3, CrashMoves
  <1>4. ASSUME NEW r \in Reqs, Begin(r) \/ CallFails(r) \/ Step(r)
        PROVE  req'[x].op = "storeId" /\ req'[x].id = req[x].id
    <2>1. PICK y : Moved(r, y)
      BY <1>4, RequestCalls
    <2>2. CASE x # r
      BY <1>1, <2>1, <2>2 DEF Moved, Base, TypeOK
    <2>3. CASE x = r
      <3>1. \A q : Moved(r, q) => req'[r] = q
        BY DEF Moved, Base, TypeOK
      <3>2. ~ Begin(r) /\ ~ SearchTopOne(r)
        BY <1>1, <2>3, SearchMoves DEF Begin, At, Base, PhaseFits
      <3>3. ASSUME \E q : Moved(r, q) /\ Alias(r, q) /\ q.id = req[r].id
            PROVE  req'[x].op = "storeId" /\ req'[x].id = req[x].id
        BY <1>1, <2>3, <3>1, <3>3 DEF Alias
      <3>4. CASE Upsert(r)
        <4>1. \E q : Moved(r, q) /\ Alias(r, q) /\ q.id = req[r].id
          BY <1>1, <2>3, <3>4, UpsertMoves
        <4>2. QED  BY <3>3, <4>1
      <3>5. CASE AssertIdFree(r) \/ CallFails(r) \/ Search(r)
        BY <3>3, <3>5, PlainMoves
      <3>6. CASE MarkRetrieve(r)
        BY <3>3, <3>6, MarkRetrieveMoves
      <3>7. CASE MarkOne(r)
        BY <3>3, <3>7, MarkOneMoves
      <3>8. CASE Fetch(r)
        BY ZenonT(30), <3>3, <3>8, FetchMoves
      <3>9. CASE Rewrite(r)
        BY <3>3, <3>9, RewriteMoves
      <3>10. CASE Tombstone(r) \/ Untombstone(r) \/ Remove(r)
        BY <3>3, <3>10, TombstoneMoves, RemoveMoves
      <3>11. QED
        BY <1>4, <3>2, <3>4, <3>5, <3>6, <3>7, <3>8, <3>9, <3>10 DEF Step
    <2>4. QED  BY <2>2, <2>3
  <1>5. QED  BY <1>2, <1>3, <1>4, FlushCalls DEF Next, vars

(* Of the ids no caller chooses, a request that is about to write holds   *)
(* one of its own namespace, or of a point that is gone for good; and the  *)
(* record it read is still the record of the same memory.                  *)
OwnFits(q) ==
    /\ q.pc \in {"rewrite", "tombstone", "untombstone", "remove"} /\ q.id \in stored \ Chosen
          => points[q.id].ns = q.ns
    /\ q.pc = "rewrite" => /\ q.seen.ns = q.ns
                           /\ q.id \in stored \ Chosen => points[q.id].content = q.seen.content
    /\ q.pc = "marking" => \A i \in (q.supersedes \cap stored) \ Chosen : points[i].ns = q.ns

Owns == \A r \in Reqs : OwnFits(req[r])

(* A memory never used again, or the same memory of the same namespace.    *)
SameMemory(i) == i \in stored' => /\ i \in stored
                                  /\ points'[i].ns = points[i].ns
                                  /\ points'[i].content = points[i].content

Untouched(i) == i \in stored' /\ points'[i] = points[i]

LEMMA PayloadWrites ==
    ASSUME Base, NEW i \in used \ Chosen, NEW j \in Ids, NEW p, SetPayload(j, p),
           j \in stored \ Chosen => p.ns = points[j].ns /\ p.content = points[j].content
    PROVE  /\ SameMemory(i)
           /\ i \in stored /\ ~ Untouched(i) => i = j
  BY DEF SetPayload, SameMemory, Untouched, Base, TypeOK

LEMMA RequestWrites ==
    ASSUME Base, Owns, NEW r \in Reqs, Begin(r) \/ CallFails(r) \/ Step(r),
           NEW i \in used \ Chosen
    PROVE  /\ SameMemory(i)
           /\ i \in stored /\ ~ Untouched(i) => points[i].ns = req[r].ns
  <1>1. OwnFits(req[r]) /\ PhaseFits(req[r]) /\ points \in [Ids -> Point]
        /\ stored \subseteq used /\ used \subseteq Ids
    BY DEF Owns, Base, TypeOK
  <1>2. CASE Still
    BY <1>2 DEF Still, SameMemory, Untouched
  <1>3. CASE Upsert(r)
    <2>1. PICK j : /\ UpsertPoint(j, NewPoint(req[r].ns, req[r].content, r))
                   /\ req[r].pc = "upsert"
                   /\ req[r].op = "storeId" => j = req[r].id
                   /\ req[r].op # "storeId" => j \in FreshIds
      BY <1>3, UpsertMoves
    <2>2. req[r].op = "storeId" => req[r].id \in Chosen
      BY DEF Chosen
    <2>3. j # i
      BY <2>1, <2>2 DEF FreshIds, Named
    <2>4. QED  BY <1>1, <2>1, <2>3 DEF UpsertPoint, SameMemory, Untouched
  <1>4. CASE MarkOne(r)
    <2>1. PICK j : /\ j \in req[r].supersedes
                   /\ \/ SetPayload(j, [points[j] EXCEPT !.superseded = req[r].id])
                      \/ Still
      BY <1>4, MarkOneMoves
    <2>2. req[r].pc = "marking" /\ j \in Ids
      BY <1>1, <1>4, <2>1, MarkOneMoves DEF PhaseFits
    <2>3. req[r].id \in Ids
      BY <1>1, <2>2 DEF PhaseFits, Collected
    <2>4. /\ AsSuperseded(points[j], req[r].id).ns = points[j].ns
          /\ AsSuperseded(points[j], req[r].id).content = points[j].content
      BY <1>1, <2>2, <2>3, AsSupersededTyped
    <2>5. CASE SetPayload(j, AsSuperseded(points[j], req[r].id))
      <3>1. /\ SameMemory(i)
            /\ i \in stored /\ ~ Untouched(i) => i = j
        BY <2>2, <2>4, <2>5, PayloadWrites
      <3>2. QED  BY <1>1, <2>1, <2>2, <3>1 DEF OwnFits
    <2>6. QED  BY <1>2, <2>1, <2>5 DEF AsSuperseded
  <1>5. CASE Rewrite(r)
    <2>1. /\ req[r].pc = "rewrite" /\ req[r].id \in Ids
          /\ SetPayload(req[r].id, req[r].seen)
      BY <1>5, RewriteMoves
    <2>2. req[r].id \in stored \ Chosen =>
             /\ req[r].seen.ns = points[req[r].id].ns
             /\ req[r].seen.content = points[req[r].id].content
      BY <1>1, <2>1 DEF OwnFits
    <2>3. /\ SameMemory(i)
          /\ i \in stored /\ ~ Untouched(i) => i = req[r].id
      BY <2>1, <2>2, PayloadWrites
    <2>4. QED  BY <1>1, <2>1, <2>3 DEF OwnFits
  <1>6. CASE Tombstone(r) \/ Untombstone(r)
    <2>1. PICK v \in BOOLEAN : /\ SetPayload(req[r].id, AsDeleted(points[req[r].id], v))
                               /\ req[r].pc \in {"tombstone", "untombstone"} /\ req[r].id \in Ids
      BY <1>6, TombstoneMoves
    <2>2. /\ AsDeleted(points[req[r].id], v).ns = points[req[r].id].ns
          /\ AsDeleted(points[req[r].id], v).content = points[req[r].id].content
      BY <1>1, <2>1, AsDeletedTyped
    <2>3. /\ SameMemory(i)
          /\ i \in stored /\ ~ Untouched(i) => i = req[r].id
      BY <2>1, <2>2, PayloadWrites
    <2>4. QED  BY <1>1, <2>1, <2>3 DEF OwnFits
  <1>7. CASE Remove(r)
    BY <1>1, <1>7, RemoveMoves DEF OwnFits, DeletePoint, SameMemory, Untouched
  <1>8. QED
    BY <1>2, <1>3, <1>4, <1>5, <1>6, <1>7, RequestCalls

LEMMA Identities ==
    ASSUME Base, Owns, [Next]_vars, NEW i \in used \ Chosen
    PROVE  SameMemory(i)
  <1>1. CASE Still
    BY <1>1 DEF Still, SameMemory
  <1>2. CASE \E f \in Flushes : FlushTake(f) \/ FlushRead(f) \/ FlushWrite(f)
    <2>1. CASE \E j \in Ids, n \in Nat : SetPayload(j, AsCounted(points[j], n))
      <3>1. PICK j \in Ids, n \in Nat : SetPayload(j, AsCounted(points[j], n))
        BY <2>1
      <3>2. points[j] \in Point
        BY DEF Base, TypeOK
      <3>3. /\ AsCounted(points[j], n).ns = points[j].ns
            /\ AsCounted(points[j], n).content = points[j].content
        BY <3>2, AsCountedTyped
      <3>4. QED  BY <3>1, <3>3, PayloadWrites
    <2>2. QED  BY <1>1, <1>2, <2>1, FlushCalls
  <1>3. CASE UNCHANGED vars \/ Crash
    BY <1>1, <1>3, CrashMoves DEF vars, Still
  <1>4. QED  BY <1>2, <1>3, RequestWrites DEF Next

(* What a request holds goes on to be its own.                             *)
LEMMA HoldsOn ==
    ASSUME Base, Chosen \subseteq Chosen', \A i \in used \ Chosen : SameMemory(i), NEW q \in Request, PhaseFits(q), OwnFits(q)
    PROVE  OwnFits(q)'
  BY DEF OwnFits, PhaseFits, Collected, SameMemory, Base, TypeOK

LEMMA OwnsInit ==
    ASSUME Init
    PROVE  Owns
  BY DEF Init, NoRequest, Asks, Owns, OwnFits

LEMMA OwnsNext ==
    ASSUME Base, Owns, [Next]_vars
    PROVE  Owns'
  <1>1. Chosen \subseteq Chosen' /\ \A i \in used \ Chosen : SameMemory(i)
    BY Identities, ChosenGrows
  <1>2. \A r \in Reqs : req[r] \in Request /\ PhaseFits(req[r]) /\ OwnFits(req[r])
    BY DEF Base, TypeOK, Owns
  <1>3. ASSUME NEW r \in Reqs, req'[r] = req[r]  PROVE OwnFits(req[r])'
    <2>1. PICK q \in Request : q = req[r]
      BY <1>2
    <2>2. OwnFits(q)'
      BY <1>1, <1>2, <2>1, HoldsOn
    <2>3. QED  BY <1>3, <2>1, <2>2 DEF OwnFits
  <1>4. ASSUME NEW r \in Reqs, NEW q, Moved(r, q), OwnFits(q)'
        PROVE  Owns'
    <2>1. req'[r] = q /\ \A x \in Reqs \ {r} : req'[x] = req[x]
      BY <1>4 DEF Moved, Base, TypeOK
    <2>2. OwnFits(req[r])'
      BY <1>4, <2>1 DEF OwnFits
    <2>3. QED  BY <1>3, <2>1, <2>2 DEF Owns
  <1>5. ASSUME NEW q, q.pc \notin {"rewrite", "tombstone", "untombstone", "remove", "marking"}
        PROVE  OwnFits(q)'
    BY <1>5 DEF OwnFits
  <1>6. CASE UNCHANGED req
    BY <1>3, <1>6 DEF Owns
  <1>7. CASE Crash
    <2>1. \A r \in Reqs : req'[r].pc \in Over
      BY <1>7, CrashMoves DEF Over
    <2>2. QED  BY <2>1 DEF Owns, OwnFits, Over
  <1>8. ASSUME NEW r \in Reqs, Begin(r) \/ CallFails(r) \/ Step(r)  PROVE Owns'
    <2>1. CASE Begin(r)
      <3>1. PICK q : Moved(r, q)
        BY <2>1, RequestCalls
      <3>2. q.pc \in {"embed", "fetch"}
        <4>1. \E p, o, n, c, s, i :
                 p \in {"embed", "fetch"} /\ req' = [req EXCEPT ![r] = Asks(p, o, n, c, s, i)]
          BY <2>1 DEF Begin
        <4>2. PICK p, o, n, c, s, i :
                 p \in {"embed", "fetch"} /\ req' = [req EXCEPT ![r] = Asks(p, o, n, c, s, i)]
          BY <4>1
        <4>3. q = Asks(p, o, n, c, s, i)
          BY <3>1, <4>2 DEF Moved, Base, TypeOK
        <4>4. QED  BY <4>2, <4>3 DEF Asks
      <3>3. QED  BY <1>4, <1>5, <3>1, <3>2
    <2>2. CASE AssertIdFree(r) \/ CallFails(r) \/ Search(r)
      <3>1. PICK q : Moved(r, q) /\ q.pc \in {"failed", "done", "upsert"}
        BY <2>2, PlainMoves
      <3>2. QED  BY <1>4, <1>5, <3>1
    <2>3. CASE SearchTopOne(r)
      <3>1. PICK q : /\ Moved(r, q) /\ Alias(r, q)
                     /\ \/ /\ q.pc = "rewrite" /\ q.id \in stored
                           /\ points[q.id].ns = req[r].ns
                           /\ q.seen \in {Reinforced(points[q.id]), Merged(points[q.id], r)}
                        \/ q.pc = "upsert"
        BY <2>3, SearchMoves
      <3>2. Still
        BY <2>3, SearchMoves
      <3>3. CASE q.pc = "rewrite"
        <4>1. PICK v \in Point : v = points[q.id]
          BY <3>1, <3>3 DEF Base, TypeOK
        <4>2. q.seen.ns = v.ns /\ q.seen.content = v.content
          BY <3>1, <3>3, <4>1 DEF Reinforced, Merged, Point
        <4>3. OwnFits(q)'
          BY <3>1, <3>2, <3>3, <4>1, <4>2 DEF OwnFits, Still, Alias
        <4>4. QED  BY <1>4, <3>1, <4>3
      <3>4. QED  BY <1>4, <1>5, <3>1, <3>3
    <2>4. CASE Upsert(r)
      <3>1. PICK q : Moved(r, q) /\ q.pc \in {"inserted", "mark"}
        BY <2>4, UpsertMoves
      <3>2. QED  BY <1>4, <1>5, <3>1
    <2>5. CASE MarkRetrieve(r)
      <3>1. PICK q : /\ Moved(r, q) /\ Alias(r, q)
                     /\ q.pc \in {"inserted", "marking"}
                     /\ q.supersedes = {i \in req[r].supersedes \ {req[r].id} :
                                           i \in InNamespace(req[r].ns)}
        BY <2>5, MarkRetrieveMoves
      <3>2. Still
        BY <2>5, MarkRetrieveMoves
      <3>3. OwnFits(q)'
        BY <3>1, <3>2 DEF OwnFits, Still, Alias, InNamespace
      <3>4. QED  BY <1>4, <3>1, <3>3
    <2>6. CASE MarkOne(r)
      <3>1. PICK q, i : /\ Moved(r, q) /\ Alias(r, q) /\ q.pc \in {"inserted", "marking"}
                        /\ q.supersedes = req[r].supersedes \ {i}
        BY <2>6, MarkOneMoves
      <3>2. req[r].pc = "marking"
        BY <2>6, MarkOneMoves
      <3>3. OwnFits(q)'
        BY <1>1, <1>2, <3>1, <3>2 DEF OwnFits, PhaseFits, SameMemory, Alias
      <3>4. QED  BY <1>4, <3>1, <3>3
    <2>7. CASE Fetch(r)
      <3>1. PICK q : /\ Moved(r, q) /\ Alias(r, q)
                     /\ \/ q.pc \in {"notFound", "done"}
                        \/ /\ q.id \in stored /\ points[q.id].ns = req[r].ns
                           /\ \/ q.pc \in {"tombstone", "untombstone", "remove"}
                              \/ /\ q.pc = "rewrite" /\ req[r].op = "update"
                                 /\ q.seen = [points[q.id] EXCEPT !.edit = r]
        BY <2>7, FetchMoves
      <3>2. Still
        BY <2>7, FetchMoves
      <3>3. CASE q.pc = "rewrite"
        <4>1. PICK v \in Point : v = points[q.id]
          BY <3>1, <3>3 DEF Base, TypeOK
        <4>2. q.seen.ns = v.ns /\ q.seen.content = v.content
          BY <3>1, <3>3, <4>1 DEF Point
        <4>3. OwnFits(q)'
          BY <3>1, <3>2, <3>3, <4>1, <4>2 DEF OwnFits, Still, Alias
        <4>4. QED  BY <1>4, <3>1, <4>3
      <3>4. CASE q.pc # "rewrite"
        <4>1. OwnFits(q)'
          BY <3>1, <3>2, <3>4 DEF OwnFits, Still, Alias
        <4>2. QED  BY <1>4, <3>1, <4>1
      <3>5. QED  BY <3>3, <3>4
    <2>8. CASE Rewrite(r)
      <3>1. PICK q : Moved(r, q) /\ q.pc \in {"matched", "done"}
        BY <2>8, RewriteMoves
      <3>2. QED  BY <1>4, <1>5, <3>1
    <2>9. CASE Tombstone(r) \/ Untombstone(r)
      <3>1. PICK q : Moved(r, q) /\ q.pc = "done"
        BY <2>9, TombstoneMoves
      <3>2. QED  BY <1>4, <1>5, <3>1
    <2>10. CASE Remove(r)
      <3>1. PICK q : Moved(r, q) /\ q.pc = "done"
        BY <2>10, RemoveMoves
      <3>2. QED  BY <1>4, <1>5, <3>1
    <2>11. QED
      BY <1>8, <2>1, <2>2, <2>3, <2>4, <2>5, <2>6, <2>7, <2>8, <2>9, <2>10 DEF Step
  <1>9. QED  BY <1>6, <1>7, <1>8, FlushCalls DEF Next, vars

-----------------------------------------------------------------------------
(* The hits a flush has taken and not yet written or dropped are a stack   *)
(* of its own; the hits of all flushes are the pile of the stacks.         *)
Pile(o) == {x \in Flushes \X Nat : x[2] \in 1..o[x[1]]}

Owed(i) == [f \in Flushes |-> IF flush[f].reading \/ i \in flush[f].todo
                              THEN flush[f].batch[i] ELSE 0]

(* The hits of i that may still reach its counter.                         *)
Due(i) == pending[i] + Cardinality(Pile(Owed(i)))

LEMMA PileShrinks ==
    ASSUME NEW o \in [Flushes -> Nat], NEW p \in [Flushes -> Nat], IsFiniteSet(Pile(p)),
           \A f \in Flushes : o[f] <= p[f]
    PROVE  /\ IsFiniteSet(Pile(o))
           /\ Cardinality(Pile(o)) \in Nat /\ Cardinality(Pile(p)) \in Nat
           /\ Cardinality(Pile(o)) <= Cardinality(Pile(p))
  <1>1. Pile(o) \subseteq Pile(p)
    <2>1. SUFFICES ASSUME NEW x \in Pile(o)  PROVE x \in Pile(p)
      OBVIOUS
    <2>2. x \in Flushes \X Nat /\ x[2] \in 1..o[x[1]] /\ x[1] \in Flushes
      BY <2>1 DEF Pile
    <2>3. x[2] \in 1..p[x[1]]
      BY <2>2
    <2>4. QED  BY <2>2, <2>3 DEF Pile
  <1>2. QED  BY <1>1, FS_Subset, FS_CardinalityType

LEMMA PileGrows ==
    ASSUME NEW o \in [Flushes -> Nat], NEW p \in [Flushes -> Nat], IsFiniteSet(Pile(o)),
           NEW f \in Flushes, o[f] = 0, \A g \in Flushes \ {f} : p[g] = o[g]
    PROVE  /\ IsFiniteSet(Pile(p))
           /\ Cardinality(Pile(o)) \in Nat /\ Cardinality(Pile(p)) \in Nat
           /\ Cardinality(Pile(p)) = Cardinality(Pile(o)) + p[f]
  <1> DEFINE T == {f} \X (1..p[f])
  <1>1. IsFiniteSet(1..p[f]) /\ Cardinality(1..p[f]) = p[f]
    <2>1. 1 \in Int /\ p[f] \in Int /\ p[f] \in Nat
      OBVIOUS
    <2>2. /\ IsFiniteSet(1..p[f])
          /\ Cardinality(1..p[f]) = IF 1 > p[f] THEN 0 ELSE p[f] - 1 + 1
      BY <2>1, FS_Interval
    <2>3. QED  BY <2>1, <2>2
  <1>2. IsFiniteSet({f}) /\ Cardinality({f}) = 1
    BY FS_Singleton
  <1>3. IsFiniteSet(T) /\ Cardinality(T) = p[f]
    <2>1. IsFiniteSet(T) /\ Cardinality(T) = Cardinality({f}) * Cardinality(1..p[f])
      BY <1>1, <1>2, FS_Product
    <2>2. Cardinality({f}) * Cardinality(1..p[f]) = 1 * p[f]
      BY <1>1, <1>2
    <2>3. p[f] \in Nat
      OBVIOUS
    <2>4. 1 * p[f] = p[f]
      BY <2>3
    <2>5. QED  BY <2>1, <2>2, <2>4
  <1>4. Pile(p) \subseteq Pile(o) \cup T
    <2>1. SUFFICES ASSUME NEW x \in Pile(p)  PROVE x \in Pile(o) \cup T
      OBVIOUS
    <2>2. x \in Flushes \X Nat /\ x[2] \in 1..p[x[1]] /\ x[1] \in Flushes
      BY <2>1 DEF Pile
    <2>3. CASE x[1] = f
      BY <2>2, <2>3
    <2>4. CASE x[1] # f
      BY <2>2, <2>4 DEF Pile
    <2>5. QED  BY <2>3, <2>4
  <1>5. Pile(o) \cup T \subseteq Pile(p)
    <2>1. ASSUME NEW x \in T  PROVE x \in Pile(p)
      BY <2>1 DEF Pile
    <2>2. ASSUME NEW x \in Pile(o)  PROVE x \in Pile(p)
      <3>1. x \in Flushes \X Nat /\ x[2] \in 1..o[x[1]] /\ x[1] \in Flushes
        BY <2>2 DEF Pile
      <3>2. x[1] # f
        BY <3>1
      <3>3. QED  BY <3>1, <3>2 DEF Pile
    <2>3. QED  BY <2>1, <2>2
  <1>6. Pile(o) \cap T = {}
    <2>1. SUFFICES ASSUME NEW x \in Pile(o), x \in T  PROVE FALSE
      OBVIOUS
    <2>2. x[1] = f /\ x[2] \in 1..o[x[1]]
      BY <2>1 DEF Pile
    <2>3. QED  BY <2>2
  <1>7. Pile(p) = Pile(o) \cup T
    BY <1>4, <1>5
  <1> HIDE DEF T
  <1>8. Cardinality(Pile(o)) \in Nat /\ Cardinality(T) \in Nat
    BY <1>3, FS_CardinalityType
  <1>9. IsFiniteSet(Pile(o) \cup T)
        /\ Cardinality(Pile(o) \cup T) = Cardinality(Pile(o)) + Cardinality(T) - Cardinality(Pile(o) \cap T)
    BY <1>3, FS_Union
  <1>10. Cardinality(Pile(o) \cap T) = 0
    BY <1>6, FS_EmptySet
  <1>11. QED  BY <1>3, <1>7, <1>8, <1>9, <1>10

(* No counter, and nothing that is going to be written to one, exceeds the *)
(* hits ever counted less those that are still to be written.              *)
CountFits(q) == q.pc = "rewrite" =>
    q.seen.count + Due(q.id) <= hist.hits[q.id] + (IF q.op = "store" THEN 1 ELSE 0)
ReadFits(g)  == /\ g.todo # {} => ~ g.reading
                /\ \A i \in g.todo : g.read[i] + Due(i) <= hist.hits[i]
PointFits(i) == points[i].count + Due(i) <= hist.hits[i]

Counts ==
    /\ \A i \in Ids : IsFiniteSet(Pile(Owed(i))) /\ PointFits(i)
    /\ \A f \in Flushes : ReadFits(flush[f])
    /\ \A r \in Reqs : CountFits(req[r])

LEMMA OwedTyped ==
    ASSUME Base, NEW i \in Ids
    PROVE  Owed(i) \in [Flushes -> Nat]
  <1>1. \A f \in Flushes : flush[f].batch[i] \in Nat
    BY DEF Base, TypeOK, Flush
  <1>2. QED  BY <1>1 DEF Owed

LEMMA OwedStays ==
    ASSUME Base', NEW i \in Ids
    PROVE  Owed(i)' \in [Flushes -> Nat]
  <1>1. \A f \in Flushes : flush'[f].batch[i] \in Nat
    BY DEF Base, TypeOK, Flush
  <1>2. QED  BY <1>1 DEF Owed

LEMMA DueTyped ==
    ASSUME Base, Counts, NEW i \in Ids
    PROVE  Due(i) \in Nat /\ hist.hits[i] \in Nat /\ points[i].count \in Nat
  <1>1. Cardinality(Pile(Owed(i))) \in Nat
    BY FS_CardinalityType DEF Counts
  <1>2. QED  BY <1>1 DEF Due, Base, TypeOK, History, Point

LEMMA CountsInit ==
    ASSUME Init
    PROVE  Counts
  <1>1. ASSUME NEW i \in Ids  PROVE IsFiniteSet(Pile(Owed(i))) /\ PointFits(i)
    <2>1. \A f \in Flushes : Owed(i)[f] = 0
      BY NoFlushTyped DEF Init, Owed
    <2>2. Pile(Owed(i)) = {}
      <3>1. SUFFICES ASSUME NEW x \in Pile(Owed(i))  PROVE FALSE
        OBVIOUS
      <3>2. x[1] \in Flushes /\ x[2] \in 1..Owed(i)[x[1]]
        BY <3>1 DEF Pile
      <3>3. QED  BY <2>1, <3>2
    <2>3. Due(i) = 0
      BY <2>2, FS_EmptySet DEF Due, Init, NoHits
    <2>4. points[i].count = 0 /\ hist.hits[i] = 0
      BY DEF Init, Blank, NewPoint, NoHits
    <2>5. QED  BY <2>2, <2>3, <2>4, FS_EmptySet DEF PointFits
  <1>2. \A f \in Flushes : ReadFits(flush[f])
    BY NoFlushTyped DEF Init, ReadFits
  <1>3. \A r \in Reqs : CountFits(req[r])
    BY DEF Init, NoRequest, Asks, CountFits
  <1>4. QED  BY <1>1, <1>2, <1>3 DEF Counts

(* A step never makes more of a memory's hits due than it counts.          *)
Tally ==
    \A i \in Ids : /\ IsFiniteSet(Pile(Owed(i)))'
                   /\ Due(i)' \in Nat /\ hist'.hits[i] \in Nat
                   /\ Due(i)' + hist.hits[i] <= Due(i) + hist'.hits[i]

LEMMA RequestTally ==
    ASSUME Base, Base', Counts, UNCHANGED flush,
           \A i \in Ids : pending'[i] + hist.hits[i] <= pending[i] + hist'.hits[i]
    PROVE  Tally
  <1>1. SUFFICES ASSUME NEW i \in Ids
                 PROVE  /\ IsFiniteSet(Pile(Owed(i)))'
                        /\ Due(i)' \in Nat /\ hist'.hits[i] \in Nat
                        /\ Due(i)' + hist.hits[i] <= Due(i) + hist'.hits[i]
    BY DEF Tally
  <1>2. Owed(i)' = Owed(i)
    BY DEF Owed
  <1>3. Pile(Owed(i))' = Pile(Owed(i))
    BY <1>2 DEF Pile
  <1>4. Cardinality(Pile(Owed(i))) \in Nat
    BY FS_CardinalityType DEF Counts
  <1>5. pending[i] \in Nat /\ pending'[i] \in Nat /\ hist.hits[i] \in Nat /\ hist'.hits[i] \in Nat
    BY DEF Base, TypeOK, History
  <1>6. IsFiniteSet(Pile(Owed(i)))'
    BY <1>3 DEF Counts
  <1>7. Due(i)' = pending'[i] + Cardinality(Pile(Owed(i)))
    BY <1>3 DEF Due
  <1>8. Due(i) = pending[i] + Cardinality(Pile(Owed(i)))
    BY DEF Due
  <1> HIDE DEF Due
  <1>9. pending'[i] + hist.hits[i] <= pending[i] + hist'.hits[i]
    OBVIOUS
  <1>10. QED  BY <1>4, <1>5, <1>6, <1>7, <1>8, <1>9

(* What a request holds and a flush has read go on to fit.                 *)
LEMMA CountHolds ==
    ASSUME Base, Counts, Tally, NEW q \in Request, PhaseFits(q), CountFits(q)
    PROVE  CountFits(q)'
  <1>1. SUFFICES ASSUME q.pc = "rewrite"
                 PROVE  q.seen.count + Due(q.id)' <=
                            hist'.hits[q.id] + (IF q.op = "store" THEN 1 ELSE 0)
    BY DEF CountFits
  <1>2. q.id \in Ids /\ q.seen.count \in Nat
    BY <1>1 DEF PhaseFits, Collected, Base, TypeOK, Request, Point
  <1>3. /\ Due(q.id) \in Nat /\ hist.hits[q.id] \in Nat
        /\ Due(q.id)' \in Nat /\ hist'.hits[q.id] \in Nat
        /\ Due(q.id)' + hist.hits[q.id] <= Due(q.id) + hist'.hits[q.id]
    BY <1>2, DueTyped DEF Tally
  <1>4. q.seen.count + Due(q.id) <= hist.hits[q.id] + (IF q.op = "store" THEN 1 ELSE 0)
    BY <1>1 DEF CountFits
  <1> HIDE DEF Due
  <1>5. QED  BY <1>2, <1>3, <1>4

LEMMA ReadHolds ==
    ASSUME Base, Counts, Tally, NEW g \in Flush, ReadFits(g)
    PROVE  ReadFits(g)'
  <1>1. ASSUME NEW i \in g.todo
        PROVE  g.read[i] + Due(i)' <= hist'.hits[i]
    <2>1. i \in Ids /\ g.read[i] \in Nat
      BY DEF Flush
    <2>2. /\ Due(i) \in Nat /\ hist.hits[i] \in Nat
          /\ Due(i)' \in Nat /\ hist'.hits[i] \in Nat
          /\ Due(i)' + hist.hits[i] <= Due(i) + hist'.hits[i]
      BY <2>1, DueTyped DEF Tally
    <2>3. g.read[i] + Due(i) <= hist.hits[i]
      BY DEF ReadFits
    <2> HIDE DEF Due
    <2>4. QED  BY <2>1, <2>2, <2>3
  <1>2. QED  BY <1>1 DEF ReadFits

LEMMA PointHolds ==
    ASSUME Base, Counts, Tally, NEW i \in Ids, NEW c \in Nat, c <= points[i].count
    PROVE  c + Due(i)' <= hist'.hits[i]
  <1>1. /\ Due(i) \in Nat /\ hist.hits[i] \in Nat /\ points[i].count \in Nat
        /\ Due(i)' \in Nat /\ hist'.hits[i] \in Nat
        /\ Due(i)' + hist.hits[i] <= Due(i) + hist'.hits[i]
    BY DueTyped DEF Tally
  <1>2. points[i].count + Due(i) <= hist.hits[i]
    BY DEF Counts, PointFits
  <1>3. QED  BY <1>1, <1>2

(* A request moves.                                                        *)
LEMMA CountsFrom ==
    ASSUME Base, Base', Counts, Tally, UNCHANGED flush,
           NEW r \in Reqs, NEW q, Moved(r, q), CountFits(q)',
           \A i \in Ids : PointFits(i)'
    PROVE  Counts'
  <1>1. req'[r] = q /\ \A y \in Reqs \ {r} : req'[y] = req[y]
    BY DEF Moved, Base, TypeOK
  <1>2. ASSUME NEW y \in Reqs  PROVE CountFits(req[y])'
    <2>1. CASE y = r
      BY <1>1, <2>1 DEF CountFits
    <2>2. CASE y # r
      <3>1. req[y] \in Request /\ PhaseFits(req[y]) /\ CountFits(req[y]) /\ req'[y] = req[y]
        BY <1>1, <2>2 DEF Base, TypeOK, Counts
      <3>2. PICK x \in Request : x = req[y]
        BY <3>1
      <3>3. CountFits(x)'
        BY <3>1, <3>2, CountHolds
      <3>4. QED  BY <3>1, <3>2, <3>3 DEF CountFits
    <2>3. QED  BY <2>1, <2>2
  <1>3. ASSUME NEW f \in Flushes  PROVE ReadFits(flush[f])'
    <2>1. PICK g \in Flush : g = flush[f]
      BY DEF Base, TypeOK
    <2>2. ReadFits(g)'
      BY <2>1, ReadHolds DEF Counts
    <2>3. flush'[f] = g
      BY <2>1
    <2>4. QED  BY <2>2, <2>3 DEF ReadFits
  <1>4. QED  BY <1>2, <1>3 DEF Counts, Tally

(* Points whose counter does not grow go on to fit.                        *)
LEMMA PointsHold ==
    ASSUME Base, Base', Counts, Tally, \A i \in Ids : points'[i].count <= points[i].count
    PROVE  \A i \in Ids : PointFits(i)'
  <1>1. ASSUME NEW i \in Ids  PROVE PointFits(i)'
    <2>1. points'[i].count \in Nat /\ points'[i].count <= points[i].count
      BY DEF Base, TypeOK, Point
    <2>2. points'[i].count + Due(i)' <= hist'.hits[i]
      BY <2>1, PointHolds
    <2>3. QED  BY <2>2 DEF PointFits
  <1>2. QED  BY <1>1

LEMMA CountedHits ==
    ASSUME Base, NEW S, hist'.hits = CountHits(S).hits
    PROVE  \A i \in Ids : /\ hist.hits[i] \in Nat
                          /\ hist'.hits[i] = hist.hits[i] + (IF i \in S THEN 1 ELSE 0)
  <1>1. PICK h \in History : h = hist
    BY DEF Base, TypeOK
  <1> DEFINE k == [i \in Ids |-> IF i \in S THEN h.hits[i] + 1 ELSE h.hits[i]]
  <1>2. CountHits(S) = [h EXCEPT !.hits = k]
    BY <1>1 DEF CountHits
  <1>3. \A i \in Ids : k[i] = h.hits[i] + (IF i \in S THEN 1 ELSE 0) /\ h.hits[i] \in Nat
    BY DEF History
  <1> HIDE DEF k
  <1>4. hist'.hits = k
    BY <1>2 DEF History
  <1>5. QED  BY <1>1, <1>3, <1>4

LEMMA TallyOfRecord ==
    ASSUME Base, Base', Counts, UNCHANGED flush, NEW S, Record(S)
    PROVE  Tally
  <1>1. \A i \in Ids : pending'[i] = pending[i] + (IF i \in S THEN 1 ELSE 0) /\ pending[i] \in Nat
    BY DEF Record, Base, TypeOK
  <1>2. \A i \in Ids : /\ hist.hits[i] \in Nat
                       /\ hist'.hits[i] = hist.hits[i] + (IF i \in S THEN 1 ELSE 0)
    BY CountedHits DEF Record
  <1>3. \A i \in Ids : pending'[i] + hist.hits[i] <= pending[i] + hist'.hits[i]
    BY <1>1, <1>2
  <1>4. QED  BY <1>3, RequestTally

LEMMA TallyOfHits ==
    ASSUME Base, Base', Counts, UNCHANGED <<pending, flush>>,
           hist'.hits = hist.hits \/ \E S : hist'.hits = CountHits(S).hits
    PROVE  Tally
  <1>1. ASSUME NEW i \in Ids  PROVE pending'[i] + hist.hits[i] <= pending[i] + hist'.hits[i]
    <2>1. pending[i] \in Nat /\ hist.hits[i] \in Nat
      BY DEF Base, TypeOK, History
    <2>2. CASE hist'.hits = hist.hits
      BY <2>1, <2>2
    <2>3. CASE \E S : hist'.hits = CountHits(S).hits
      <3>1. PICK S : hist'.hits = CountHits(S).hits
        BY <2>3
      <3>2. hist'.hits[i] = hist.hits[i] + (IF i \in S THEN 1 ELSE 0)
        BY <3>1, CountedHits
      <3>3. QED  BY <2>1, <3>2
    <2>4. QED  BY <2>2, <2>3
  <1>2. QED  BY <1>1, RequestTally

(* Writes that keep a counter, and the insertion that starts one at zero.  *)
LEMMA KeepsCounters ==
    ASSUME Base, NEW j \in Ids, NEW p, SetPayload(j, p), p.count = points[j].count
    PROVE  \A i \in Ids : points'[i].count <= points[i].count
  <1>1. \A i \in Ids : points'[i].count = points[i].count /\ points[i].count \in Nat
    BY DEF SetPayload, Base, TypeOK, Point
  <1>2. QED  BY <1>1

LEMMA StillCounters ==
    ASSUME Base, Still
    PROVE  \A i \in Ids : points'[i].count <= points[i].count
  <1>1. \A i \in Ids : points'[i].count = points[i].count /\ points[i].count \in Nat
    BY DEF Still, Base, TypeOK, Point
  <1>2. QED  BY <1>1

LEMMA ZeroCounters ==
    ASSUME Base, NEW j \in Ids, NEW p \in Point, p.count = 0, points' = [points EXCEPT ![j] = p]
    PROVE  \A i \in Ids : points'[i].count <= points[i].count
  <1>1. \A i \in Ids : points[i].count \in Nat
    BY DEF Base, TypeOK, Point
  <1>2. \A i \in Ids : points'[i] = IF i = j THEN p ELSE points[i]
    BY DEF Base, TypeOK
  <1>3. QED  BY <1>1, <1>2

LEMMA RequestCounts ==
    ASSUME Base, Base', Counts, NEW r \in Reqs, Begin(r) \/ CallFails(r) \/ Step(r)
    PROVE  Counts'
  <1>1. req[r] \in Request /\ PhaseFits(req[r]) /\ CountFits(req[r])
        /\ points \in [Ids -> Point] /\ used \subseteq Ids /\ stored \subseteq used
    BY DEF Counts, Base, TypeOK
  <1>2. ASSUME NEW q, q.pc # "rewrite"  PROVE CountFits(q)'
    BY <1>2 DEF CountFits
  <1>3. CASE Begin(r)
    <2>1. PICK q : Moved(r, q)
      BY <1>3, RequestCalls
    <2>2. PICK p, o, n, c, s, j :
             p \in {"embed", "fetch"} /\ req' = [req EXCEPT ![r] = Asks(p, o, n, c, s, j)]
      BY <1>3 DEF Begin
    <2>3. q = Asks(p, o, n, c, s, j)
      BY <2>1, <2>2 DEF Moved, Base, TypeOK
    <2>4. q.pc # "rewrite"
      BY <2>2, <2>3 DEF Asks
    <2>5. Still /\ UNCHANGED <<pending, flush>>
      BY <1>3 DEF Begin, Still
    <2>6. hist'.hits = hist.hits
      <3>1. \E h : hist' = [hist EXCEPT !.overlap = h]
        BY <1>3 DEF Begin
      <3>2. PICK h : hist' = [hist EXCEPT !.overlap = h]
        BY <3>1
      <3>3. QED  BY <3>2 DEF Base, TypeOK, History
    <2>7. Tally
      BY <2>5, <2>6, TallyOfHits
    <2>8. \A i \in Ids : PointFits(i)'
      BY <2>5, <2>7, StillCounters, PointsHold
    <2>9. QED  BY <1>2, <2>1, <2>4, <2>5, <2>7, <2>8, CountsFrom
  <1>4. CASE AssertIdFree(r) \/ CallFails(r) \/ Search(r)
    <2>1. PICK q : Moved(r, q) /\ q.pc \in {"failed", "done", "upsert"}
      BY <1>4, PlainMoves
    <2>2. Still /\ UNCHANGED flush /\ \E S \in SUBSET Ids : Record(S)
      BY <1>4, PlainMoves
    <2>3. Tally
      BY <2>2, TallyOfRecord
    <2>4. \A i \in Ids : PointFits(i)'
      BY <2>2, <2>3, StillCounters, PointsHold
    <2>5. q.pc # "rewrite"
      BY <2>1
    <2>6. QED  BY <1>2, <2>1, <2>2, <2>3, <2>4, <2>5, CountsFrom
  <1>5. CASE SearchTopOne(r)
    <2>1. PICK q : /\ Moved(r, q) /\ Alias(r, q)
                   /\ \/ /\ q.pc = "rewrite" /\ q.id \in stored
                         /\ q.seen \in {Reinforced(points[q.id]), Merged(points[q.id], r)}
                      \/ q.pc = "upsert"
      BY <1>5, SearchMoves
    <2>2. Still /\ UNCHANGED <<pending, flush, hist>> /\ req[r].op = "store"
      BY <1>5, SearchMoves
    <2>3. Tally
      BY <2>2, TallyOfHits
    <2>4. \A i \in Ids : PointFits(i)'
      BY <2>2, <2>3, StillCounters, PointsHold
    <2>5. CASE q.pc = "rewrite"
      <3>1. q.id \in Ids
        BY <1>1, <2>1, <2>5
      <3>2. PICK v \in Point : v = points[q.id]
        BY <1>1, <3>1
      <3>3. q.seen.count = v.count + 1 /\ v.count \in Nat
        BY <2>1, <2>5, <3>2 DEF Reinforced, Merged, Point
      <3>4. points[q.id].count + Due(q.id)' <= hist'.hits[q.id]
        BY <2>3, <3>1, <3>2, <3>3, PointHolds
      <3>5. Due(q.id)' \in Nat /\ hist'.hits[q.id] \in Nat
        BY <2>3, <3>1 DEF Tally
      <3>6. CountFits(q)'
        <4> HIDE DEF Due
        <4>1. q.seen.count + Due(q.id)' <= hist'.hits[q.id] + 1
          BY <3>2, <3>3, <3>4, <3>5
        <4>2. QED  BY <2>1, <2>2, <4>1 DEF CountFits, Alias
      <3>7. QED  BY <2>1, <2>2, <2>3, <2>4, <3>6, CountsFrom
    <2>6. QED  BY <1>2, <2>1, <2>2, <2>3, <2>4, <2>5, CountsFrom
  <1>6. CASE Upsert(r)
    <2>1. PICK q, i : /\ Moved(r, q) /\ q.pc \in {"inserted", "mark"} /\ i \in Ids
                      /\ UpsertPoint(i, NewPoint(req[r].ns, req[r].content, r))
                      /\ hist' = Inserted(hist, r, i)
      BY <1>6, UpsertMoves
    <2>2. UNCHANGED <<pending, flush>>
      BY <1>6, UpsertMoves
    <2>3. Tally
      BY <2>1, <2>2, InsertTyped, TallyOfHits
    <2>4. NewPoint(req[r].ns, req[r].content, r) \in Point
          /\ NewPoint(req[r].ns, req[r].content, r).count = 0
      BY <1>1 DEF NewPoint, Point, Request
    <2>5. \A j \in Ids : PointFits(j)'
      BY <2>1, <2>3, <2>4, ZeroCounters, PointsHold DEF UpsertPoint
    <2>6. q.pc # "rewrite"
      BY <2>1
    <2>7. QED  BY <1>2, <2>1, <2>2, <2>3, <2>5, <2>6, CountsFrom
  <1>7. CASE MarkRetrieve(r)
    <2>1. PICK q : Moved(r, q) /\ q.pc \in {"inserted", "marking"}
      BY <1>7, MarkRetrieveMoves
    <2>2. Still /\ UNCHANGED <<pending, flush, hist>>
      BY <1>7, MarkRetrieveMoves
    <2>3. Tally
      BY <2>2, TallyOfHits
    <2>4. \A i \in Ids : PointFits(i)'
      BY <2>2, <2>3, StillCounters, PointsHold
    <2>5. q.pc # "rewrite"
      BY <2>1
    <2>6. QED  BY <1>2, <2>1, <2>2, <2>3, <2>4, <2>5, CountsFrom
  <1>8. CASE MarkOne(r)
    <2>1. PICK q, i : /\ Moved(r, q) /\ q.pc \in {"inserted", "marking"}
                      /\ i \in req[r].supersedes
                      /\ \/ /\ SetPayload(i, [points[i] EXCEPT !.superseded = req[r].id])
                            /\ hist' = Marked(hist, r, i)
                         \/ Still /\ hist' = hist
      BY <1>8, MarkOneMoves
    <2>2. req[r].pc = "marking" /\ UNCHANGED <<pending, flush>>
      BY <1>8, MarkOneMoves
    <2>3. i \in Ids /\ req[r].id \in Ids
      BY <1>1, <2>1, <2>2 DEF PhaseFits, Collected
    <2>4. hist'.hits = hist.hits
      BY <2>1, <2>3, MarkTyped
    <2>5. Tally
      BY <2>2, <2>4, TallyOfHits
    <2>6. AsSuperseded(points[i], req[r].id).count = points[i].count
      BY <1>1, <2>3, AsSupersededTyped
    <2>7. SetPayload(i, AsSuperseded(points[i], req[r].id)) \/ Still
      BY <2>1 DEF AsSuperseded
    <2>8. \A j \in Ids : PointFits(j)'
      BY <2>3, <2>5, <2>6, <2>7, KeepsCounters, StillCounters, PointsHold
    <2>9. q.pc # "rewrite"
      BY <2>1
    <2>10. QED  BY <1>2, <2>1, <2>2, <2>5, <2>8, <2>9, CountsFrom
  <1>9. CASE Fetch(r)
    <2>1. PICK q : /\ Moved(r, q) /\ Alias(r, q)
                   /\ \/ q.pc \in {"notFound", "done"}
                      \/ /\ q.id \in stored
                         /\ \/ q.pc \in {"tombstone", "untombstone", "remove"}
                            \/ /\ q.pc = "rewrite" /\ req[r].op = "update"
                               /\ q.seen = [points[q.id] EXCEPT !.edit = r]
      BY <1>9, FetchMoves
    <2>2. Still /\ UNCHANGED flush /\ \E S \in SUBSET Ids : Record(S)
      BY <1>9, FetchMoves
    <2>3. Tally
      BY <2>2, TallyOfRecord
    <2>4. \A i \in Ids : PointFits(i)'
      BY <2>2, <2>3, StillCounters, PointsHold
    <2>5. CASE q.pc = "rewrite"
      <3>1. q.id \in Ids
        BY <1>1, <2>1, <2>5
      <3>2. PICK v \in Point : v = points[q.id]
        BY <1>1, <3>1
      <3>3. q.seen.count = v.count /\ v.count \in Nat
        BY <2>1, <2>5, <3>2 DEF Point
      <3>4. points[q.id].count + Due(q.id)' <= hist'.hits[q.id]
        BY <2>3, <3>1, <3>2, <3>3, PointHolds
      <3>5. Due(q.id)' \in Nat /\ hist'.hits[q.id] \in Nat
        BY <2>3, <3>1 DEF Tally
      <3>6. CountFits(q)'
        <4> HIDE DEF Due
        <4>1. q.seen.count + Due(q.id)' <= hist'.hits[q.id] + 0
          BY <3>2, <3>3, <3>4, <3>5
        <4>2. q.op # "store"
          BY <2>1, <2>5 DEF Alias
        <4>3. QED  BY <4>1, <4>2 DEF CountFits
      <3>7. QED  BY <2>1, <2>2, <2>3, <2>4, <3>6, CountsFrom
    <2>6. CASE q.pc # "rewrite"
      BY <1>2, <2>1, <2>2, <2>3, <2>4, <2>6, CountsFrom
    <2>7. QED  BY <2>5, <2>6
  <1>10. CASE Rewrite(r)
    <2> DEFINE k == IF req[r].op = "store" THEN 1 ELSE 0
    <2>0. PICK j \in Ids : j = req[r].id
      BY <1>10, RewriteMoves
    <2>1. /\ req[r].pc = "rewrite" /\ UNCHANGED <<pending, flush>>
          /\ req[r].seen \in Point
          /\ SetPayload(j, req[r].seen)
          /\ hist'.hits = CountHits(IF req[r].op = "store" THEN {j} ELSE {}).hits
      BY <1>10, <2>0, RewriteMoves, RewriteTyped
    <2>2. PICK q : Moved(r, q) /\ q.pc \in {"matched", "done"}
      BY <1>10, RewriteMoves
    <2>3. Tally
      BY <2>1, TallyOfHits
    <2>4. Due(j)' = Due(j)
      BY <2>1 DEF Due, Pile, Owed
    <2>5. hist.hits[j] \in Nat /\ hist'.hits[j] = hist.hits[j] + k
      <3>1. CASE req[r].op = "store"
        <4>1. hist'.hits = CountHits({j}).hits
          BY <2>1, <3>1
        <4>2. QED  BY <2>1, <3>1, <4>1, CountedHits
      <3>2. CASE req[r].op # "store"
        <4>1. hist'.hits = CountHits({}).hits
          BY <2>1, <3>2
        <4>2. PICK S : S = {}
          OBVIOUS
        <4>3. hist.hits[j] \in Nat /\ hist'.hits[j] = hist.hits[j] + (IF j \in S THEN 1 ELSE 0)
          BY <4>1, <4>2, CountedHits
        <4>4. QED  BY <3>2, <4>2, <4>3
      <3>3. QED  BY <3>1, <3>2
    <2>6. req[r].seen.count + Due(j) <= hist.hits[j] + k
      BY <1>1, <2>0, <2>1 DEF CountFits
    <2>7. req[r].seen.count + Due(j)' <= hist'.hits[j]
      <3> HIDE DEF Due, k
      <3>1. QED  BY <2>4, <2>5, <2>6
    <2>8. ASSUME NEW i \in Ids  PROVE PointFits(i)'
      <3>1. CASE i = j /\ j \in stored
        <4>1. points'[i] = req[r].seen
          BY <1>1, <2>1, <3>1 DEF SetPayload
        <4>2. QED  BY <2>7, <3>1, <4>1 DEF PointFits
      <3>2. CASE ~(i = j /\ j \in stored)
        <4>1. points'[i] = points[i]
          BY <1>1, <2>1, <3>2 DEF SetPayload
        <4>2. points[i].count \in Nat
          BY <1>1 DEF Point
        <4>3. points[i].count + Due(i)' <= hist'.hits[i]
          BY <2>3, <4>2, PointHolds
        <4>4. QED  BY <4>1, <4>3 DEF PointFits
      <3>3. QED  BY <3>1, <3>2
    <2>9. q.pc # "rewrite"
      BY <2>2
    <2>10. QED  BY <1>2, <2>1, <2>2, <2>3, <2>8, <2>9, CountsFrom
  <1>11. CASE Tombstone(r) \/ Untombstone(r)
    <2>1. PICK v \in BOOLEAN : /\ SetPayload(req[r].id, AsDeleted(points[req[r].id], v))
                               /\ req[r].id \in Ids /\ UNCHANGED <<pending, flush>>
                               /\ \/ hist' = [hist EXCEPT !.wasHidden = @ \cup {req[r].id}]
                                  \/ hist' = hist
      BY <1>11, TombstoneMoves
    <2>2. PICK q : Moved(r, q) /\ q.pc = "done"
      BY <1>11, TombstoneMoves
    <2>3. hist'.hits = hist.hits
      BY <2>1 DEF Base, TypeOK, History
    <2>4. Tally
      BY <2>1, <2>3, TallyOfHits
    <2>5. AsDeleted(points[req[r].id], v).count = points[req[r].id].count
      BY <1>1, <2>1, AsDeletedTyped
    <2>6. \A j \in Ids : PointFits(j)'
      BY <2>1, <2>4, <2>5, KeepsCounters, PointsHold
    <2>7. QED  BY <1>2, <2>1, <2>2, <2>4, <2>6, CountsFrom
  <1>12. CASE Remove(r)
    <2>1. /\ UNCHANGED <<pending, flush, hist>> /\ req[r].id \in Ids /\ DeletePoint(req[r].id)
      BY <1>12, RemoveMoves
    <2>2. PICK q : Moved(r, q) /\ q.pc = "done"
      BY <1>12, RemoveMoves
    <2>3. Tally
      BY <2>1, TallyOfHits
    <2>4. Blank \in Point /\ Blank.count = 0
      BY SeedTyped DEF Blank, NewPoint
    <2>5. \A j \in Ids : PointFits(j)'
      BY <2>1, <2>3, <2>4, ZeroCounters, PointsHold DEF DeletePoint
    <2>6. QED  BY <1>2, <2>1, <2>2, <2>3, <2>5, CountsFrom
  <1>13. QED
    BY <1>3, <1>4, <1>5, <1>6, <1>7, <1>8, <1>9, <1>10, <1>11, <1>12 DEF Step

(* Flushes that write, drop or leave out hits.                             *)
LEMMA TallyOfLess ==
    ASSUME Base, Base', Counts, UNCHANGED hist,
           \A i \in Ids : pending'[i] <= pending[i],
           \A i \in Ids, f \in Flushes : Owed(i)'[f] <= Owed(i)[f]
    PROVE  Tally
  <1>1. SUFFICES ASSUME NEW i \in Ids
                 PROVE  /\ IsFiniteSet(Pile(Owed(i)))'
                        /\ Due(i)' \in Nat /\ hist'.hits[i] \in Nat
                        /\ Due(i)' + hist.hits[i] <= Due(i) + hist'.hits[i]
    BY DEF Tally
  <1>2. PICK o \in [Flushes -> Nat] : o = Owed(i)
    BY OwedTyped
  <1>3. PICK p \in [Flushes -> Nat] : p = Owed(i)'
    BY OwedStays
  <1>4. IsFiniteSet(Pile(o))
    BY <1>2 DEF Counts
  <1>5. \A f \in Flushes : p[f] <= o[f]
    BY <1>2, <1>3
  <1>6. /\ IsFiniteSet(Pile(p))
        /\ Cardinality(Pile(p)) \in Nat /\ Cardinality(Pile(o)) \in Nat
        /\ Cardinality(Pile(p)) <= Cardinality(Pile(o))
    BY <1>4, <1>5, PileShrinks
  <1>7. Pile(Owed(i))' = Pile(p)
    BY <1>3 DEF Pile
  <1>8. /\ Due(i) = pending[i] + Cardinality(Pile(o))
        /\ Due(i)' = pending'[i] + Cardinality(Pile(p))
    BY <1>2, <1>7 DEF Due
  <1>9. pending[i] \in Nat /\ pending'[i] \in Nat /\ hist.hits[i] \in Nat /\ pending'[i] <= pending[i]
    BY DEF Base, TypeOK, History
  <1>10. QED  BY <1>6, <1>7, <1>8, <1>9

(* One flush moves.                                                        *)
LEMMA FlushFrom ==
    ASSUME Base, Base', Counts, Tally, UNCHANGED <<req, hist>>,
           NEW f \in Flushes, NEW g, FlushMoved(f, g), ReadFits(g)',
           \A i \in Ids : PointFits(i)'
    PROVE  Counts'
  <1>1. flush'[f] = g /\ \A e \in Flushes \ {f} : flush'[e] = flush[e]
    BY DEF FlushMoved, Base, TypeOK
  <1>2. ASSUME NEW e \in Flushes  PROVE ReadFits(flush[e])'
    <2>1. CASE e = f
      BY <1>1, <2>1 DEF ReadFits
    <2>2. CASE e # f
      <3>1. PICK x \in Flush : x = flush[e]
        BY DEF Base, TypeOK
      <3>2. ReadFits(x)'
        BY <3>1, ReadHolds DEF Counts
      <3>3. flush'[e] = x
        BY <1>1, <2>2, <3>1
      <3>4. QED  BY <3>2, <3>3 DEF ReadFits
    <2>3. QED  BY <2>1, <2>2
  <1>3. ASSUME NEW r \in Reqs  PROVE CountFits(req[r])'
    <2>1. PICK q \in Request : q = req[r]
      BY DEF Base, TypeOK
    <2>2. CountFits(q)'
      BY <2>1, CountHolds DEF Counts, Base
    <2>3. req'[r] = q
      BY <2>1
    <2>4. QED  BY <2>2, <2>3 DEF CountFits
  <1>4. QED  BY <1>2, <1>3 DEF Counts, Tally

LEMMA TakeCounts ==
    ASSUME Base, Base', Counts, NEW f \in Flushes, FlushTake(f)
    PROVE  Counts'
  <1>1. Idle(f) /\ pending' = NoHits /\ Still /\ UNCHANGED <<req, hist>>
    BY TakeMoves
  <1>2. PICK g : FlushMoved(f, g) /\ g.reading = TRUE /\ g.batch = pending /\ g.todo = {}
    BY TakeMoves
  <1>3. flush'[f] = g /\ \A e \in Flushes \ {f} : flush'[e] = flush[e]
    BY <1>2 DEF FlushMoved, Base, TypeOK
  <1>4. ASSUME NEW i \in Ids
        PROVE  /\ IsFiniteSet(Pile(Owed(i)))'
               /\ Due(i)' \in Nat /\ hist'.hits[i] \in Nat
               /\ Due(i)' + hist.hits[i] <= Due(i) + hist'.hits[i]
    <2>1. PICK o \in [Flushes -> Nat] : o = Owed(i)
      BY OwedTyped
    <2>2. PICK p \in [Flushes -> Nat] : p = Owed(i)'
      BY OwedStays
    <2>3. o[f] = 0
      BY <1>1, <2>1 DEF Owed, Idle
    <2>4. p[f] = pending[i]
      BY <1>2, <1>3, <2>2 DEF Owed
    <2>5. \A e \in Flushes \ {f} : p[e] = o[e]
      BY <1>3, <2>1, <2>2 DEF Owed
    <2>6. /\ IsFiniteSet(Pile(p))
          /\ Cardinality(Pile(o)) \in Nat /\ Cardinality(Pile(p)) \in Nat
          /\ Cardinality(Pile(p)) = Cardinality(Pile(o)) + p[f]
      BY <2>1, <2>3, <2>5, PileGrows DEF Counts
    <2>7. Pile(Owed(i))' = Pile(p)
      BY <2>2 DEF Pile
    <2>8. /\ Due(i) = pending[i] + Cardinality(Pile(o))
          /\ Due(i)' = 0 + Cardinality(Pile(p))
      BY <1>1, <2>1, <2>7, NoFlushTyped DEF Due
    <2>9. pending[i] \in Nat /\ hist.hits[i] \in Nat
      BY DEF Base, TypeOK, History
    <2>10. QED  BY <1>1, <2>4, <2>6, <2>7, <2>8, <2>9
  <1>5. Tally
    BY <1>4 DEF Tally
  <1>6. ReadFits(g)'
    BY <1>2 DEF ReadFits
  <1>7. \A i \in Ids : PointFits(i)'
    BY <1>1, <1>5, StillCounters, PointsHold
  <1>8. QED  BY <1>1, <1>2, <1>5, <1>6, <1>7, FlushFrom

LEMMA ReadCounts ==
    ASSUME Base, Base', Counts, NEW f \in Flushes, FlushRead(f)
    PROVE  Counts'
  <1>1. flush[f].reading /\ Still /\ UNCHANGED <<req, pending, hist>>
    BY ReadMoves
  <1>2. PICK g : /\ FlushMoved(f, g)
                 /\ g.reading = FALSE /\ g.todo \subseteq stored
                 /\ \A i \in g.todo : g.batch[i] = flush[f].batch[i] /\ g.read[i] = points[i].count
    BY ReadMoves
  <1>3. flush'[f] = g /\ \A e \in Flushes \ {f} : flush'[e] = flush[e]
    BY <1>2 DEF FlushMoved, Base, TypeOK
  <1>4. ASSUME NEW i \in Ids, NEW e \in Flushes  PROVE Owed(i)'[e] <= Owed(i)[e]
    <2>1. flush[e].batch[i] \in Nat
      BY DEF Base, TypeOK, Flush
    <2>2. Owed(i)[e] = IF flush[e].reading \/ i \in flush[e].todo THEN flush[e].batch[i] ELSE 0
      BY DEF Owed
    <2>3. Owed(i)'[e] = IF flush'[e].reading \/ i \in flush'[e].todo THEN flush'[e].batch[i] ELSE 0
      BY DEF Owed
    <2> HIDE DEF Owed
    <2>4. CASE e = f
      BY <1>1, <1>2, <1>3, <2>1, <2>2, <2>3, <2>4
    <2>5. CASE e # f
      BY <1>3, <2>1, <2>2, <2>3, <2>5
    <2>6. QED  BY <2>4, <2>5
  <1>5. \A i \in Ids : pending'[i] <= pending[i]
    <2>1. \A i \in Ids : pending[i] \in Nat
      BY DEF Base, TypeOK
    <2>2. QED  BY <1>1, <2>1
  <1>6. Tally
    BY <1>1, <1>4, <1>5, TallyOfLess
  <1>7. ASSUME NEW i \in g.todo  PROVE g.read[i] + Due(i)' <= hist'.hits[i]
    <2>1. i \in Ids /\ points[i].count \in Nat
      BY <1>2 DEF Base, TypeOK, Point
    <2>2. points[i].count + Due(i)' <= hist'.hits[i]
      BY <1>6, <2>1, PointHolds
    <2>3. QED  BY <1>2, <2>2
  <1>8. ReadFits(g)'
    BY <1>2, <1>7 DEF ReadFits
  <1>9. \A i \in Ids : PointFits(i)'
    BY <1>1, <1>6, StillCounters, PointsHold
  <1>10. QED  BY <1>1, <1>2, <1>6, <1>8, <1>9, FlushFrom

LEMMA WriteCounts ==
    ASSUME Base, Base', Counts, NEW f \in Flushes, FlushWrite(f)
    PROVE  Counts'
  <1>1. PICK j, g, n :
          /\ j \in flush[f].todo /\ j \in Ids
          /\ n \in Nat /\ n = flush[f].read[j] + flush[f].batch[j]
          /\ SetPayload(j, AsCounted(points[j], n)) \/ Still
          /\ UNCHANGED <<req, pending, crashes, hist>>
          /\ FlushMoved(f, g)
          /\ g.todo = flush[f].todo \ {j}
          /\ g = NoFlush \/ (/\ g.reading = flush[f].reading /\ g.batch = flush[f].batch
                             /\ g.read = flush[f].read)
    BY WriteMoves
  <1>2. flush'[f] = g /\ \A e \in Flushes \ {f} : flush'[e] = flush[e]
    BY <1>1 DEF FlushMoved, Base, TypeOK
  <1>3. PICK x \in Flush : x = flush[f]
    BY DEF Base, TypeOK
  <1>4. ReadFits(x) /\ ~ x.reading
    BY <1>1, <1>3 DEF Counts, ReadFits
  <1>5. ~ g.reading
    BY <1>1, <1>3, <1>4, NoFlushTyped
  <1>6. ASSUME NEW i \in g.todo
        PROVE  i \in x.todo /\ i # j /\ i \in Ids /\ g.batch[i] = x.batch[i] /\ g.read[i] = x.read[i]
    BY <1>1, <1>3, <1>6, NoFlushTyped DEF Flush
  <1>7. ASSUME NEW i \in Ids, NEW e \in Flushes  PROVE Owed(i)'[e] <= Owed(i)[e]
    <2>1. flush[e].batch[i] \in Nat
      BY DEF Base, TypeOK, Flush
    <2>2. Owed(i)[e] = IF flush[e].reading \/ i \in flush[e].todo THEN flush[e].batch[i] ELSE 0
      BY DEF Owed
    <2>3. Owed(i)'[e] = IF flush'[e].reading \/ i \in flush'[e].todo THEN flush'[e].batch[i] ELSE 0
      BY DEF Owed
    <2> HIDE DEF Owed
    <2>4. CASE e = f
      BY <1>2, <1>3, <1>5, <1>6, <2>1, <2>2, <2>3, <2>4
    <2>5. CASE e # f
      BY <1>2, <2>1, <2>2, <2>3, <2>5
    <2>6. QED  BY <2>4, <2>5
  <1>8. \A i \in Ids : pending'[i] <= pending[i]
    <2>1. \A i \in Ids : pending[i] \in Nat
      BY DEF Base, TypeOK
    <2>2. QED  BY <1>1, <2>1
  <1>9. Tally
    BY <1>1, <1>7, <1>8, TallyOfLess
  <1>10. n + Due(j)' <= hist'.hits[j]
    <2>1. PICK o \in [Flushes -> Nat] : o = Owed(j)'
      BY <1>1, OwedStays
    <2>2. PICK p \in [Flushes -> Nat] : p = Owed(j)
      BY <1>1, OwedTyped
    <2>3. o[f] = 0
      BY <1>1, <1>2, <1>5, <2>1 DEF Owed
    <2>4. p[f] = x.batch[j]
      BY <1>1, <1>3, <2>2 DEF Owed
    <2>5. \A e \in Flushes \ {f} : p[e] = o[e]
      BY <1>2, <2>1, <2>2 DEF Owed
    <2>6. Pile(Owed(j))' = Pile(o)
      BY <2>1 DEF Pile
    <2>7. IsFiniteSet(Pile(o))
      BY <1>1, <1>9, <2>6 DEF Tally
    <2>8. /\ Cardinality(Pile(o)) \in Nat /\ Cardinality(Pile(p)) \in Nat
          /\ Cardinality(Pile(p)) = Cardinality(Pile(o)) + p[f]
      BY <2>3, <2>5, <2>7, PileGrows
    <2>9. /\ Due(j) = pending[j] + Cardinality(Pile(p))
          /\ Due(j)' = pending[j] + Cardinality(Pile(o))
      BY <1>1, <2>2, <2>6 DEF Due
    <2>10. x.read[j] + Due(j) <= hist.hits[j]
      BY <1>1, <1>3, <1>4 DEF ReadFits
    <2>11. pending[j] \in Nat /\ hist.hits[j] \in Nat /\ x.read[j] \in Nat /\ x.batch[j] \in Nat
      BY <1>1 DEF Base, TypeOK, History, Flush
    <2> HIDE DEF Due
    <2>12. n = x.read[j] + x.batch[j] /\ hist' = hist
      BY <1>1, <1>3
    <2>13. QED  BY <2>4, <2>8, <2>9, <2>10, <2>11, <2>12
  <1>11. ASSUME NEW i \in Ids  PROVE PointFits(i)'
    <2>1. points \in [Ids -> Point] /\ points[i].count \in Nat
      BY DEF Base, TypeOK, Point
    <2>2. points[i].count + Due(i)' <= hist'.hits[i]
      BY <1>9, <2>1, PointHolds
    <2>3. CASE i = j /\ points'[i] = AsCounted(points[j], n)
      <3>1. points'[i].count = n
        BY <1>1, <2>1, <2>3, AsCountedTyped
      <3>2. QED  BY <1>10, <2>3, <3>1 DEF PointFits
    <2>4. CASE points'[i] = points[i]
      BY <2>2, <2>4 DEF PointFits
    <2>5. QED  BY <1>1, <2>1, <2>3, <2>4 DEF SetPayload, Still
  <1>12. ASSUME NEW i \in g.todo  PROVE g.read[i] + Due(i)' <= hist'.hits[i]
    <2>1. ReadFits(x)'
      BY <1>4, <1>9, ReadHolds
    <2>2. QED  BY <1>6, <1>12, <2>1 DEF ReadFits
  <1>13. ReadFits(g)'
    BY <1>5, <1>12 DEF ReadFits
  <1>14. QED  BY <1>1, <1>9, <1>11, <1>13, FlushFrom

LEMMA CrashCounts ==
    ASSUME Base, Base', Counts, Crash
    PROVE  Counts'
  <1>1. /\ Still /\ UNCHANGED hist
        /\ pending' = NoHits /\ flush' = [f \in Flushes |-> NoFlush]
        /\ \A r \in Reqs : req'[r].pc \in Over
    BY CrashMoves DEF Over
  <1>2. ASSUME NEW i \in Ids, NEW f \in Flushes  PROVE Owed(i)'[f] <= Owed(i)[f]
    <2>1. Owed(i)'[f] = 0
      BY <1>1, NoFlushTyped DEF Owed
    <2>2. Owed(i)[f] \in Nat
      BY OwedTyped
    <2> HIDE DEF Owed
    <2>3. QED  BY <2>1, <2>2
  <1>3. \A i \in Ids : pending'[i] <= pending[i]
    <2>1. \A i \in Ids : pending[i] \in Nat
      BY DEF Base, TypeOK
    <2>2. QED  BY <1>1, <2>1, NoFlushTyped
  <1>4. Tally
    BY <1>1, <1>2, <1>3, TallyOfLess
  <1>5. \A i \in Ids : PointFits(i)'
    BY <1>1, <1>4, StillCounters, PointsHold
  <1>6. \A f \in Flushes : ReadFits(flush[f])'
    BY <1>1, NoFlushTyped DEF ReadFits
  <1>7. \A r \in Reqs : CountFits(req[r])'
    BY <1>1 DEF CountFits, Over
  <1>8. QED  BY <1>4, <1>5, <1>6, <1>7 DEF Counts, Tally

(* A memory's counter never exceeds the retrievals and matches counted for *)
(* it: overlapping flushes, stale rewrites and restarts lose hits and      *)
(* never count one twice (reinforcement.ts, flush; service.ts, store).     *)
THEOREM Counters == Spec => []CountsOnlyHits
  <1>1. Init => Base /\ Counts
    BY BaseInit, CountsInit
  <1>2. ASSUME Base, Counts, [Next]_vars  PROVE Base' /\ Counts'
    <2>1. Base'
      BY <1>2, BaseNext
    <2>2. CASE UNCHANGED vars
      <3>1. /\ UNCHANGED hist /\ UNCHANGED req /\ UNCHANGED flush /\ UNCHANGED points
            /\ UNCHANGED pending
        BY <2>2 DEF vars
      <3>2. QED
        BY <1>2, <2>1, <3>1 DEF Counts, PointFits, ReadFits, CountFits, Due, Pile, Owed
    <2>3. CASE Crash
      BY <1>2, <2>1, <2>3, CrashCounts
    <2>4. CASE \E f \in Flushes : FlushTake(f) \/ FlushRead(f) \/ FlushWrite(f)
      BY <1>2, <2>1, <2>4, TakeCounts, ReadCounts, WriteCounts
    <2>5. CASE \E r \in Reqs : Begin(r) \/ CallFails(r) \/ Step(r)
      BY <1>2, <2>1, <2>5, RequestCounts
    <2>6. QED  BY <1>2, <2>1, <2>2, <2>3, <2>4, <2>5 DEF Next
  <1>3. Base /\ Counts => CountsOnlyHits
    <2>1. SUFFICES ASSUME Base, Counts, NEW i \in stored  PROVE points[i].count <= hist.hits[i]
      BY DEF CountsOnlyHits
    <2>2. i \in Ids
      BY <2>1 DEF Base, TypeOK
    <2>3. Due(i) \in Nat /\ hist.hits[i] \in Nat /\ points[i].count \in Nat
      BY <2>1, <2>2, DueTyped
    <2>4. points[i].count + Due(i) <= hist.hits[i]
      BY <2>1, <2>2 DEF Counts, PointFits
    <2> HIDE DEF Due
    <2>5. QED  BY <2>3, <2>4
  <1>4. QED  BY <1>1, <1>2, <1>3, PTL DEF Spec

-----------------------------------------------------------------------------
(* What each step does to the phases and to the history.                   *)
LEMMA BeginMoves ==
    ASSUME Base, NEW r \in Reqs, Begin(r)
    PROVE  /\ req[r].pc = "idle" /\ Still
           /\ hist'.origin = hist.origin /\ hist'.wasHidden = hist.wasHidden
           /\ hist'.writers = hist.writers
           /\ \A x \in Reqs : hist'.overlap[x] =
                 IF x = r THEN InFlight
                 ELSE IF x \in InFlight THEN hist.overlap[x] \cup {r} ELSE hist.overlap[x]
           /\ \E q : Moved(r, q) /\ q.pc \in {"embed", "fetch"}
  <1>1. req[r].pc = "idle" /\ Still
    BY DEF Begin, At, Still
  <1>2. PICK q : Moved(r, q)
    BY RequestCalls
  <1>3. PICK p, o, n, c, s, i :
             p \in {"embed", "fetch"} /\ req' = [req EXCEPT ![r] = Asks(p, o, n, c, s, i)]
    BY DEF Begin
  <1>4. q = Asks(p, o, n, c, s, i)
    BY <1>2, <1>3 DEF Moved, Base, TypeOK
  <1>5. q.pc \in {"embed", "fetch"}
    BY <1>3, <1>4 DEF Asks
  <1>6. PICK h \in History : h = hist
    BY DEF Base, TypeOK
  <1> DEFINE m == [x \in Reqs |-> CASE x = r        -> InFlight
                                   [] x \in InFlight -> h.overlap[x] \cup {r}
                                   [] OTHER        -> h.overlap[x]]
  <1>7. hist' = [h EXCEPT !.overlap = m]
    BY <1>6 DEF Begin
  <1>8. \A x \in Reqs : m[x] =
                 IF x = r THEN InFlight
                 ELSE IF x \in InFlight THEN h.overlap[x] \cup {r} ELSE h.overlap[x]
    <2>1. r \notin InFlight
      BY <1>1 DEF InFlight, Over
    <2>2. QED  BY <2>1
  <1> HIDE DEF m
  <1>9. /\ hist'.overlap = m /\ hist'.origin = h.origin /\ hist'.wasHidden = h.wasHidden
        /\ hist'.writers = h.writers
    BY <1>6, <1>7 DEF History
  <1>10. QED  BY <1>1, <1>2, <1>5, <1>6, <1>8, <1>9

LEMMA RecordKeeps ==
    ASSUME Base, NEW S, hist' = CountHits(S)
    PROVE  /\ hist'.origin = hist.origin /\ hist'.overlap = hist.overlap
           /\ hist'.wasHidden = hist.wasHidden /\ hist'.writers = hist.writers
  <1>1. PICK h \in History : h = hist
    BY DEF Base, TypeOK
  <1>2. \E k : hist' = [h EXCEPT !.hits = k]
    BY <1>1 DEF CountHits
  <1>3. PICK k : hist' = [h EXCEPT !.hits = k]
    BY <1>2
  <1>4. QED  BY <1>1, <1>3 DEF History

LEMMA HideKeeps ==
    ASSUME Base, NEW i \in Ids, hist' = [hist EXCEPT !.wasHidden = @ \cup {i}]
    PROVE  /\ hist'.origin = hist.origin /\ hist'.overlap = hist.overlap
           /\ hist'.writers = hist.writers
           /\ hist'.wasHidden = hist.wasHidden \cup {i}
  BY DEF Base, TypeOK, History

LEMMA StepHistory ==
    ASSUME Base, NEW r \in Reqs, CallFails(r) \/ Step(r)
    PROVE  /\ req[r].pc \notin Over
           /\ \E q : Moved(r, q) /\ q.pc # "idle"
           /\ hist'.overlap = hist.overlap
           /\ hist.wasHidden \subseteq hist'.wasHidden /\ hist'.wasHidden \subseteq hist.wasHidden \cup used
           /\ \A i \in used \ Chosen : hist'.origin[i] = hist.origin[i]
           /\ \A i \in Ids : hist.writers[i] \subseteq hist'.writers[i]
  <1>1. req[r] \in Request /\ PhaseFits(req[r]) /\ used \subseteq Ids /\ hist \in History
    BY DEF Base, TypeOK
  <1>2. CASE AssertIdFree(r) \/ CallFails(r) \/ Search(r)
    <2>1. \E S : hist' = CountHits(S)
      BY <1>2, PlainMoves DEF Record
    <2>2. req[r].pc \notin Over /\ \E q : Moved(r, q) /\ q.pc # "idle"
      BY <1>2, PlainMoves
    <2>3. QED  BY <2>1, <2>2, RecordKeeps
  <1>3. CASE SearchTopOne(r)
    <2>1. req[r].pc \notin Over /\ UNCHANGED hist
      BY <1>3, SearchMoves DEF Over
    <2>2. \E q : Moved(r, q) /\ q.pc # "idle"
      BY <1>3, SearchMoves
    <2>3. QED  BY <2>1, <2>2
  <1>4. CASE Upsert(r)
    <2>1. PICK q, i : /\ Moved(r, q) /\ q.pc \in {"inserted", "mark"} /\ i \in Ids
                      /\ req[r].op = "storeId" => i = req[r].id
                      /\ req[r].op # "storeId" => i \in FreshIds
                      /\ hist' = Inserted(hist, r, i)
      BY <1>4, UpsertMoves
    <2>2. req[r].pc = "upsert"
      BY <1>4, UpsertMoves
    <2>3. i \notin used \ Chosen
      BY <1>1, <2>1, <2>2 DEF Chosen, FreshIds, Named
    <2>4. /\ hist'.origin = [hist.origin EXCEPT ![i] = r] /\ hist'.writers = WroteBy(r, i)
          /\ hist'.overlap = hist.overlap /\ hist'.wasHidden = hist.wasHidden
      BY <2>1, InsertTyped
    <2>5. \A j \in used \ Chosen : hist'.origin[j] = hist.origin[j]
      BY <1>1, <2>3, <2>4 DEF History
    <2>6. q.pc # "idle"
      BY <2>1
    <2>7. \A j \in Ids : hist.writers[j] \subseteq hist'.writers[j]
      BY <1>1, <2>4 DEF WroteBy, History
    <2>8. QED  BY <2>1, <2>2, <2>4, <2>5, <2>6, <2>7 DEF Over
  <1>5. CASE MarkRetrieve(r)
    <2>1. req[r].pc \notin Over /\ UNCHANGED hist
      BY <1>5, MarkRetrieveMoves DEF Over
    <2>2. \E q : Moved(r, q) /\ q.pc # "idle"
      BY <1>5, MarkRetrieveMoves
    <2>3. QED  BY <2>1, <2>2
  <1>6. CASE MarkOne(r)
    <2>1. PICK q, i : /\ Moved(r, q) /\ q.pc \in {"inserted", "marking"}
                      /\ i \in req[r].supersedes
                      /\ \/ hist' = Marked(hist, r, i)
                         \/ hist' = hist
      BY <1>6, MarkOneMoves
    <2>2. req[r].pc = "marking"
      BY <1>6, MarkOneMoves
    <2>3. i \in used /\ i \in Ids
      BY <1>1, <2>1, <2>2 DEF PhaseFits
    <2>4. /\ hist'.origin = hist.origin /\ hist'.overlap = hist.overlap
          /\ hist'.wasHidden \in {hist.wasHidden, hist.wasHidden \cup {i}}
          /\ hist'.writers \in {hist.writers, WroteBy(r, i)}
      BY <2>1, <2>3, MarkTyped
    <2>5. q.pc # "idle"
      BY <2>1
    <2>6. \A j \in Ids : hist.writers[j] \subseteq hist'.writers[j]
      BY <1>1, <2>4 DEF WroteBy, History
    <2>7. QED  BY <2>1, <2>2, <2>3, <2>4, <2>5, <2>6 DEF Over
  <1>7. CASE Fetch(r)
    <2>1. \E S : hist' = CountHits(S)
      BY <1>7, FetchMoves DEF Record
    <2>2. req[r].pc \notin Over
      BY <1>7, FetchMoves DEF Over
    <2>3. \E q : Moved(r, q) /\ q.pc # "idle"
      BY <1>7, FetchMoves
    <2>4. QED  BY <2>1, <2>2, <2>3, RecordKeeps
  <1>8. CASE Rewrite(r)
    <2>0. PICK i, S : i \in Ids /\ hist' = Rewrote(CountHits(S), r, i)
      BY <1>8, RewriteMoves
    <2>1. /\ hist'.origin = hist.origin /\ hist'.overlap = hist.overlap
          /\ hist'.wasHidden = hist.wasHidden /\ hist'.writers = WroteBy(r, i)
      BY <2>0, RewriteTyped
    <2>2. req[r].pc \notin Over
      BY <1>8, RewriteMoves DEF Over
    <2>3. \E q : Moved(r, q) /\ q.pc # "idle"
      BY <1>8, RewriteMoves
    <2>4. \A j \in Ids : hist.writers[j] \subseteq hist'.writers[j]
      BY <1>1, <2>1 DEF WroteBy, History
    <2>5. QED  BY <2>1, <2>2, <2>3, <2>4
  <1>9. CASE Tombstone(r) \/ Untombstone(r)
    <2>1. /\ req[r].pc \notin Over /\ req[r].id \in used /\ req[r].id \in Ids
          /\ \/ hist' = [hist EXCEPT !.wasHidden = @ \cup {req[r].id}]
             \/ hist' = hist
      BY <1>9, TombstoneMoves DEF Over
    <2>2. /\ hist'.origin = hist.origin /\ hist'.overlap = hist.overlap
          /\ hist'.wasHidden \in {hist.wasHidden, hist.wasHidden \cup {req[r].id}}
          /\ hist'.writers = hist.writers
      BY <2>1, HideKeeps
    <2>3. \E q : Moved(r, q) /\ q.pc # "idle"
      BY <1>9, TombstoneMoves
    <2>4. QED  BY <2>1, <2>2, <2>3
  <1>10. CASE Remove(r)
    <2>1. req[r].pc \notin Over /\ UNCHANGED hist
      BY <1>10, RemoveMoves DEF Over
    <2>2. \E q : Moved(r, q) /\ q.pc # "idle"
      BY <1>10, RemoveMoves
    <2>3. QED  BY <2>1, <2>2
  <1>11. QED
    BY <1>2, <1>3, <1>4, <1>5, <1>6, <1>7, <1>8, <1>9, <1>10 DEF Step

(* Requests that were ever in flight together know it of each other.       *)
Overlaps ==
    /\ \A x, y \in Reqs : x \in hist.overlap[y] => y \in hist.overlap[x]
    /\ \A x \in Reqs : req[x].pc = "idle" => hist.overlap[x] = {}
    /\ \A x, y \in Reqs : x # y /\ req[x].pc \notin Over /\ req[y].pc \notin Over
                           => x \in hist.overlap[y]

(* What no step takes back.                                                *)
Remembers ==
    /\ hist.wasHidden \subseteq hist'.wasHidden
    /\ \A i \in used \ Chosen : hist'.origin[i] = hist.origin[i]
    /\ \A i \in Ids : hist.writers[i] \subseteq hist'.writers[i]
    /\ \A x, y \in Reqs : x \in hist.overlap[y] => x \in hist'.overlap[y]

LEMMA OverlapsInit ==
    ASSUME Init
    PROVE  Overlaps
  BY DEF Init, NoRequest, Asks, Overlaps, Over

LEMMA OverlapsNext ==
    ASSUME Base, Overlaps, [Next]_vars
    PROVE  Overlaps' /\ Remembers
  <1>1. CASE hist'.overlap = hist.overlap
             /\ \A x \in Reqs : /\ req'[x].pc \notin Over => req[x].pc \notin Over
                                /\ req'[x].pc = "idle" => req[x].pc = "idle"
    <2>1. Overlaps'
      <3>1. PICK o : o = hist.overlap /\ o = hist'.overlap
        BY <1>1
      <3>2. \A x, y \in Reqs : x \in o[y] => y \in o[x]
        BY <3>1 DEF Overlaps
      <3>3. \A x \in Reqs : req'[x].pc = "idle" => o[x] = {}
        BY <1>1, <3>1 DEF Overlaps
      <3>4. \A x, y \in Reqs : x # y /\ req'[x].pc \notin Over /\ req'[y].pc \notin Over => x \in o[y]
        BY <1>1, <3>1 DEF Overlaps
      <3>5. QED  BY <3>1, <3>2, <3>3, <3>4 DEF Overlaps, Over
    <2>2. \A x, y \in Reqs : x \in hist.overlap[y] => x \in hist'.overlap[y]
      BY <1>1
    <2>3. /\ hist.wasHidden \subseteq hist'.wasHidden
          /\ \A i \in used \ Chosen : hist'.origin[i] = hist.origin[i]
          /\ \A i \in Ids : hist.writers[i] \subseteq hist'.writers[i]
      <3>1. CASE UNCHANGED hist
        BY <3>1
      <3>2. CASE \E r \in Reqs : CallFails(r) \/ Step(r)
        BY <3>2, StepHistory
      <3>3. CASE \E r \in Reqs : Begin(r)
        BY <3>3, BeginMoves
      <3>4. QED
        BY <3>1, <3>2, <3>3 DEF Next, vars, Crash, FlushTake, FlushRead, FlushWrite
    <2>4. QED  BY <2>1, <2>2, <2>3 DEF Remembers
  <1>2. CASE \E r \in Reqs : Begin(r)
    <2>1. PICK r \in Reqs : Begin(r)
      BY <1>2
    <2>2. /\ req[r].pc = "idle"
          /\ hist'.origin = hist.origin /\ hist'.wasHidden = hist.wasHidden
          /\ hist'.writers = hist.writers
          /\ \A x \in Reqs : hist'.overlap[x] =
                 IF x = r THEN InFlight
                 ELSE IF x \in InFlight THEN hist.overlap[x] \cup {r} ELSE hist.overlap[x]
      BY <2>1, BeginMoves
    <2>3. PICK q : Moved(r, q) /\ q.pc \in {"embed", "fetch"}
      BY <2>1, BeginMoves
    <2>4. req'[r] = q /\ q.pc \notin Over /\ \A x \in Reqs \ {r} : req'[x] = req[x]
      BY <2>3 DEF Moved, Base, TypeOK, Over
    <2>5. InFlight = {x \in Reqs : req[x].pc \notin Over} /\ r \notin InFlight
      BY <2>2 DEF InFlight, Over
    <2>6. hist.overlap[r] = {} /\ \A x \in Reqs : r \notin hist.overlap[x]
      BY <2>2 DEF Overlaps
    <2> DEFINE o == hist.overlap
               p == hist'.overlap
    <2>7. \A x, y \in Reqs : x \in p[y] <=> \/ x \in o[y]
                                            \/ y = r /\ x \in InFlight
                                            \/ x = r /\ y \in InFlight
      <3>1. SUFFICES ASSUME NEW x \in Reqs, NEW y \in Reqs
                     PROVE  x \in p[y] <=> \/ x \in o[y]
                                           \/ y = r /\ x \in InFlight
                                           \/ x = r /\ y \in InFlight
        OBVIOUS
      <3>2. p[y] = IF y = r THEN InFlight
                   ELSE IF y \in InFlight THEN o[y] \cup {r} ELSE o[y]
        BY <2>2
      <3>3. y = r => o[y] = {}
        BY <2>6
      <3> HIDE DEF p, o
      <3>4. QED  BY <2>5, <3>2, <3>3
    <2>8. \A x, y \in Reqs : x \in o[y] => y \in o[x]
      BY DEF Overlaps
    <2> HIDE DEF p, o
    <2>9. \A x, y \in Reqs : x \in p[y] => y \in p[x]
      BY <2>7, <2>8
    <2>10. \A x, y \in Reqs : x # y /\ req'[x].pc \notin Over /\ req'[y].pc \notin Over
                           => x \in p[y]
      <3>1. \A x, y \in Reqs : x # y /\ req[x].pc \notin Over /\ req[y].pc \notin Over
                           => x \in o[y]
        BY DEF Overlaps, o
      <3>2. QED  BY <2>4, <2>5, <2>7, <3>1
    <2>11. \A x \in Reqs : req'[x].pc = "idle" => p[x] = {}
      <3>1. SUFFICES ASSUME NEW x \in Reqs, req'[x].pc = "idle"  PROVE p[x] = {}
        OBVIOUS
      <3>2. x # r /\ req[x].pc = "idle"
        BY <2>3, <2>4, <3>1
      <3>3. hist.overlap[x] = {} /\ x \notin InFlight
        BY <2>5, <3>2 DEF Overlaps, Over
      <3>4. QED  BY <2>2, <3>2, <3>3 DEF p
    <2>12. Overlaps'
      BY <2>9, <2>10, <2>11 DEF Overlaps, p
    <2>13. Remembers
      BY <2>2, <2>7 DEF Remembers, p, o
    <2>14. QED  BY <2>12, <2>13
  <1>3. CASE \E r \in Reqs : CallFails(r) \/ Step(r)
    <2>1. PICK r \in Reqs : CallFails(r) \/ Step(r)
      BY <1>3
    <2>2. PICK q : Moved(r, q) /\ q.pc # "idle"
      BY <2>1, StepHistory
    <2>3. hist'.overlap = hist.overlap /\ req[r].pc \notin Over
      BY <2>1, StepHistory
    <2>4. req'[r] = q /\ \A x \in Reqs \ {r} : req'[x] = req[x]
      BY <2>2 DEF Moved, Base, TypeOK
    <2>5. QED  BY <1>1, <2>2, <2>3, <2>4
  <1>4. CASE Crash
    BY <1>1, <1>4, CrashMoves DEF Over
  <1>5. CASE \E f \in Flushes : FlushTake(f) \/ FlushRead(f) \/ FlushWrite(f)
    BY <1>1, <1>5, FlushCalls DEF FlushTake, FlushRead, FlushWrite
  <1>6. CASE UNCHANGED vars
    BY <1>1, <1>6 DEF vars
  <1>7. QED  BY <1>2, <1>3, <1>4, <1>5, <1>6 DEF Next

(* A request that goes on stays the request it was.                        *)
LEMMA SameAsker ==
    ASSUME Base, Overlaps, [Next]_vars, NEW x \in Reqs, NEW y \in Reqs, x \in hist.overlap[y]
    PROVE  req'[x].ns = req[x].ns
  <1>1. req[x].pc # "idle"
    BY DEF Overlaps
  <1>2. CASE UNCHANGED req
    BY <1>2
  <1>3. CASE Crash
    BY <1>3, CrashMoves
  <1>4. ASSUME NEW r \in Reqs, Begin(r) \/ CallFails(r) \/ Step(r)
        PROVE  req'[x].ns = req[x].ns
    <2>1. PICK q : Moved(r, q)
      BY <1>4, RequestCalls
    <2>2. CASE x # r
      BY <2>1, <2>2 DEF Moved, Base, TypeOK
    <2>3. CASE x = r
      <3>1. CallFails(r) \/ Step(r)
        BY <1>1, <1>4, <2>3 DEF Begin, At
      <3>2. \E v : Moved(r, v) /\ Alias(r, v)
        BY ZenonT(30), <3>1, PlainMoves, SearchMoves, UpsertMoves, MarkRetrieveMoves, MarkOneMoves, FetchMoves,
           RewriteMoves, TombstoneMoves, RemoveMoves DEF Step
      <3>3. QED  BY <2>3, <3>2 DEF Moved, Alias, Base, TypeOK
    <2>4. QED  BY <2>2, <2>3
  <1>5. QED  BY <1>2, <1>3, <1>4, FlushCalls DEF Next, vars

(* The points a request may write, what it may have missed of them since   *)
(* it looked (a request in flight with it wrote the point), and what it    *)
(* holds of them otherwise.                                                *)
Held(q) == CASE q.pc \in {"rewrite", "tombstone", "untombstone", "remove"} -> {q.id}
             [] q.pc = "marking" -> q.supersedes
             [] q.pc = "upsert" /\ q.op = "storeId" -> {q.id}
             [] OTHER -> {}

Missing(r, i) == hist.writers[i] \cap hist.overlap[r] # {}
Given(r, i)   == \E x \in hist.writers[i] \cap hist.overlap[r] : req[x].ns = points[i].ns

Claim(r, q) ==
    /\ \A i \in Held(q) \cap stored : points[i].ns = q.ns \/ Given(r, i)
    /\ q.pc = "rewrite" =>
          /\ q.seen.ns = q.ns
          /\ q.id \in stored => q.seen.superseded = points[q.id].superseded \/ Missing(r, q.id)
    /\ q.pc = "marking" => q.id \notin q.supersedes
    /\ q.pc \in {"mark", "marking"} /\ q.id \in stored =>
          points[q.id].superseded = NoId \/ Missing(r, q.id)

Claims == \A r \in Reqs : Claim(r, req[r])

(* A step leaves a point its namespace and mark, or is a request's that    *)
(* enters itself as a writer and gives its own namespace at most.          *)
Left(i)      == /\ i \in stored /\ points'[i].ns = points[i].ns
                /\ points'[i].superseded = points[i].superseded
Wrote(r, i)  == /\ req[r].pc \notin Over /\ r \in hist'.writers[i]
                /\ \/ points'[i].ns = req[r].ns
                   \/ i \in stored /\ points'[i].ns = points[i].ns

LEMMA StillLeaves ==
    ASSUME Still
    PROVE  \A i \in stored' : Left(i)
  BY DEF Still, Left

LEMMA PayloadLeaves ==
    ASSUME Base, NEW j \in Ids, NEW p, SetPayload(j, p)
    PROVE  /\ \A i \in stored' : i # j => Left(i)
           /\ j \in stored' => j \in stored /\ points'[j] = p
  BY DEF SetPayload, Left, Base, TypeOK

LEMMA Leaves ==
    ASSUME Base, Claims, NEW r \in Reqs, Begin(r) \/ CallFails(r) \/ Step(r), NEW i \in stored'
    PROVE  Left(i) \/ Wrote(r, i)
  <1>1. /\ Claim(r, req[r]) /\ req[r] \in Request /\ PhaseFits(req[r])
        /\ points \in [Ids -> Point] /\ stored \subseteq Ids /\ used \subseteq Ids
        /\ hist.writers \in [Ids -> SUBSET Reqs]
    BY DEF Claims, Base, TypeOK, History
  <1>2. CASE Still
    BY <1>2, StillLeaves
  <1>3. CASE Upsert(r)
    <2>1. PICK j : /\ j \in Ids /\ req[r].pc = "upsert"
                   /\ UpsertPoint(j, NewPoint(req[r].ns, req[r].content, r))
                   /\ hist' = Inserted(hist, r, j)
      BY <1>3, UpsertMoves
    <2>2. CASE i = j
      <3>1. hist'.writers = WroteBy(r, j)
        BY <2>1, InsertTyped
      <3>2. r \in hist'.writers[i] /\ points'[i].ns = req[r].ns
        BY <1>1, <2>1, <2>2, <3>1 DEF WroteBy, UpsertPoint, NewPoint
      <3>3. QED  BY <2>1, <3>2 DEF Wrote, Over
    <2>3. CASE i # j
      BY <1>1, <2>1, <2>3 DEF UpsertPoint, Left
    <2>4. QED  BY <2>2, <2>3
  <1>4. CASE MarkOne(r) /\ ~ Still
    <2>1. PICK j : /\ j \in req[r].supersedes /\ req[r].pc = "marking"
                   /\ SetPayload(j, AsSuperseded(points[j], req[r].id))
                   /\ hist' = Marked(hist, r, j)
      BY <1>4, MarkOneMoves DEF AsSuperseded
    <2>2. j \in Ids /\ req[r].id \in Ids
      BY <1>1, <2>1 DEF PhaseFits, Collected
    <2>3. CASE i = j
      <3>1. hist'.writers = WroteBy(r, j)
        BY <2>1, <2>2, MarkTyped
      <3>2. points'[j].ns = points[j].ns
        BY <1>1, <2>1, <2>2, <2>3, PayloadLeaves, AsSupersededTyped
      <3>3. r \in hist'.writers[i] /\ i \in stored
        BY <1>1, <2>1, <2>2, <2>3, <3>1, PayloadLeaves DEF WroteBy
      <3>4. QED  BY <2>1, <2>3, <3>2, <3>3 DEF Wrote, Over
    <2>4. QED  BY <2>1, <2>2, <2>3, PayloadLeaves
  <1>5. CASE Rewrite(r)
    <2>1. PICK j, S : /\ j \in Ids /\ j = req[r].id /\ req[r].pc = "rewrite"
                              /\ SetPayload(j, req[r].seen)
                              /\ hist' = Rewrote(CountHits(S), r, j)
      BY <1>5, RewriteMoves
    <2>2. CASE i = j
      <3>1. hist'.writers = WroteBy(r, j)
        BY <2>1, RewriteTyped
      <3>2. points'[i].ns = req[r].ns
        BY <1>1, <2>1, <2>2, PayloadLeaves DEF Claim
      <3>3. r \in hist'.writers[i]
        BY <1>1, <2>1, <2>2, <3>1 DEF WroteBy
      <3>4. QED  BY <2>1, <3>2, <3>3 DEF Wrote, Over
    <2>3. QED  BY <2>1, <2>2, PayloadLeaves
  <1>6. CASE Tombstone(r) \/ Untombstone(r)
    <2>1. PICK j \in Ids, v \in BOOLEAN : SetPayload(j, AsDeleted(points[j], v))
      BY <1>6, TombstoneMoves
    <2>2. /\ AsDeleted(points[j], v).ns = points[j].ns
          /\ AsDeleted(points[j], v).superseded = points[j].superseded
      BY <1>1, <2>1, AsDeletedTyped
    <2>3. QED  BY <2>1, <2>2, PayloadLeaves DEF Left
  <1>7. CASE Remove(r)
    BY <1>1, <1>7, RemoveMoves DEF DeletePoint, Left
  <1>8. QED
    BY <1>2, <1>3, <1>4, <1>5, <1>6, <1>7, RequestCalls

(* What was missed stays missed, and whoever wrote in between was seen.    *)
LEMMA Persists ==
    ASSUME Base, Overlaps, Remembers, [Next]_vars, NEW y \in Reqs, NEW i \in Ids
    PROVE  /\ Missing(y, i) => Missing(y, i)'
           /\ Given(y, i) /\ points'[i].ns = points[i].ns => Given(y, i)'
  <1>1. ASSUME NEW x \in hist.writers[i] \cap hist.overlap[y]
        PROVE  x \in hist'.writers[i] \cap hist'.overlap[y] /\ req'[x].ns = req[x].ns
    <2>1. x \in Reqs
      BY DEF Base, TypeOK, History
    <2>2. QED  BY <2>1, SameAsker DEF Remembers
  <1>2. QED  BY <1>1 DEF Missing, Given

LEMMA Witnessed ==
    ASSUME Base, Overlaps, Remembers, [Next]_vars, NEW y \in Reqs, NEW r \in Reqs, y # r,
           req[y].pc \notin Over, NEW i \in Ids, Wrote(r, i)
    PROVE  /\ Missing(y, i)'
           /\ Given(y, i)' \/ (i \in stored /\ points'[i].ns = points[i].ns)
  <1>1. r \in hist.overlap[y]
    BY DEF Overlaps, Wrote
  <1>2. r \in hist'.writers[i] \cap hist'.overlap[y] /\ req'[r].ns = req[r].ns
    BY <1>1, SameAsker DEF Wrote, Remembers
  <1>3. QED  BY <1>2 DEF Missing, Given, Wrote

(* A request that does not move keeps its claims.                          *)
LEMMA ClaimHolds ==
    ASSUME Base, Claims, Overlaps, Remembers, [Next]_vars, NEW y \in Reqs,
           \A i \in stored' : Left(i) \/ \E r \in Reqs \ {y} : Wrote(r, i),
           NEW q \in Request, q = req[y], q.pc \notin Over
    PROVE  Claim(y, q)'
  <1>1. Claim(y, q) /\ req[y].pc \notin Over
    BY DEF Claims
  <1>2. stored' \subseteq Ids
    BY BaseNext DEF Base, TypeOK
  <1>3. ASSUME NEW i \in Held(q) \cap stored'  PROVE points'[i].ns = q.ns \/ Given(y, i)'
    <2>1. i \in Ids
      BY <1>2
    <2>2. CASE i \in stored /\ points'[i].ns = points[i].ns
      <3>1. points[i].ns = q.ns \/ Given(y, i)
        BY <1>1, <1>3, <2>2 DEF Claim
      <3>2. QED  BY <2>1, <2>2, <3>1, Persists
    <2>3. CASE Given(y, i)'
      BY <2>3
    <2>4. QED  BY <1>1, <1>3, <2>1, <2>2, <2>3, Witnessed DEF Left
  <1>4. ASSUME NEW i \in stored'
        PROVE  Missing(y, i)' \/ (Left(i) /\ (Missing(y, i) => Missing(y, i)'))
    <2>1. i \in Ids
      BY <1>2
    <2>2. QED  BY <1>1, <1>4, <2>1, Persists, Witnessed
  <1>5. ASSUME q.pc = "rewrite", q.id \in stored'
        PROVE  q.seen.superseded = points'[q.id].superseded \/ Missing(y, q.id)'
    BY <1>1, <1>4, <1>5 DEF Claim, Left
  <1>6. ASSUME q.pc \in {"mark", "marking"}, q.id \in stored'
        PROVE  points'[q.id].superseded = NoId \/ Missing(y, q.id)'
    BY <1>1, <1>4, <1>6 DEF Claim, Left
  <1>7. Held(q)' = Held(q)
    BY DEF Held
  <1>8. QED  BY <1>1, <1>3, <1>5, <1>6, <1>7 DEF Claim

LEMMA NothingHeld ==
    ASSUME NEW r, NEW q,
           q.pc \notin {"rewrite", "tombstone", "untombstone", "remove", "marking", "mark"},
           q.pc = "upsert" => q.op # "storeId"
    PROVE  Claim(r, q)'
  <1>1. Held(q) = {}
    BY DEF Held
  <1>2. QED  BY <1>1 DEF Claim, Held

LEMMA ClaimsInit ==
    ASSUME Init
    PROVE  Claims
  BY DEF Init, NoRequest, Asks, Claims, Claim, Held

(* What the request that moves claims.                                     *)
LEMMA MoverClaims ==
    ASSUME Base, Claims, Overlaps, Remembers, [Next]_vars,
           NEW r \in Reqs, Begin(r) \/ CallFails(r) \/ Step(r)
    PROVE  Claim(r, req[r])'
  <1>1. /\ Claim(r, req[r]) /\ req[r] \in Request /\ PhaseFits(req[r])
        /\ points \in [Ids -> Point] /\ stored \subseteq Ids /\ stored \subseteq used
        /\ used \subseteq Ids
    BY DEF Claims, Base, TypeOK
  <1>2. ASSUME NEW q, Moved(r, q), Claim(r, q)'  PROVE Claim(r, req[r])'
    <2>1. req'[r] = q
      BY <1>2 DEF Moved, Base, TypeOK
    <2>2. QED  BY <1>2, <2>1 DEF Claim, Held
  <1>3. CASE Begin(r)
    BY <1>2, <1>3, BeginMoves, NothingHeld
  <1>4. CASE CallFails(r)
    <2>1. "failed" \in Phases
      BY DEF Phases
    <2>2. PICK q : Moved(r, q) /\ q.pc = "failed"
      BY <1>4, <2>1, GotoMoves DEF CallFails
    <2>3. QED  BY <1>2, <2>2, NothingHeld
  <1>5. CASE Search(r)
    <2>1. "done" \in Phases
      BY DEF Phases
    <2>2. PICK q : Moved(r, q) /\ q.pc = "done"
      BY <1>5, <2>1, GotoMoves DEF Search
    <2>3. QED  BY <1>2, <2>2, NothingHeld
  <1>6. CASE AssertIdFree(r)
    <2>1. /\ "failed" \in Phases /\ "upsert" \in Phases /\ Still
          /\ \/ Goto(r, "failed")
             \/ Goto(r, "upsert") /\ IdFree(req[r].id, req[r].ns)
      BY <1>6 DEF Phases, AssertIdFree, Still
    <2>2. PICK q : /\ Moved(r, q) /\ Alias(r, q) /\ q.id = req[r].id
                   /\ q.pc = "failed" \/ (q.pc = "upsert" /\ IdFree(req[r].id, req[r].ns))
      BY <2>1, GotoMoves
    <2>3. Claim(r, q)'
      <3>1. CASE q.pc = "failed"
        BY <3>1, NothingHeld
      <3>2. CASE q.pc = "upsert" /\ IdFree(req[r].id, req[r].ns)
        BY <2>1, <2>2, <3>2 DEF Claim, Held, IdFree, Still, Alias
      <3>3. QED  BY <2>2, <3>1, <3>2
    <2>4. QED  BY <1>2, <2>2, <2>3
  <1>7. CASE SearchTopOne(r)
    <2>1. PICK q : /\ Moved(r, q) /\ Alias(r, q)
                   /\ \/ /\ q.pc = "rewrite" /\ q.id \in stored
                         /\ points[q.id].ns = req[r].ns
                         /\ q.seen \in {Reinforced(points[q.id]), Merged(points[q.id], r)}
                      \/ q.pc = "upsert"
      BY <1>7, SearchMoves
    <2>2. Still /\ req[r].op = "store"
      BY <1>7, SearchMoves
    <2>3. CASE q.pc = "rewrite"
      <3>1. PICK v \in Point : v = points[q.id]
        BY <1>1, <2>1, <2>3
      <3>2. q.seen.ns = v.ns /\ q.seen.superseded = v.superseded
        BY <2>1, <2>3, <3>1 DEF Reinforced, Merged, Point
      <3>3. Claim(r, q)'
        BY <2>1, <2>2, <2>3, <3>1, <3>2 DEF Claim, Held, Still, Alias
      <3>4. QED  BY <1>2, <2>1, <3>3
    <2>4. CASE q.pc = "upsert"
      BY <1>2, <2>1, <2>2, <2>4, NothingHeld DEF Alias
    <2>5. QED  BY <2>1, <2>3, <2>4
  <1>8. CASE Upsert(r)
    <2>1. PICK q, j : /\ Moved(r, q) /\ q.id = j /\ q.pc \in {"inserted", "mark"} /\ j \in Ids
                      /\ UpsertPoint(j, NewPoint(req[r].ns, req[r].content, r))
      BY <1>8, UpsertMoves
    <2>2. points'[j].superseded = NoId
      BY <1>1, <2>1 DEF UpsertPoint, NewPoint
    <2>3. Claim(r, q)'
      BY <2>1, <2>2 DEF Claim, Held
    <2>4. QED  BY <1>2, <2>1, <2>3
  <1>9. CASE MarkRetrieve(r)
    <2>1. PICK q : /\ Moved(r, q) /\ Alias(r, q) /\ q.id = req[r].id
                   /\ q.pc \in {"inserted", "marking"}
                   /\ q.supersedes = {i \in req[r].supersedes \ {req[r].id} :
                                         i \in InNamespace(req[r].ns)}
      BY <1>9, MarkRetrieveMoves
    <2>2. req[r].pc = "mark" /\ Still
      BY <1>9, MarkRetrieveMoves
    <2>3. PICK p \in Ids : p = req[r].id
      BY <1>1, <2>2 DEF PhaseFits, Collected
    <2>4. p \in stored' => points'[p].superseded = NoId \/ Missing(r, p)'
      BY <1>1, <2>2, <2>3, Persists DEF Claim, Still
    <2>5. Claim(r, q)'
      BY <2>1, <2>2, <2>3, <2>4 DEF Claim, Held, InNamespace, Still, Alias
    <2>6. QED  BY <1>2, <2>1, <2>5
  <1>10. CASE MarkOne(r)
    <2>1. PICK q, j : /\ Moved(r, q) /\ Alias(r, q) /\ q.id = req[r].id
                      /\ q.pc \in {"inserted", "marking"}
                      /\ q.supersedes = req[r].supersedes \ {j}
                      /\ j \in req[r].supersedes
                      /\ SetPayload(j, AsSuperseded(points[j], req[r].id)) \/ Still
      BY <1>10, MarkOneMoves DEF AsSuperseded
    <2>2. req[r].pc = "marking"
      BY <1>10, MarkOneMoves
    <2>3. j \in Ids /\ req[r].id \in Ids /\ j # req[r].id /\ req[r].supersedes \subseteq Ids
      BY <1>1, <2>1, <2>2 DEF PhaseFits, Collected, Claim
    <2>4. \A i \in stored' : /\ i \in stored /\ points'[i].ns = points[i].ns
                             /\ i # j => points'[i].superseded = points[i].superseded
      BY <1>1, <2>1, <2>3, PayloadLeaves, StillLeaves, AsSupersededTyped DEF Left
    <2>5. \A i \in req[r].supersedes \cap stored' : points'[i].ns = req[r].ns \/ Given(r, i)'
      BY <1>1, <2>2, <2>3, <2>4, Persists DEF Claim, Held
    <2>6. PICK p \in Ids : p = req[r].id
      BY <2>3
    <2>7. p \in stored' => points'[p].superseded = NoId \/ Missing(r, p)'
      BY <1>1, <2>1, <2>2, <2>3, <2>4, <2>6, Persists DEF Claim
    <2>8. p \notin q.supersedes
      BY <1>1, <2>1, <2>2, <2>6 DEF Claim
    <2>9. Claim(r, q)'
      BY <2>1, <2>5, <2>6, <2>7, <2>8 DEF Claim, Held, Alias
    <2>10. QED  BY <1>2, <2>1, <2>9
  <1>11. CASE Fetch(r)
    <2>1. PICK q : /\ Moved(r, q) /\ Alias(r, q)
                   /\ \/ q.pc \in {"notFound", "done"}
                      \/ /\ q.id \in stored /\ points[q.id].ns = req[r].ns
                         /\ \/ q.pc \in {"tombstone", "untombstone", "remove"}
                            \/ /\ q.pc = "rewrite" /\ req[r].op = "update"
                               /\ q.seen = [points[q.id] EXCEPT !.edit = r]
      BY <1>11, FetchMoves
    <2>2. Still
      BY <1>11, FetchMoves
    <2>3. CASE q.pc = "rewrite"
      <3>1. PICK v \in Point : v = points[q.id]
        BY <1>1, <2>1, <2>3
      <3>2. q.seen.ns = v.ns /\ q.seen.superseded = v.superseded
        BY <2>1, <2>3, <3>1 DEF Point
      <3>3. Claim(r, q)'
        BY <2>1, <2>2, <2>3, <3>1, <3>2 DEF Claim, Held, Still, Alias
      <3>4. QED  BY <1>2, <2>1, <3>3
    <2>4. CASE q.pc \in {"tombstone", "untombstone", "remove"}
      <3>1. Claim(r, q)'
        BY <2>1, <2>2, <2>4 DEF Claim, Held, Still, Alias
      <3>2. QED  BY <1>2, <2>1, <3>1
    <2>5. CASE q.pc \in {"notFound", "done"}
      BY <1>2, <2>1, <2>5, NothingHeld
    <2>6. QED  BY <2>1, <2>3, <2>4, <2>5
  <1>12. CASE Rewrite(r)
    BY <1>2, <1>12, RewriteMoves, NothingHeld
  <1>13. CASE Tombstone(r) \/ Untombstone(r)
    BY <1>2, <1>13, TombstoneMoves, NothingHeld
  <1>14. CASE Remove(r)
    BY <1>2, <1>14, RemoveMoves, NothingHeld
  <1>15. QED
    BY <1>3, <1>4, <1>5, <1>6, <1>7, <1>8, <1>9, <1>10, <1>11, <1>12, <1>13, <1>14 DEF Step

LEMMA ClaimsNext ==
    ASSUME Base, Claims, Overlaps, [Next]_vars
    PROVE  Claims'
  <1>1. Remembers
    BY OverlapsNext
  <1>2. ASSUME NEW y \in Reqs, req'[y] = req[y],
               \A i \in stored' : Left(i) \/ \E r \in Reqs \ {y} : Wrote(r, i)
        PROVE  Claim(y, req[y])'
    <2>1. PICK q \in Request : q = req[y]
      BY DEF Base, TypeOK
    <2>2. CASE q.pc \in Over
      <3>1. Claim(y, q)'
        BY <2>2, NothingHeld DEF Over
      <3>2. QED  BY <1>2, <2>1, <3>1 DEF Claim, Held
    <2>3. CASE q.pc \notin Over
      <3>1. Claim(y, q)'
        BY <1>1, <1>2, <2>1, <2>3, ClaimHolds
      <3>2. QED  BY <1>2, <2>1, <3>1 DEF Claim, Held
    <2>4. QED  BY <2>2, <2>3
  <1>3. CASE Still /\ UNCHANGED req
    BY <1>2, <1>3, StillLeaves DEF Claims
  <1>4. CASE Crash
    <2>1. \A y \in Reqs : req'[y].pc \in Over
      BY <1>4, CrashMoves DEF Over
    <2>2. QED  BY <2>1 DEF Claims, Claim, Held, Over
  <1>5. CASE \E f \in Flushes : FlushTake(f) \/ FlushRead(f) \/ FlushWrite(f)
    <2>1. UNCHANGED req
      BY <1>5, FlushCalls
    <2>2. CASE \E j \in Ids, n \in Nat : SetPayload(j, AsCounted(points[j], n))
      <3>1. PICK j \in Ids, n \in Nat : SetPayload(j, AsCounted(points[j], n))
        BY <2>2
      <3>2. /\ AsCounted(points[j], n).ns = points[j].ns
            /\ AsCounted(points[j], n).superseded = points[j].superseded
        BY <3>1, AsCountedTyped DEF Base, TypeOK
      <3>3. \A i \in stored' : Left(i)
        BY <3>1, <3>2, PayloadLeaves DEF Left
      <3>4. QED  BY <1>2, <2>1, <3>3 DEF Claims
    <2>3. QED  BY <1>3, <1>5, <2>1, <2>2, FlushCalls
  <1>6. ASSUME NEW r \in Reqs, Begin(r) \/ CallFails(r) \/ Step(r)  PROVE Claims'
    <2>1. PICK q : Moved(r, q)
      BY <1>6, RequestCalls
    <2>2. \A i \in stored' : Left(i) \/ Wrote(r, i)
      BY <1>6, Leaves
    <2>3. ASSUME NEW y \in Reqs, y # r  PROVE Claim(y, req[y])'
      <3>1. req'[y] = req[y]
        BY <2>1, <2>3 DEF Moved, Base, TypeOK
      <3>2. QED  BY <1>2, <2>2, <2>3, <3>1
    <2>4. Claim(r, req[r])'
      BY <1>1, <1>6, MoverClaims
    <2>5. QED  BY <2>3, <2>4 DEF Claims
  <1>7. QED  BY <1>3, <1>4, <1>5, <1>6 DEF Next, vars, Still

(* A request changes or removes a point of another namespace only when one *)
(* in flight with it gave the point to that namespace after it had looked, *)
(* whatever ids the callers choose (service.ts, fetchOwned,                *)
(* assertIdFreeForNamespace, markSuperseded).                              *)
THEOREM OwnNamespace == Spec => OwnNamespaceOnly
  <1> DEFINE Own == \A r \in Reqs, i \in stored :
                req'[r] # req[r] /\ (i \notin stored' \/ points'[i] # points[i])
                   => \/ points[i].ns = req[r].ns
                      \/ \E q \in hist.writers[i] \cap hist.overlap[r] : req[q].ns = points[i].ns
  <1>1. ASSUME Base, Claims, [Next]_vars  PROVE [Own]_vars
    <2>1. SUFFICES ASSUME NEW x \in Reqs, NEW i \in stored, req'[x] # req[x],
                          i \notin stored' \/ points'[i] # points[i]
                   PROVE  points[i].ns = req[x].ns \/ Given(x, i)
      BY DEF Given
    <2>2. ~ UNCHANGED vars /\ ~ Crash
      BY <1>1, <2>1, CrashMoves DEF vars, Still
    <2>3. PICK r \in Reqs : Begin(r) \/ CallFails(r) \/ Step(r)
      BY <1>1, <2>1, <2>2, FlushCalls DEF Next
    <2>4. x = r
      BY <1>1, <2>1, <2>3, RequestCalls DEF Moved, Base, TypeOK
    <2>5. /\ Claim(r, req[r]) /\ PhaseFits(req[r]) /\ points \in [Ids -> Point]
          /\ stored \subseteq Ids /\ stored \subseteq used /\ used \subseteq Ids
      BY <1>1 DEF Claims, Base, TypeOK
    <2>6. ~ Still
      BY <2>1 DEF Still
    <2>7. i \in Held(req[r])
      <3>1. CASE Upsert(r)
        <4>1. PICK j : /\ UpsertPoint(j, NewPoint(req[r].ns, req[r].content, r))
                       /\ req[r].pc = "upsert"
                       /\ req[r].op = "storeId" => j = req[r].id
                       /\ req[r].op # "storeId" => j \in FreshIds
          BY <1>1, <3>1, UpsertMoves
        <4>2. i = j
          BY <2>1, <2>5, <4>1 DEF UpsertPoint
        <4>3. QED  BY <2>5, <4>1, <4>2 DEF Held, FreshIds, Named
      <3>2. CASE MarkOne(r)
        <4>1. PICK j : /\ j \in req[r].supersedes /\ req[r].pc = "marking"
                       /\ SetPayload(j, [points[j] EXCEPT !.superseded = req[r].id])
          BY <1>1, <2>6, <3>2, MarkOneMoves
        <4>2. QED  BY <2>1, <2>5, <4>1 DEF SetPayload, Held
      <3>3. CASE Rewrite(r)
        BY <1>1, <2>1, <2>5, <3>3, RewriteMoves DEF SetPayload, Held
      <3>4. CASE Tombstone(r) \/ Untombstone(r)
        <4>1. PICK p : SetPayload(req[r].id, p) /\ req[r].pc \in {"tombstone", "untombstone"}
          BY <1>1, <3>4, TombstoneMoves
        <4>2. QED  BY <2>1, <2>5, <4>1 DEF SetPayload, Held
      <3>5. CASE Remove(r)
        BY <1>1, <2>1, <2>5, <3>5, RemoveMoves DEF DeletePoint, Held
      <3>6. QED  BY <1>1, <2>3, <2>6, <3>1, <3>2, <3>3, <3>4, <3>5, RequestCalls
    <2>8. QED  BY <2>4, <2>5, <2>7 DEF Claim
  <1>2. Init => Base /\ Claims /\ Overlaps
    BY BaseInit, ClaimsInit, OverlapsInit
  <1>3. Base /\ Claims /\ Overlaps /\ [Next]_vars => (Base /\ Claims /\ Overlaps)'
    BY BaseNext, ClaimsNext, OverlapsNext
  <1>4. Base /\ Claims /\ [Next]_vars => [Own]_vars
    <2> HIDE DEF Own
    <2>1. QED  BY <1>1
  <1>5. Spec => [][Own]_vars
    <2> HIDE DEF Own
    <2>1. QED  BY <1>2, <1>3, <1>4, PTL DEF Spec
  <1>6. QED  BY <1>5, PTL DEF OwnNamespaceOnly

(* Sets whose writers did not meet had not met before.                     *)
LEMMA RacedStays ==
    ASSUME Base, Remembers, NEW S \in SUBSET Ids, Raced(S)
    PROVE  Raced(S)'
  <1>1. PICK i \in S, j \in S : \E q \in hist.writers[i], r \in hist.writers[j] : q \in hist.overlap[r]
    BY DEF Raced
  <1>0. PICK q \in hist.writers[i], r \in hist.writers[j] : q \in hist.overlap[r]
    BY <1>1
  <1>2. q \in Reqs /\ r \in Reqs
    BY <1>0 DEF Base, TypeOK, History
  <1>3. q \in hist'.writers[i] /\ r \in hist'.writers[j] /\ q \in hist'.overlap[r]
    BY <1>0, <1>2 DEF Remembers
  <1>4. QED  BY <1>3 DEF Raced

(* A mark or a rewrite closes no cycle: what it did not miss is as it was  *)
(* read, and what it missed was written by a request it met.               *)
LEMMA HeadNext ==
    ASSUME Base, Claims, Overlaps, SupersessionHasHead, [Next]_vars,
           NEW S \in SUBSET stored', S # {}, ~ Raced(S)'
    PROVE  \E i \in S : points'[i].superseded \notin S
  <1>1. /\ Remembers /\ Base' /\ NoId \notin Ids
        /\ points \in [Ids -> Point] /\ stored \subseteq Ids /\ stored' \subseteq Ids
        /\ hist.writers \in [Ids -> SUBSET Reqs]
    BY BaseNext, OverlapsNext, IdsAssumption DEF Base, TypeOK, History
  <1>2. ~ Raced(S)
    BY <1>1, RacedStays
  <1>3. ASSUME S \subseteq stored, \A i \in S : points'[i].superseded = points[i].superseded
        PROVE  \E i \in S : points'[i].superseded \notin S
    <2>1. PICK i \in S : points[i].superseded \notin S
      BY <1>2, <1>3 DEF SupersessionHasHead
    <2>2. QED  BY <1>3, <2>1
  <1>4. ASSUME NEW r \in Reqs, NEW i \in S, NEW j \in S, r \in hist'.writers[i]
        PROVE  ~ Missing(r, j)
    <2>1. SUFFICES ASSUME NEW x \in hist.writers[j] \cap hist.overlap[r]  PROVE FALSE
      BY DEF Missing
    <2>2. x \in hist'.writers[j] /\ x \in hist'.overlap[r]
      <3>1. x \in Reqs /\ j \in Ids
        BY <1>1, <2>1
      <3>2. QED  BY <1>1, <2>1, <3>1 DEF Remembers
    <2>3. QED  BY <1>4, <2>2 DEF Raced
  <1>5. CASE Still
    BY <1>3, <1>5 DEF Still
  <1>6. CASE UNCHANGED vars \/ Crash
    BY <1>5, <1>6, CrashMoves DEF vars, Still
  <1>7. CASE \E f \in Flushes : FlushTake(f) \/ FlushRead(f) \/ FlushWrite(f)
    <2>1. CASE \E j \in Ids, n \in Nat : SetPayload(j, AsCounted(points[j], n))
      <3>1. PICK j \in Ids, n \in Nat : SetPayload(j, AsCounted(points[j], n))
        BY <2>1
      <3>2. AsCounted(points[j], n).superseded = points[j].superseded
        BY <1>1, <3>1, AsCountedTyped
      <3>3. \A i \in stored' : i \in stored /\ points'[i].superseded = points[i].superseded
        BY <3>1, <3>2, PayloadLeaves DEF Left
      <3>4. QED  BY <1>3, <3>3
    <2>2. QED  BY <1>5, <1>7, <2>1, FlushCalls
  <1>8. ASSUME NEW r \in Reqs, Begin(r) \/ CallFails(r) \/ Step(r)
        PROVE  \E i \in S : points'[i].superseded \notin S
    <2>1. Claim(r, req[r]) /\ PhaseFits(req[r]) /\ used \subseteq Ids
      BY DEF Claims, Base, TypeOK
    <2>2. CASE Upsert(r)
      <3>1. PICK j : j \in Ids /\ UpsertPoint(j, NewPoint(req[r].ns, req[r].content, r))
        BY <2>2, UpsertMoves
      <3>2. points'[j].superseded = NoId
        BY <1>1, <3>1 DEF UpsertPoint, NewPoint
      <3>3. CASE j \in S
        BY <1>1, <3>2, <3>3
      <3>4. CASE j \notin S
        BY <1>1, <1>3, <3>1, <3>4 DEF UpsertPoint
      <3>5. QED  BY <3>3, <3>4
    <2>3. CASE MarkOne(r) /\ ~ Still
      <3>1. PICK j : /\ j \in req[r].supersedes /\ req[r].pc = "marking"
                     /\ SetPayload(j, AsSuperseded(points[j], req[r].id))
                     /\ hist' = Marked(hist, r, j)
        BY <2>3, MarkOneMoves DEF AsSuperseded
      <3>2. PICK p \in Ids : p = req[r].id /\ j \in Ids /\ j # p
        BY <2>1, <3>1 DEF PhaseFits, Collected, Claim
      <3>3. AsSuperseded(points[j], p).superseded = p
        <4>1. points[j] \in Point /\ p \in Ids \cup {NoId}
          BY <1>1, <3>2
        <4>2. QED  BY <4>1, AsSupersededTyped
      <3>4. /\ S \subseteq stored
            /\ \A i \in S : i # j => points'[i].superseded = points[i].superseded
            /\ j \in S => points'[j].superseded = p
        BY <3>1, <3>2, <3>3, PayloadLeaves DEF Left
      <3>5. CASE j \notin S
        BY <1>3, <3>4, <3>5
      <3>6. CASE j \in S /\ p \notin S
        BY <3>4, <3>6
      <3>7. CASE j \in S /\ p \in S
        <4>1. r \in hist'.writers[j]
          <5>1. hist'.writers = WroteBy(r, j)
            BY <3>1, <3>2, MarkTyped
          <5>2. QED  BY <1>1, <3>2, <5>1 DEF WroteBy
        <4>2. ~ Missing(r, p)
          BY <1>4, <3>7, <4>1
        <4>3. points[p].superseded = NoId
          BY <2>1, <3>1, <3>2, <3>4, <3>7, <4>2 DEF Claim
        <4>4. QED  BY <1>1, <3>2, <3>4, <3>7, <4>3
      <3>8. QED  BY <3>5, <3>6, <3>7
    <2>4. CASE Rewrite(r)
      <3>1. PICK j, T : /\ j \in Ids /\ j = req[r].id /\ req[r].pc = "rewrite"
                                /\ SetPayload(j, req[r].seen)
                                /\ hist' = Rewrote(CountHits(T), r, j)
        BY <2>4, RewriteMoves
      <3>2. /\ S \subseteq stored
            /\ \A i \in S : i # j => points'[i].superseded = points[i].superseded
            /\ j \in S => points'[j].superseded = req[r].seen.superseded
        BY <3>1, PayloadLeaves DEF Left
      <3>3. j \in S => points'[j].superseded = points[j].superseded
        <4>1. SUFFICES ASSUME j \in S  PROVE points'[j].superseded = points[j].superseded
          OBVIOUS
        <4>2. r \in hist'.writers[j]
          <5>1. hist'.writers = WroteBy(r, j)
            BY <3>1, RewriteTyped
          <5>2. QED  BY <1>1, <3>1, <5>1 DEF WroteBy
        <4>3. ~ Missing(r, j)
          BY <1>4, <4>1, <4>2
        <4>4. QED  BY <2>1, <3>1, <3>2, <4>1, <4>3 DEF Claim
      <3>4. QED  BY <1>3, <3>2, <3>3
    <2>5. CASE Tombstone(r) \/ Untombstone(r)
      <3>1. PICK j \in Ids, v \in BOOLEAN : SetPayload(j, AsDeleted(points[j], v))
        BY <2>5, TombstoneMoves
      <3>2. AsDeleted(points[j], v).superseded = points[j].superseded
        BY <1>1, <3>1, AsDeletedTyped
      <3>3. \A i \in stored' : i \in stored /\ points'[i].superseded = points[i].superseded
        BY <3>1, <3>2, PayloadLeaves DEF Left
      <3>4. QED  BY <1>3, <3>3
    <2>6. CASE Remove(r)
      <3>1. \A i \in stored' : i \in stored /\ points'[i].superseded = points[i].superseded
        BY <1>1, <2>6, RemoveMoves DEF DeletePoint
      <3>2. QED  BY <1>3, <3>1
    <2>7. QED  BY <1>5, <1>8, <2>2, <2>3, <2>4, <2>5, <2>6, RequestCalls
  <1>9. QED  BY <1>6, <1>7, <1>8 DEF Next

(* Whatever ids the callers choose, store again and name as superseded, no *)
(* set of memories is hidden by one another unless requests that wrote     *)
(* them were in flight together (service.ts, markSuperseded).              *)
THEOREM Supersession == Spec => []SupersessionHasHead
  <1> DEFINE Inv == Base /\ Claims /\ Overlaps /\ SupersessionHasHead
  <1>1. Init => Inv
    <2>1. SUFFICES ASSUME Init  PROVE SupersessionHasHead
      BY BaseInit, ClaimsInit, OverlapsInit
    <2>2. NoId \notin stored /\ \A i \in stored : points[i].superseded = NoId
      BY <2>1, IdsAssumption DEF Init, Blank, NewPoint
    <2>3. QED  BY <2>2 DEF SupersessionHasHead
  <1>2. Inv /\ [Next]_vars => Inv'
    <2>1. SUFFICES ASSUME Inv, [Next]_vars  PROVE SupersessionHasHead'
      BY BaseNext, ClaimsNext, OverlapsNext
    <2>2. QED  BY <2>1, HeadNext DEF SupersessionHasHead
  <1>3. Inv => SupersessionHasHead
    OBVIOUS
  <1> HIDE DEF Inv
  <1>4. QED  BY <1>1, <1>2, <1>3, PTL DEF Spec

-----------------------------------------------------------------------------
(* Everything hidden, and every hidden record about to be written back, is *)
(* in the history; the ids in use are finitely many.                       *)
NoteFits(q) == q.pc = "rewrite" /\ Hidden(q.seen) => q.id \in hist.wasHidden
NoteAt(i)   == i \in stored /\ Hidden(points[i]) => i \in hist.wasHidden

Noted ==
    /\ IsFiniteSet(used) /\ hist.wasHidden \subseteq used
    /\ \A i \in Ids : NoteAt(i)
    /\ \A r \in Reqs : NoteFits(req[r])

LEMMA NotedFrom ==
    ASSUME Base, Base', Noted, Remembers, IsFiniteSet(used'), hist'.wasHidden \subseteq used',
           NEW r \in Reqs, NEW q, Moved(r, q), NoteFits(q)', \A i \in Ids : NoteAt(i)'
    PROVE  Noted'
  <1>1. req'[r] = q /\ \A y \in Reqs \ {r} : req'[y] = req[y]
    BY DEF Moved, Base, TypeOK
  <1>2. ASSUME NEW y \in Reqs  PROVE NoteFits(req[y])'
    <2>1. CASE y = r
      BY <1>1, <2>1 DEF NoteFits
    <2>2. CASE y # r
      <3>1. req'[y] = req[y] /\ NoteFits(req[y])
        BY <1>1, <2>2 DEF Noted
      <3>2. QED  BY <3>1 DEF NoteFits, Remembers, Hidden
    <2>3. QED  BY <2>1, <2>2
  <1>3. QED  BY <1>2 DEF Noted

LEMMA StillNotes ==
    ASSUME Noted, Remembers, Still
    PROVE  \A i \in Ids : NoteAt(i)'
  BY DEF Noted, NoteAt, Remembers, Still, Hidden

LEMMA PayloadNotes ==
    ASSUME Base, Noted, Remembers, NEW j \in Ids, NEW p, SetPayload(j, p),
           j \in stored /\ Hidden(p) => j \in hist'.wasHidden
    PROVE  \A i \in Ids : NoteAt(i)'
  <1>1. ASSUME NEW i \in Ids  PROVE NoteAt(i)'
    <2>1. stored' = stored /\ points \in [Ids -> Point] /\ NoteAt(i)
      BY DEF SetPayload, Base, TypeOK, Noted
    <2>2. CASE i = j /\ j \in stored
      <3>1. points'[i] = p
        BY <2>1, <2>2 DEF SetPayload
      <3>2. Hidden(points[i])' = Hidden(p)
        BY <3>1 DEF Hidden
      <3>3. QED  BY <2>2, <3>2 DEF NoteAt
    <2>3. CASE ~(i = j /\ j \in stored)
      <3>1. points'[i] = points[i]
        BY <2>1, <2>3 DEF SetPayload
      <3>2. QED  BY <2>1, <3>1 DEF NoteAt, Hidden, Remembers
    <2>4. QED  BY <2>2, <2>3
  <1>2. QED  BY <1>1

LEMMA RequestNotes ==
    ASSUME Base, Base', Noted, Remembers, NEW r \in Reqs, Begin(r) \/ CallFails(r) \/ Step(r)
    PROVE  Noted'
  <1>1. req[r] \in Request /\ PhaseFits(req[r]) /\ points \in [Ids -> Point]
        /\ used \subseteq Ids /\ stored \subseteq used /\ NoteFits(req[r])
        /\ IsFiniteSet(used) /\ hist.wasHidden \subseteq used
    BY DEF Base, TypeOK, Noted
  <1>2. hist'.wasHidden \subseteq hist.wasHidden \cup used
    BY StepHistory, BeginMoves
  <1>3. ASSUME NEW q, q.pc # "rewrite"  PROVE NoteFits(q)'
    BY <1>3 DEF NoteFits
  <1>4. ASSUME Still, NEW q, Moved(r, q), NoteFits(q)'
        PROVE  Noted'
    <2>1. \A i \in Ids : NoteAt(i)'
      BY <1>4, StillNotes
    <2>2. IsFiniteSet(used') /\ hist'.wasHidden \subseteq used'
      BY <1>1, <1>2, <1>4 DEF Still
    <2>3. QED  BY <1>4, <2>1, <2>2, NotedFrom
  <1>5. ASSUME NEW j \in Ids, NEW p, SetPayload(j, p),
               j \in stored /\ Hidden(p) => j \in hist'.wasHidden,
               NEW q, Moved(r, q), NoteFits(q)'
        PROVE  Noted'
    <2>1. \A i \in Ids : NoteAt(i)'
      BY <1>5, PayloadNotes
    <2>2. IsFiniteSet(used') /\ hist'.wasHidden \subseteq used'
      BY <1>1, <1>2, <1>5 DEF SetPayload
    <2>3. QED  BY <1>5, <2>1, <2>2, NotedFrom
  <1>6. CASE Begin(r)
    <2>1. PICK q : Moved(r, q) /\ q.pc \in {"embed", "fetch"}
      BY <1>6, BeginMoves
    <2>2. q.pc # "rewrite" /\ Still
      BY <1>6, <2>1, BeginMoves
    <2>3. QED  BY <1>3, <1>4, <2>1, <2>2
  <1>7. CASE AssertIdFree(r) \/ CallFails(r) \/ Search(r)
    <2>1. PICK q : Moved(r, q) /\ q.pc \in {"failed", "done", "upsert"}
      BY <1>7, PlainMoves
    <2>2. q.pc # "rewrite" /\ Still
      BY <1>7, <2>1, PlainMoves
    <2>3. QED  BY <1>3, <1>4, <2>1, <2>2
  <1>8. CASE SearchTopOne(r)
    <2>1. PICK q : /\ Moved(r, q)
                   /\ \/ /\ q.pc = "rewrite" /\ q.id \in stored
                         /\ ~Hidden(points[q.id])
                         /\ q.seen \in {Reinforced(points[q.id]), Merged(points[q.id], r)}
                      \/ q.pc = "upsert"
      BY <1>8, SearchMoves
    <2>2. Still
      BY <1>8, SearchMoves
    <2>3. ASSUME q.pc = "rewrite"  PROVE ~ Hidden(q.seen)
      <3>1. PICK v \in Point : v = points[q.id]
        BY <1>1, <2>1, <2>3
      <3>2. q.seen.superseded = v.superseded /\ q.seen.deleted = v.deleted
        BY <2>1, <2>3, <3>1 DEF Reinforced, Merged, Point
      <3>3. QED  BY <2>1, <2>3, <3>1, <3>2 DEF Hidden
    <2>4. NoteFits(q)'
      <3>1. CASE q.pc = "rewrite"
        BY <2>3, <3>1 DEF NoteFits, Hidden
      <3>2. QED  BY <1>3, <3>1
    <2>5. QED  BY <1>4, <2>1, <2>2, <2>4
  <1>9. CASE Upsert(r)
    <2>1. PICK q, n : /\ Moved(r, q) /\ q.pc \in {"inserted", "mark"} /\ n \in Ids
                      /\ UpsertPoint(n, NewPoint(req[r].ns, req[r].content, r))
      BY <1>9, UpsertMoves
    <2>2. NoteFits(q)'
      <3>1. q.pc # "rewrite"
        BY <2>1
      <3>2. QED  BY <1>3, <3>1
    <2>3. ASSUME NEW i \in Ids  PROVE NoteAt(i)'
      <3>1. CASE i = n
        <4>1. points'[i] = NewPoint(req[r].ns, req[r].content, r)
          BY <1>1, <2>1, <3>1 DEF UpsertPoint
        <4>2. points'[i].superseded = NoId /\ points'[i].deleted = FALSE
          BY <4>1 DEF NewPoint
        <4>3. QED  BY <4>2 DEF NoteAt, Hidden
      <3>2. CASE i # n
        <4>1. points'[i] = points[i] /\ (i \in stored' <=> i \in stored)
          BY <1>1, <2>1, <3>2 DEF UpsertPoint
        <4>2. NoteAt(i)
          BY DEF Noted
        <4>3. QED  BY <4>1, <4>2 DEF NoteAt, Hidden, Remembers
      <3>3. QED  BY <3>1, <3>2
    <2>4. IsFiniteSet(used') /\ hist'.wasHidden \subseteq used'
      <3>1. used' = used \cup {n}
        BY <2>1 DEF UpsertPoint
      <3>2. IsFiniteSet(used \cup {n})
        BY <1>1, FS_AddElement
      <3>3. QED  BY <1>1, <1>2, <3>1, <3>2
    <2>5. QED  BY <2>1, <2>2, <2>3, <2>4, NotedFrom
  <1>10. CASE MarkRetrieve(r)
    <2>1. PICK q : Moved(r, q) /\ q.pc \in {"inserted", "marking"}
      BY <1>10, MarkRetrieveMoves
    <2>2. q.pc # "rewrite" /\ Still
      BY <1>10, <2>1, MarkRetrieveMoves
    <2>3. QED  BY <1>3, <1>4, <2>1, <2>2
  <1>11. CASE MarkOne(r)
    <2>1. PICK q, i : /\ Moved(r, q) /\ q.pc \in {"inserted", "marking"}
                      /\ i \in req[r].supersedes
                      /\ \/ /\ SetPayload(i, [points[i] EXCEPT !.superseded = req[r].id])
                            /\ hist' = Marked(hist, r, i)
                         \/ Still
      BY <1>11, MarkOneMoves
    <2>2. i \in Ids
      BY <1>1, <1>11, <2>1, MarkOneMoves DEF PhaseFits
    <2>3. NoteFits(q)'
      <3>1. q.pc # "rewrite"
        BY <2>1
      <3>2. QED  BY <1>3, <3>1
    <2>4. CASE Still
      BY <1>4, <2>1, <2>3, <2>4
    <2>5. CASE /\ SetPayload(i, AsSuperseded(points[i], req[r].id))
               /\ hist' = Marked(hist, r, i)
      <3>1. i \in hist'.wasHidden
        BY <2>2, <2>5, MarkTyped
      <3>2. QED  BY <1>5, <2>1, <2>2, <2>3, <2>5, <3>1
    <2>6. QED  BY <2>1, <2>4, <2>5 DEF AsSuperseded
  <1>12. CASE Fetch(r)
    <2>1. PICK q : /\ Moved(r, q)
                   /\ \/ q.pc \in {"notFound", "done"}
                      \/ /\ q.id \in stored
                         /\ \/ q.pc \in {"tombstone", "untombstone", "remove"}
                            \/ /\ q.pc = "rewrite"
                               /\ q.seen = [points[q.id] EXCEPT !.edit = r]
      BY <1>12, FetchMoves
    <2>2. Still
      BY <1>12, FetchMoves
    <2>3. ASSUME q.pc = "rewrite", Hidden(q.seen)  PROVE q.id \in hist.wasHidden
      <3>1. q.id \in stored /\ q.id \in Ids
        BY <1>1, <2>1, <2>3
      <3>2. PICK v \in Point : v = points[q.id]
        BY <1>1, <3>1
      <3>3. q.seen.superseded = v.superseded /\ q.seen.deleted = v.deleted
        BY <2>1, <2>3, <3>2 DEF Point
      <3>4. Hidden(points[q.id])
        BY <2>3, <3>2, <3>3 DEF Hidden
      <3>5. QED  BY <3>1, <3>4 DEF Noted, NoteAt
    <2>4. NoteFits(q)'
      <3>1. CASE q.pc = "rewrite"
        BY <2>3, <3>1 DEF NoteFits, Hidden, Remembers
      <3>2. QED  BY <1>3, <3>1
    <2>5. QED  BY <1>4, <2>1, <2>2, <2>4
  <1>13. CASE Rewrite(r)
    <2>1. /\ req[r].pc = "rewrite" /\ req[r].id \in Ids
          /\ SetPayload(req[r].id, req[r].seen)
      BY <1>13, RewriteMoves
    <2>2. PICK q : Moved(r, q) /\ q.pc \in {"matched", "done"}
      BY <1>13, RewriteMoves
    <2>3. Hidden(req[r].seen) => req[r].id \in hist'.wasHidden
      BY <1>1, <2>1 DEF NoteFits, Remembers
    <2>4. NoteFits(q)'
      <3>1. q.pc # "rewrite"
        BY <2>2
      <3>2. QED  BY <1>3, <3>1
    <2>5. QED  BY <1>5, <2>1, <2>2, <2>3, <2>4
  <1>14. CASE Tombstone(r) \/ Untombstone(r)
    <2>1. PICK v \in BOOLEAN :
             /\ SetPayload(req[r].id, AsDeleted(points[req[r].id], v))
             /\ req[r].id \in Ids
             /\ v => hist' = [hist EXCEPT !.wasHidden = @ \cup {req[r].id}]
      BY <1>14, TombstoneMoves
    <2>2. PICK q : Moved(r, q) /\ q.pc = "done"
      BY <1>14, TombstoneMoves
    <2>3. CASE v
      <3>1. req[r].id \in hist'.wasHidden
        BY <2>1, <2>3, HideKeeps
      <3>2. QED  BY <1>3, <1>5, <2>1, <2>2, <3>1
    <2>4. CASE ~v
      <3>1. /\ AsDeleted(points[req[r].id], v).superseded = points[req[r].id].superseded
            /\ AsDeleted(points[req[r].id], v).deleted = v
        BY <1>1, <2>1, AsDeletedTyped
      <3>2. Hidden(AsDeleted(points[req[r].id], v)) => Hidden(points[req[r].id])
        BY <2>4, <3>1 DEF Hidden
      <3>3. req[r].id \in stored /\ Hidden(points[req[r].id]) => req[r].id \in hist'.wasHidden
        BY <2>1 DEF Noted, NoteAt, Remembers
      <3>4. QED  BY <1>3, <1>5, <2>1, <2>2, <3>2, <3>3
    <2>5. QED  BY <2>3, <2>4
  <1>15. CASE Remove(r)
    <2>1. DeletePoint(req[r].id) /\ req[r].id \in Ids
      BY <1>15, RemoveMoves
    <2>2. PICK q : Moved(r, q) /\ q.pc = "done"
      BY <1>15, RemoveMoves
    <2>3. NoteFits(q)'
      BY <1>3, <2>2
    <2>4. ASSUME NEW i \in Ids  PROVE NoteAt(i)'
      <3>1. i \in stored' => i \in stored /\ points'[i] = points[i]
        BY <1>1, <2>1 DEF DeletePoint
      <3>2. NoteAt(i)
        BY DEF Noted
      <3>3. QED  BY <3>1, <3>2 DEF NoteAt, Hidden, Remembers
    <2>5. IsFiniteSet(used') /\ hist'.wasHidden \subseteq used'
      BY <1>1, <1>2, <2>1 DEF DeletePoint
    <2>6. QED  BY <2>2, <2>3, <2>4, <2>5, NotedFrom
  <1>16. QED
    BY <1>6, <1>7, <1>8, <1>9, <1>10, <1>11, <1>12, <1>13, <1>14, <1>15 DEF Step

LEMMA NotedNext ==
    ASSUME Base, Base', Noted, Remembers, [Next]_vars
    PROVE  Noted'
  <1>1. CASE Still /\ UNCHANGED hist
             /\ \A r \in Reqs : req'[r] = req[r] \/ req'[r].pc # "rewrite"
    <2>1. \A i \in Ids : NoteAt(i)'
      BY <1>1, StillNotes
    <2>2. \A r \in Reqs : NoteFits(req[r])'
      BY <1>1 DEF Noted, NoteFits, Hidden
    <2>3. QED  BY <1>1, <2>1, <2>2 DEF Noted, Still
  <1>2. CASE UNCHANGED vars
    BY <1>1, <1>2 DEF vars, Still
  <1>3. CASE Crash
    <2>1. Still /\ UNCHANGED hist /\ \A r \in Reqs : req'[r].pc \in Over
      BY <1>3, CrashMoves DEF Over
    <2>2. \A r \in Reqs : req'[r].pc # "rewrite"
      BY <2>1 DEF Over
    <2>3. QED  BY <1>1, <2>1, <2>2
  <1>4. CASE \E f \in Flushes : FlushTake(f) \/ FlushRead(f) \/ FlushWrite(f)
    <2>1. UNCHANGED req /\ UNCHANGED hist
      BY <1>4, FlushCalls DEF FlushTake, FlushRead, FlushWrite
    <2>2. CASE Still
      BY <1>1, <2>1, <2>2
    <2>3. CASE \E i \in Ids, n \in Nat : SetPayload(i, AsCounted(points[i], n))
      <3>1. PICK i \in Ids, n \in Nat : SetPayload(i, AsCounted(points[i], n))
        BY <2>3
      <3>2. points[i] \in Point
        BY DEF Base, TypeOK
      <3>3. /\ AsCounted(points[i], n).superseded = points[i].superseded
            /\ AsCounted(points[i], n).deleted = points[i].deleted
        BY <3>2, AsCountedTyped
      <3>4. i \in stored /\ Hidden(AsCounted(points[i], n)) => i \in hist'.wasHidden
        BY <3>3 DEF Hidden, Noted, NoteAt, Remembers
      <3>5. \A j \in Ids : NoteAt(j)'
        BY <3>1, <3>4, PayloadNotes
      <3>6. \A r \in Reqs : NoteFits(req[r])'
        BY <2>1 DEF Noted, NoteFits, Hidden
      <3>7. QED  BY <2>1, <3>1, <3>5, <3>6 DEF Noted, SetPayload
    <2>4. QED  BY <1>4, <2>2, <2>3, FlushCalls
  <1>5. CASE \E r \in Reqs : Begin(r) \/ CallFails(r) \/ Step(r)
    BY <1>5, RequestNotes
  <1>6. QED  BY <1>2, <1>3, <1>4, <1>5 DEF Next

(* Either so many memories were hidden that they can fill the window of a  *)
(* search, or: a store that found nothing alike has met, of the memories   *)
(* alike that were never hidden, only those of stores in flight with it.   *)
Crowded  == Cardinality(hist.wasHidden) >= Window
Plain(i) == i \notin hist.wasHidden \cup Chosen

Alone(r) ==
    /\ req[r].pc = "upsert" /\ req[r].op # "storeId" /\ req[r].ns \in DedupNamespaces
    => \A i \in stored :
          points[i].ns = req[r].ns /\ points[i].content = req[r].content /\ Plain(i)
             => hist.origin[i] \in hist.overlap[r]

Copies(i, j) == /\ i # j /\ points[i].ns = points[j].ns /\ points[i].content = points[j].content
                /\ points[i].ns \in DedupNamespaces
                /\ Plain(i) /\ Plain(j) /\ ~({i, j} \subseteq Seeded)
Met(i, j)    == /\ hist.origin[i] \in Reqs /\ hist.origin[j] \in Reqs
                /\ hist.origin[i] \in hist.overlap[hist.origin[j]]

Singles == Crowded \/ (/\ \A r \in Reqs : Alone(r)
                       /\ \A i, j \in stored : Copies(i, j) => Met(i, j))

LEMMA CrowdedStays ==
    ASSUME Noted, Noted', Remembers, Crowded
    PROVE  Crowded'
  <1>1. IsFiniteSet(hist'.wasHidden)
    BY FS_Subset DEF Noted
  <1>2. Cardinality(hist.wasHidden) <= Cardinality(hist'.wasHidden)
    BY <1>1, FS_Subset DEF Remembers
  <1>3. Cardinality(hist.wasHidden) \in Nat /\ Cardinality(hist'.wasHidden) \in Nat
    BY <1>1, FS_Subset, FS_CardinalityType DEF Remembers
  <1>4. Window \in Nat
    BY BoundAssumption
  <1>5. QED  BY <1>2, <1>3, <1>4 DEF Crowded

(* A memory of an id no caller chose is the one of before, or the one   *)
(* a store just made.                                                      *)
LEMMA NewOrSame ==
    ASSUME Base, Owns, Remembers, [Next]_vars, NEW i \in stored', i \notin Chosen
    PROVE  \/ /\ i \in stored /\ points'[i].ns = points[i].ns
              /\ points'[i].content = points[i].content /\ hist'.origin[i] = hist.origin[i]
           \/ \E r \in Reqs :
                 /\ Upsert(r) /\ req[r].op # "storeId" /\ req[r].pc = "upsert"
                 /\ i \notin used /\ stored' = stored \cup {i}
                 /\ points'[i].ns = req[r].ns /\ points'[i].content = req[r].content
                 /\ hist'.origin[i] = r /\ req'[r].pc \in {"inserted", "mark"}
  <1>1. CASE i \in used
    BY <1>1, Identities DEF SameMemory, Remembers
  <1>2. CASE i \notin used
    <2>1. i \in stored' \ stored
      BY <1>2 DEF Base, TypeOK
    <2>2. PICK r \in Reqs : Upsert(r) /\ UpsertPoint(i, NewPoint(req[r].ns, req[r].content, r))
      BY <2>1, Grows
    <2>3. PICK q, n : /\ Moved(r, q) /\ q.pc \in {"inserted", "mark"} /\ n \in Ids
                      /\ req[r].pc = "upsert"
                      /\ req[r].op = "storeId" => n = req[r].id
                      /\ UpsertPoint(n, NewPoint(req[r].ns, req[r].content, r))
                      /\ hist' = Inserted(hist, r, n)
      BY <2>2, UpsertMoves
    <2>4. n = i
      BY <2>1, <2>3 DEF UpsertPoint
    <2>5. req[r].op # "storeId"
      BY <2>3, <2>4, ChosenGrows DEF Chosen
    <2>6. points'[i] = NewPoint(req[r].ns, req[r].content, r)
      BY <2>3, <2>4 DEF UpsertPoint, Base, TypeOK
    <2>7. points'[i].ns = req[r].ns /\ points'[i].content = req[r].content
      BY <2>6 DEF NewPoint
    <2>8. hist'.origin[i] = r
      <3>1. hist'.origin = [hist.origin EXCEPT ![n] = r]
        BY <2>3, InsertTyped
      <3>2. hist.origin \in [Ids -> Reqs \cup {NoId}]
        BY DEF Base, TypeOK, History
      <3>3. QED  BY <2>3, <2>4, <3>1, <3>2
    <2>9. req'[r].pc \in {"inserted", "mark"}
      BY <2>3 DEF Moved, Base, TypeOK
    <2>10. QED  BY <1>2, <2>2, <2>3, <2>4, <2>5, <2>7, <2>8, <2>9 DEF UpsertPoint
  <1>3. QED  BY <1>1, <1>2

(* A store reaches its insertion through the search that found nothing.    *)
LEMMA ReachesUpsert ==
    ASSUME Base, [Next]_vars, NEW r \in Reqs, req'[r].pc = "upsert", req'[r].op # "storeId",
           req'[r] # req[r]
    PROVE  /\ SearchTopOne(r)
           /\ req'[r].ns = req[r].ns /\ req'[r].content = req[r].content
           /\ req[r].ns \in DedupNamespaces => Missed(req[r].ns, req[r].content)
  <1>1. ~ UNCHANGED vars /\ ~ Crash
    BY CrashMoves DEF vars, Over
  <1>2. PICK x \in Reqs : Begin(x) \/ CallFails(x) \/ Step(x)
    BY <1>1, FlushCalls DEF Next
  <1>3. PICK y : Moved(x, y)
    BY <1>2, RequestCalls
  <1>4. x = r /\ y = req'[r]
    BY <1>3 DEF Moved, Base, TypeOK
  <1>5. ASSUME NEW q, Moved(r, q)  PROVE q = req'[r]
    BY <1>5 DEF Moved, Base, TypeOK
  <1>6. ~ Begin(r)
    BY <1>5, BeginMoves
  <1>7. ~ (AssertIdFree(r) \/ CallFails(r) \/ Search(r))
    <2>1. SUFFICES ASSUME AssertIdFree(r) \/ CallFails(r) \/ Search(r)  PROVE FALSE
      OBVIOUS
    <2>2. PICK q : /\ Moved(r, q) /\ Alias(r, q)
                   /\ \/ q.pc \in {"failed", "done"}
                      \/ q.pc = "upsert" /\ req[r].pc = "embed" /\ req[r].op = "storeId"
      BY <2>1, PlainMoves
    <2>3. QED  BY <1>5, <2>2 DEF Alias
  <1>8. ~ Upsert(r) /\ ~ MarkRetrieve(r) /\ ~ MarkOne(r)
    BY <1>5, UpsertMoves, MarkRetrieveMoves, MarkOneMoves
  <1>9. ~ Fetch(r) /\ ~ Rewrite(r)
    BY <1>5, FetchMoves, RewriteMoves
  <1>10. ~ Tombstone(r) /\ ~ Untombstone(r) /\ ~ Remove(r)
    BY <1>5, TombstoneMoves, RemoveMoves
  <1>11. SearchTopOne(r)
    BY <1>2, <1>4, <1>6, <1>7, <1>8, <1>9, <1>10 DEF Step
  <1>12. PICK q : /\ Moved(r, q) /\ Alias(r, q)
                  /\ \/ q.pc = "rewrite"
                     \/ /\ q.pc = "upsert"
                        /\ req[r].ns \in DedupNamespaces => Missed(req[r].ns, req[r].content)
    BY <1>11, SearchMoves
  <1>13. q = req'[r]
    BY <1>5, <1>12
  <1>14. QED  BY <1>11, <1>12, <1>13 DEF Alias

(* A search that finds nothing alike met hidden memories only, or so many  *)
(* of them that they filled its window.                                    *)
LEMMA MissedMeans ==
    ASSUME Base, Noted, NEW n, NEW c, Missed(n, c), ~ Crowded,
           NEW i \in stored, points[i].ns = n, points[i].content = c
    PROVE  i \in hist.wasHidden
  <1>1. HiddenIn(Alike(n, c)) \subseteq hist.wasHidden
    BY DEF HiddenIn, Alike, InNamespace, Noted, NoteAt, Base, TypeOK
  <1>2. IsFiniteSet(hist.wasHidden)
    BY FS_Subset DEF Noted
  <1>3. /\ Cardinality(HiddenIn(Alike(n, c))) <= Cardinality(hist.wasHidden)
        /\ Cardinality(HiddenIn(Alike(n, c))) \in Nat /\ Cardinality(hist.wasHidden) \in Nat
    BY <1>1, <1>2, FS_Subset, FS_CardinalityType
  <1>4. Window \in Nat
    BY BoundAssumption
  <1>5. ~ (Cardinality(HiddenIn(Alike(n, c))) >= Window)
    BY <1>3, <1>4 DEF Crowded
  <1>6. FoundAlike(n, c) = {}
    BY <1>5 DEF Missed
  <1>7. Hidden(points[i])
    BY <1>6 DEF FoundAlike, Visible, Alike, InNamespace
  <1>8. QED  BY <1>7 DEF Noted, NoteAt, Base, TypeOK

LEMMA SinglesInit ==
    ASSUME Init
    PROVE  Overlaps /\ Noted /\ Singles
  <1>1. \A r \in Reqs : req[r].pc = "idle"
    BY DEF Init, NoRequest, Asks
  <1>2. Overlaps
    BY OverlapsInit
  <1>3. \A i \in Ids : points[i].superseded = NoId /\ points[i].deleted = FALSE
    BY DEF Init, Blank, NewPoint
  <1>4. Noted
    BY <1>1, <1>3, IdsAssumption DEF Noted, NoteAt, NoteFits, Hidden, Init
  <1>5. stored = Seeded
    BY DEF Init
  <1>6. Singles
    BY <1>1, <1>5 DEF Singles, Alone, Copies
  <1>7. QED  BY <1>2, <1>4, <1>6

LEMMA SinglesNext ==
    ASSUME Base, Base', Owns, Overlaps, Noted, Noted', Overlaps', Remembers, Singles, [Next]_vars
    PROVE  Singles'
  <1>1. CASE Crowded
    BY <1>1, CrowdedStays DEF Singles
  <1>2. CASE ~ Crowded
    <2>1. (\A r \in Reqs : Alone(r)) /\ \A i, j \in stored : Copies(i, j) => Met(i, j)
      BY <1>2 DEF Singles
    <2>2. ASSUME NEW i, Plain(i)'  PROVE Plain(i) /\ i \notin Chosen /\ i \notin Chosen'
      BY <2>2, ChosenGrows DEF Plain, Remembers
    <2>3. \A x \in Reqs : hist.overlap[x] \subseteq Reqs /\ hist'.overlap[x] \subseteq Reqs
      BY DEF Base, TypeOK, History
    <2>4. ASSUME NEW r \in Reqs,
                 req'[r].pc = "upsert", req'[r].op # "storeId", req'[r].ns \in DedupNamespaces,
                 NEW i \in stored', points'[i].ns = req'[r].ns,
                 points'[i].content = req'[r].content, Plain(i)'
          PROVE  hist'.origin[i] \in hist'.overlap[r]
      <3>1. Plain(i) /\ i \in stored' /\ i \notin Chosen
        BY <2>2, <2>4
      <3>2. req[r].pc \notin Over
        <4>1. CASE req'[r] = req[r]
          BY <2>4, <4>1 DEF Over
        <4>2. CASE req'[r] # req[r]
          BY <2>4, <4>2, ReachesUpsert DEF SearchTopOne, At, Over
        <4>3. QED  BY <4>1, <4>2
      <3>3. CASE /\ i \in stored /\ points'[i].ns = points[i].ns
                 /\ points'[i].content = points[i].content /\ hist'.origin[i] = hist.origin[i]
        <4>1. CASE req'[r] = req[r]
          <5>1. hist.origin[i] \in hist.overlap[r]
            BY <2>1, <2>4, <3>1, <3>3, <4>1 DEF Alone
          <5>2. hist.origin[i] \in Reqs
            BY <2>3, <5>1
          <5>3. QED  BY <3>3, <5>1, <5>2 DEF Remembers
        <4>2. CASE req'[r] # req[r]
          <5>1. /\ req'[r].ns = req[r].ns /\ req'[r].content = req[r].content
                /\ req[r].ns \in DedupNamespaces => Missed(req[r].ns, req[r].content)
            BY <2>4, <4>2, ReachesUpsert
          <5>2. Missed(req[r].ns, req[r].content)
            BY <2>4, <5>1
          <5>3. i \in hist.wasHidden
            BY <1>2, <2>4, <3>3, <5>1, <5>2, MissedMeans
          <5>4. QED  BY <3>1, <5>3 DEF Plain
        <4>3. QED  BY <4>1, <4>2
      <3>4. CASE \E x \in Reqs : /\ Upsert(x) /\ req[x].pc = "upsert" /\ hist'.origin[i] = x
                                 /\ req'[x].pc \in {"inserted", "mark"}
        <4>1. PICK x \in Reqs : /\ req[x].pc = "upsert" /\ hist'.origin[i] = x
                                /\ req'[x].pc \in {"inserted", "mark"}
          BY <3>4
        <4>2. x # r
          BY <2>4, <4>1
        <4>3. x \in hist.overlap[r]
          BY <3>2, <4>1, <4>2 DEF Overlaps, Over
        <4>4. QED  BY <4>1, <4>3 DEF Remembers
      <3>5. QED  BY <3>1, <3>3, <3>4, NewOrSame
    <2>5. ASSUME NEW i \in stored', NEW j \in stored', Copies(i, j)'
          PROVE  Met(i, j)'
      <3> DEFINE Same(k)   == /\ k \in stored /\ points'[k].ns = points[k].ns
                              /\ points'[k].content = points[k].content
                              /\ hist'.origin[k] = hist.origin[k]
                 Made(k)   == \E x \in Reqs :
                                /\ req[x].op # "storeId" /\ req[x].pc = "upsert"
                                /\ k \notin used /\ stored' = stored \cup {k}
                                /\ points'[k].ns = req[x].ns /\ points'[k].content = req[x].content
                                /\ hist'.origin[k] = x
      <3>1. /\ i # j /\ points'[i].ns = points'[j].ns /\ points'[i].content = points'[j].content
            /\ points'[i].ns \in DedupNamespaces
            /\ Plain(i) /\ Plain(j) /\ ~({i, j} \subseteq Seeded)
            /\ i \notin Chosen /\ j \notin Chosen
        BY <2>2, <2>5 DEF Copies, Plain
      <3>2. (Same(i) \/ Made(i)) /\ (Same(j) \/ Made(j))
        BY <3>1, NewOrSame
      <3>3. CASE Same(i) /\ Same(j)
        <4>1. Copies(i, j)
          BY <3>1, <3>3 DEF Copies
        <4>2. Met(i, j)
          BY <2>1, <3>3, <4>1
        <4>3. QED  BY <3>3, <4>2 DEF Met, Remembers
      <3>4. ASSUME NEW a \in stored', NEW b \in stored', Made(a), Same(b), Plain(b),
                   points'[a].ns = points'[b].ns, points'[a].content = points'[b].content,
                   points'[a].ns \in DedupNamespaces
            PROVE  Met(a, b)' /\ Met(b, a)'
        <4>1. PICK x \in Reqs :
                 /\ req[x].op # "storeId" /\ req[x].pc = "upsert"
                 /\ points'[a].ns = req[x].ns /\ points'[a].content = req[x].content
                 /\ hist'.origin[a] = x
          BY <3>4
        <4>2. hist.origin[b] \in hist.overlap[x]
          BY <2>1, <3>4, <4>1 DEF Alone
        <4>3. hist.origin[b] \in Reqs /\ x \in hist.overlap[hist.origin[b]]
          BY <2>3, <4>2 DEF Overlaps
        <4>4. hist'.origin[b] = hist.origin[b]
          BY <3>4
        <4>5. hist.origin[b] \in hist'.overlap[x] /\ x \in hist'.overlap[hist.origin[b]]
          BY <4>2, <4>3 DEF Remembers
        <4>6. QED  BY <4>1, <4>3, <4>4, <4>5 DEF Met
      <3>5. CASE Made(i) /\ Same(j)
        BY <3>1, <3>4, <3>5
      <3>6. CASE Same(i) /\ Made(j)
        BY <3>1, <3>4, <3>6
      <3>7. ~(Made(i) /\ Made(j))
        BY <3>1 DEF Base, TypeOK
      <3>8. QED  BY <3>2, <3>3, <3>5, <3>6, <3>7
    <2>6. QED  BY <2>4, <2>5 DEF Singles, Alone
  <1>3. QED  BY <1>1, <1>2

(* Two visible copies of one content come from stores in flight together,  *)
(* unless one of them was hidden for a time or a caller chose its id, or   *)
(* hidden memories can have filled the window of the search (service.ts,   *)
(* store and searchTopOne).                                                *)
THEOREM Deduplicates == Spec => []CopiesOnlyFromOverlap
  <1> DEFINE Inv == Base /\ Owns /\ Overlaps /\ Noted /\ Singles
  <1>1. Init => Inv
    BY BaseInit, OwnsInit, SinglesInit
  <1>2. Inv /\ [Next]_vars => Inv'
    BY BaseNext, OwnsNext, OverlapsNext, NotedNext, SinglesNext
  <1>3. Inv => CopiesOnlyFromOverlap
    <2>1. SUFFICES ASSUME Inv, NEW i \in Visible(stored), NEW j \in Visible(stored),
                          i # j, points[i].ns = points[j].ns, points[i].content = points[j].content,
                          points[i].ns \in DedupNamespaces,
                          {i, j} \cap (hist.wasHidden \cup Chosen) = {}, ~({i, j} \subseteq Seeded)
                   PROVE  \/ hist.origin[i] \in Reqs /\ hist.origin[j] \in Reqs
                             /\ hist.origin[i] \in hist.overlap[hist.origin[j]]
                          \/ Cardinality(hist.wasHidden) >= Window
      BY DEF CopiesOnlyFromOverlap
    <2>2. i \in stored /\ j \in stored
      BY DEF Visible
    <2>3. Copies(i, j)
      BY <2>1 DEF Copies, Plain
    <2>4. QED  BY <2>1, <2>2, <2>3 DEF Singles, Met, Crowded
  <1> HIDE DEF Inv
  <1>4. QED  BY <1>1, <1>2, <1>3, PTL DEF Spec
================================================================================
