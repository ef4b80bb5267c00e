--------------------------- MODULE Lifecycle_proofs ---------------------------
(***************************************************************************)
(* Proofs about Lifecycle for any memories, references, policies, page and *)
(* batch sizes.                                                            *)
(***************************************************************************)
EXTENDS Lifecycle, FiniteSetTheorems, WellFoundedInduction, TLAPS

DecayTyped ==
    /\ dec \in [pc : {"idle", "due", "scan", "write"}, from : Ids \cup {0},
                soft : SUBSET Ids, doomed : SUBSET Ids]
    /\ revived \subseteq Ids

AuditTyped ==
    /\ aud = [pc |-> aud.pc, cursor |-> aud.cursor, batch |-> aud.batch, answer |-> aud.answer]
    /\ aud.pc \in {"idle", "due", "check", "write"}
    /\ aud.cursor \in Ids \cup {0}
    /\ DOMAIN aud.batch \subseteq Ids
    /\ \A i \in DOMAIN aud.batch : aud.batch[i] \in Point
    /\ aud.answer \in Signals \cup {NoAnswer}
    /\ aud.pc = "write" => DOMAIN aud.batch # {}

PointsTyped ==
    /\ policy \in Policies
    /\ pts \in [Ids -> Point \cup {NoPoint}]
    /\ pending \subseteq Ids
    /\ copy \in [id : Ids \cup {0}, point : Point]
    /\ crashes \in Nat

TypeOK == PointsTyped /\ DecayTyped /\ AuditTyped

(* A signal that fits its reference, wherever a memory is kept: in the     *)
(* collection, in a request that will write it back, and as the answer the *)
(* audit is about to write with the reference it read.                     *)
Fits(p) == p.signal \in {"unverified"} \cup Answers(p.ref)
AnswersFit ==
    /\ Fits(copy.point)
    /\ aud.pc = "write" => aud.answer \in Answers(aud.batch[Current].ref)

(* What the decay sweep noted of a memory is still so, as long as no       *)
(* request wrote the memory; it looks at no memory twice.                  *)
DueSoft(p)   == p.gone = Live /\ ~p.hit /\ ~p.immortal
DueDoomed(p) == p.gone # Live /\ p.gone > policy.grace /\ ~p.immortal
NotesHold ==
    /\ \A i \in dec.soft \ revived : i \in Stored /\ DueSoft(pts[i])
    /\ \A i \in dec.doomed \ revived : i \in Stored /\ DueDoomed(pts[i])
    /\ dec.pc = "scan" => \A i \in dec.soft \cup dec.doomed : i < dec.from
    /\ dec.pc \in {"idle", "due"} => dec.soft = {} /\ dec.doomed = {}

IInv == TypeOK /\ SignalFits /\ AnswersFit /\ NotesHold

-----------------------------------------------------------------------------
(* Pages.                                                                  *)
LEMMA MinExists ==
    ASSUME NEW S, S \subseteq Nat, S # {}
    PROVE  Min(S) \in S /\ \A y \in S : Min(S) <= y
  <1>1. PICK x \in S : \A y \in S : ~ (<<y, x>> \in OpToRel(<, Nat))
    <2>1. IsWellFoundedOn(OpToRel(<, Nat), Nat)
      BY NatLessThanWellFounded
    <2>2. \A R : IsWellFoundedOn(R, Nat) => \E x \in S : \A y \in S : ~ (<<y, x>> \in R)
      BY WFMin
    <2>3. QED  BY <2>1, <2>2
  <1>2. \A y \in S : x <= y
    <2>1. SUFFICES ASSUME NEW y \in S, y < x  PROVE FALSE
      OBVIOUS
    <2>2. <<y, x>> \in Nat \X Nat /\ <<y, x>>[1] < <<y, x>>[2]
      BY <2>1
    <2>3. <<y, x>> \in {ss \in Nat \X Nat : ss[1] < ss[2]}
      BY <2>2
    <2>4. QED  BY <1>1, <2>3 DEF OpToRel
  <1>3. \E z \in S : \A y \in S : z <= y
    BY <1>2
  <1>4. QED  BY <1>3 DEF Min

LEMMA PageOrder ==
    ASSUME NEW S, S \subseteq Ids, NEW from \in Nat, NEW n \in Nat \ {0}
    PROVE  /\ Page(S, from, n) \subseteq S
           /\ \A i \in Page(S, from, n) : i >= from
           /\ NextPage(S, from, n) \in S \cup {0}
           /\ NextPage(S, from, n) # 0 =>
                 /\ NextPage(S, from, n) >= from
                 /\ \A i \in Page(S, from, n) : i < NextPage(S, from, n)
  <1> DEFINE Before(i) == {k \in S : from <= k /\ k < i}
             rest == {i \in S : i >= from} \ Page(S, from, n)
  <1>0. S \subseteq Nat /\ IsFiniteSet(S) /\ 0 \notin S
    BY PointsAssumption, FS_Subset
  <1>1. \A i : IsFiniteSet(Before(i)) /\ Cardinality(Before(i)) \in Nat
    BY <1>0, FS_Subset, FS_CardinalityType, \A i : Before(i) \subseteq S
  <1>2. Page(S, from, n) = {i \in S : i >= from /\ Cardinality(Before(i)) < n}
    BY DEF Page
  <1>3. ASSUME NEW i \in Page(S, from, n), NEW k \in rest
        PROVE  i < k
    <2>0. i \in S /\ k \in S /\ k >= from /\ k \notin Page(S, from, n)
      BY <1>2
    <2>a. i \in Nat /\ k \in Nat
      BY <1>0, <2>0
    <2>1. SUFFICES ASSUME k <= i  PROVE FALSE
      BY <2>a
    <2>2. Before(k) \subseteq Before(i)
      <3>1. \A j \in S : from <= j /\ j < k => j < i
        BY <1>0, <2>a, <2>1
      <3>2. QED  BY <3>1
    <2>3. Cardinality(Before(k)) <= Cardinality(Before(i))
      BY <1>1, <2>2, FS_Subset
    <2>4. Cardinality(Before(i)) < n
      BY <1>2
    <2>5. Cardinality(Before(k)) < n
      BY <1>1, <2>3, <2>4
    <2>6. QED  BY <1>2, <2>5
  <1>4. CASE rest = {}
    BY <1>2, <1>4 DEF NextPage
  <1>5. CASE rest # {}
    <2>1. NextPage(S, from, n) = Min(rest)
      BY <1>5 DEF NextPage
    <2>2. Min(rest) \in rest
      BY <1>0, <1>5, MinExists
    <2>3. QED  BY <1>0, <1>2, <1>3, <2>1, <2>2
  <1>6. QED  BY <1>4, <1>5

-----------------------------------------------------------------------------
(* What any step may do to the collection: it puts memories whose signals  *)
(* fit, or takes some out.                                                 *)
Kept(ps) ==
    /\ ps \in [Ids -> Point \cup {NoPoint}]
    /\ \A i \in Ids : ps[i] = NoPoint \/ Fits(ps[i])

LEMMA KeptNow ==
    ASSUME IInv
    PROVE  Kept(pts)
  BY DEF IInv, TypeOK, PointsTyped, SignalFits, Kept, Fits, Stored

LEMMA SetPoint ==
    ASSUME IInv, NEW i \in Ids, NEW q,
           q = NoPoint \/ (q \in Point /\ Fits(q)),
           pts' = [pts EXCEPT ![i] = q]
    PROVE  Kept(pts')
  <1>1. Kept(pts)
    BY KeptNow
  <1>2. \A j \in Ids : pts'[j] = IF j = i THEN q ELSE pts[j]
    BY <1>1 DEF Kept
  <1>3. pts' \in [Ids -> Point \cup {NoPoint}]
    BY <1>1 DEF Kept
  <1>4. QED  BY <1>1, <1>2, <1>3 DEF Kept

LEMMA SetPayload ==
    ASSUME IInv, NEW i, NEW q, i \in Stored => q \in Point /\ Fits(q), Payload(i, q)
    PROVE  Kept(pts')
  <1>1. CASE i \in Stored
    BY <1>1, SetPoint DEF Payload, Stored
  <1>2. CASE i \notin Stored
    BY <1>2, KeptNow DEF Payload
  <1>3. QED  BY <1>1, <1>2

LEMMA StoredTyped ==
    ASSUME IInv, NEW i \in Stored
    PROVE  i \in Ids /\ pts[i] \in Point /\ Fits(pts[i])
  BY DEF IInv, TypeOK, PointsTyped, SignalFits, Fits, Stored

(* Changing anything but signal and reference keeps the fit.               *)
LEMMA Rewritten ==
    ASSUME NEW p \in Point, Fits(p)
    PROVE  /\ \A n \in Int :
                 [p EXCEPT !.gone = n] \in Point /\ Fits([p EXCEPT !.gone = n])
           /\ \A b \in BOOLEAN :
                 [p EXCEPT !.immortal = b] \in Point /\ Fits([p EXCEPT !.immortal = b])
  BY DEF Point, Fits

LEMMA Grown ==
    ASSUME IInv, NEW p \in Point, Fits(p)
    PROVE  /\ Counted(p) \in Point /\ Fits(Counted(p))
           /\ Aged(p) \in Point /\ Fits(Aged(p))
  <1>1. policy.decays \in BOOLEAN
    BY PointsAssumption DEF IInv, TypeOK, PointsTyped
  <1>2. \A m \in Int : Older(m) \in Int
    BY DEF Older
  <1>3. Counted(p) \in Point /\ Fits(Counted(p))
    <2>1. ASSUME NEW b \in BOOLEAN
          PROVE  /\ [p EXCEPT !.hit = b, !.age = 0] \in Point
                 /\ Fits([p EXCEPT !.hit = b, !.age = 0])
      <3>1. [p EXCEPT !.hit = b, !.age = 0] =
               [ref |-> p.ref, signal |-> p.signal, age |-> 0, hit |-> b,
                gone |-> p.gone, immortal |-> p.immortal]
        <4>1. PICK r : r = [p EXCEPT !.hit = b]
          OBVIOUS
        <4>2. r = [ref |-> p.ref, signal |-> p.signal, age |-> p.age, hit |-> b,
                   gone |-> p.gone, immortal |-> p.immortal]
          BY <4>1 DEF Point
        <4>3. [p EXCEPT !.hit = b, !.age = 0] = [r EXCEPT !.age = 0]
          BY <4>1, Zenon
        <4>4. QED  BY <4>2, <4>3
      <3>2. QED  BY <3>1 DEF Point, Fits
    <2>2. QED  BY <1>1, <2>1 DEF Counted
  <1>4. Aged(p) \in Point /\ Fits(Aged(p))
    <2>1. Older(p.age) \in Int /\ Older(p.gone) \in Int
      BY <1>2 DEF Point
    <2>2. QED  BY <2>1 DEF Aged, Point, Fits
  <1>5. QED  BY <1>3, <1>4

LEMMA FreshFits ==
    ASSUME NEW ref \in Refs \cup {NoRef}
    PROVE  Fresh(ref) \in Point /\ Fits(Fresh(ref))
  BY DEF Fresh, Point, Fits, Signals, Live

LEMMA AnswersAreSignals ==
    ASSUME NEW ref \in Refs \cup {NoRef}
    PROVE  Answers(ref) \subseteq Signals
  BY AuditAssumption, PointsAssumption DEF Answers, Signals

-----------------------------------------------------------------------------
(* The requests and the clock, for what both sweeps rely on.               *)
Surroundings ==
    /\ Kept(pts')
    /\ PointsTyped' /\ Fits(copy'.point)

LEMMA RequestsKeep ==
    ASSUME IInv, Requests
    PROVE  Surroundings
  <1> USE DEF Surroundings
  <1>1. PointsTyped /\ Fits(copy.point)
    BY DEF IInv, TypeOK, AnswersFit
  <1>2. Kept(pts)
    BY KeptNow
  <1>3. Churn \subseteq Ids /\ -1 \in Int /\ 0 \in Int
    BY PointsAssumption
  <1>4. ASSUME Kept(pts'), UNCHANGED <<policy, crashes>>, pending' \subseteq Ids,
               copy' \in [id : Ids \cup {0}, point : Point], Fits(copy'.point)
        PROVE  Surroundings
    BY <1>1, <1>4 DEF PointsTyped, Kept
  <1>5. ASSUME NEW i \in Churn, Store(i)  PROVE Surroundings
    <2>1. PICK r \in References : pts' = [pts EXCEPT ![i] = Fresh(r)]
      BY <1>5 DEF Store
    <2>2. Kept(pts')
      BY <1>3, <2>1, FreshFits, SetPoint DEF References
    <2>3. QED  BY <1>1, <1>4, <1>5, <2>2 DEF Store, PointsTyped
  <1>6. ASSUME NEW i \in Churn, Hit(i)  PROVE Surroundings
    BY <1>1, <1>2, <1>3, <1>4, <1>6 DEF Hit, PointsTyped
  <1>7. ASSUME NEW i \in Churn, Flush(i)  PROVE Surroundings
    <2>1. Kept(pts')
      <3>1. CASE Payload(i, Counted(pts[i]))
        BY <3>1, StoredTyped, Grown, SetPayload
      <3>2. CASE UNCHANGED pts
        BY <1>2, <3>2
      <3>3. QED  BY <1>7, <3>1, <3>2 DEF Flush
    <2>2. QED  BY <1>1, <1>4, <1>7, <2>1 DEF Flush, PointsTyped
  <1>8. ASSUME NEW i \in Churn, CopyRead(i)  PROVE Surroundings
    <2>1. i \in Ids /\ pts[i] \in Point /\ Fits(pts[i])
      BY <1>8, StoredTyped DEF CopyRead, Living
    <2>2. QED  BY <1>1, <1>2, <1>4, <1>8, <2>1 DEF CopyRead, PointsTyped
  <1>9. CASE CopyWrite
    <2>1. copy.point \in Point
      BY <1>1 DEF PointsTyped
    <2>2. Kept(pts')
      <3>1. ASSUME NEW b \in BOOLEAN, Payload(copy.id, [copy.point EXCEPT !.immortal = b])
            PROVE  Kept(pts')
        BY <1>1, <2>1, <3>1, Rewritten, SetPayload
      <3>2. CASE Payload(copy.id, Counted(copy.point))
        BY <1>1, <2>1, <3>2, Grown, SetPayload
      <3>3. CASE UNCHANGED pts
        BY <1>2, <3>3
      <3>4. QED  BY <1>9, <3>1, <3>2, <3>3 DEF CopyWrite
    <2>3. NoCopy \in [id : Ids \cup {0}, point : Point] /\ Fits(NoCopy.point)
      BY FreshFits DEF NoCopy
    <2>4. QED  BY <1>1, <1>4, <1>9, <2>2, <2>3 DEF CopyWrite, PointsTyped
  <1>10. ASSUME NEW i \in Churn, Delete(i)  PROVE Surroundings
    <2>1. Kept(pts')
      BY <1>3, <1>10, StoredTyped, Rewritten, SetPoint DEF Delete, Living
    <2>2. QED  BY <1>1, <1>4, <1>10, <2>1 DEF Delete, PointsTyped
  <1>11. ASSUME NEW i \in Churn, Restore(i)  PROVE Surroundings
    <2>1. Kept(pts')
      BY <1>3, <1>11, StoredTyped, Rewritten, SetPoint DEF Restore, Live
    <2>2. QED  BY <1>1, <1>4, <1>11, <2>1 DEF Restore, PointsTyped
  <1>12. ASSUME NEW i \in Churn, Purge(i)  PROVE Surroundings
    <2>1. Kept(pts')
      BY <1>3, <1>12, SetPoint DEF Purge
    <2>2. QED  BY <1>1, <1>4, <1>12, <2>1 DEF Purge, PointsTyped
  <1>13. QED
    BY <1>5, <1>6, <1>7, <1>8, <1>9, <1>10, <1>11, <1>12 DEF Requests

LEMMA DayKeeps ==
    ASSUME IInv, DayPasses
    PROVE  Surroundings
  <1>1. PointsTyped /\ Fits(copy.point)
    BY DEF IInv, TypeOK, AnswersFit
  <1>2. \A i \in Ids : pts'[i] = IF i \in Stored THEN Aged(pts[i]) ELSE NoPoint
    BY DEF DayPasses
  <1>3. \A i \in Stored : Aged(pts[i]) \in Point /\ Fits(Aged(pts[i]))
    BY StoredTyped, Grown
  <1>4. Kept(pts')
    BY <1>2, <1>3 DEF DayPasses, Kept
  <1>5. Aged(copy.point) \in Point /\ Fits(Aged(copy.point))
    BY <1>1, Grown DEF PointsTyped
  <1>6. /\ copy' \in [id : Ids \cup {0}, point : Point]
        /\ Fits(copy'.point)
    BY <1>1, <1>5 DEF DayPasses, PointsTyped
  <1>7. QED  BY <1>1, <1>4, <1>6 DEF DayPasses, PointsTyped, Kept, Surroundings

-----------------------------------------------------------------------------
(* The audit.                                                              *)
AuditKeeps ==
    /\ AuditTyped'
    /\ aud'.pc = "write" => aud'.answer \in Answers(aud'.batch[Current'].ref)

LEMMA RestingKeeps ==
    ASSUME NEW c \in Ids \cup {0}, aud' = Resting(c)
    PROVE  AuditKeeps
  BY DEF AuditKeeps, AuditTyped, Resting

LEMMA Audited ==
    ASSUME IInv, AuditSteps
    PROVE  /\ UNCHANGED <<policy, pending, copy, crashes>>
           /\ Kept(pts')
           /\ AuditKeeps
           /\ \A i \in Stored : /\ pts'[i].gone = pts[i].gone
                                /\ pts'[i].hit = pts[i].hit
                                /\ pts'[i].immortal = pts[i].immortal
                                /\ pts'[i] # NoPoint
  <1>1. AuditTyped /\ (aud.pc = "write" => aud.answer \in Answers(aud.batch[Current].ref))
    BY DEF IInv, TypeOK, AnswersFit
  <1>2. Kept(pts) /\ Stored \subseteq Ids /\ \A i \in Stored : pts[i] \in Point /\ pts[i] # NoPoint
    BY KeptNow, StoredTyped DEF Stored
  <1>3. policy.batch \in Nat \ {0}
    BY PointsAssumption DEF IInv, TypeOK, PointsTyped
  <1>4. DOMAIN aud.batch # {} =>
           /\ Current \in DOMAIN aud.batch
           /\ aud.batch[Current] \in Point
           /\ aud.batch[Current].ref \in Refs \cup {NoRef}
    <2>1. DOMAIN aud.batch \subseteq Nat
      BY <1>1, PointsAssumption DEF AuditTyped
    <2>2. QED  BY <1>1, <2>1, MinExists DEF Current, AuditTyped, Point
  <1>5. /\ DOMAIN Rest \subseteq Ids
        /\ \A i \in DOMAIN Rest : Rest[i] \in Point
    BY <1>1 DEF Rest, AuditTyped
  <1> DEFINE Goal == /\ UNCHANGED <<policy, pending, copy, crashes>>
                     /\ Kept(pts')
                     /\ AuditKeeps
                     /\ \A i \in Stored : /\ pts'[i].gone = pts[i].gone
                                          /\ pts'[i].hit = pts[i].hit
                                          /\ pts'[i].immortal = pts[i].immortal
                                          /\ pts'[i] # NoPoint
  <1>6. ASSUME UNCHANGED pointVars, AuditKeeps  PROVE Goal
    BY <1>2, <1>6 DEF pointVars
  <1>7. CASE StartAudit
    <2> DEFINE page == Page(Verifiable, aud.cursor, policy.batch)
    <2>1. Verifiable \subseteq Ids /\ \A i \in Verifiable : pts[i] \in Point
      BY <1>2 DEF Verifiable
    <2>2. aud.cursor \in Nat
      BY <1>1, PointsAssumption DEF AuditTyped
    <2>3. page \subseteq Verifiable /\ NextCursor(aud.cursor) \in Ids \cup {0}
      BY <1>3, <2>1, <2>2, PageOrder DEF NextCursor
    <2>4. aud' = [pc |-> "check", cursor |-> NextCursor(aud.cursor),
                  batch |-> [i \in page |-> pts[i]], answer |-> aud.answer]
      BY <1>1, <1>7 DEF StartAudit, AuditTyped
    <2>5. AuditKeeps
      BY <1>1, <2>1, <2>3, <2>4 DEF AuditKeeps, AuditTyped
    <2>6. QED  BY <1>6, <1>7, <2>5 DEF StartAudit
  <1>8. CASE NoAudit
    BY <1>1, <1>6, <1>8, RestingKeeps DEF NoAudit, AuditTyped
  <1>9. CASE EndAudit
    BY <1>1, <1>6, <1>9, RestingKeeps DEF EndAudit, AuditTyped
  <1>10. CASE Check
    <2>1. CASE aud' = [aud EXCEPT !.batch = Rest]
      <3>1. aud' = [pc |-> "check", cursor |-> aud.cursor, batch |-> Rest, answer |-> aud.answer]
        BY <1>1, <1>10, <2>1 DEF Check, AuditTyped
      <3>2. QED  BY <1>1, <1>5, <1>6, <1>10, <3>1 DEF Check, AuditKeeps, AuditTyped
    <2>2. ASSUME NEW s \in Answers(aud.batch[Current].ref),
                 aud' = [aud EXCEPT !.pc = "write", !.answer = s]
          PROVE  Goal
      <3>1. aud' = [pc |-> "write", cursor |-> aud.cursor, batch |-> aud.batch, answer |-> s]
        BY <1>1, <2>2 DEF AuditTyped
      <3>2. Current' = Current
        BY <3>1 DEF Current
      <3>3. DOMAIN aud.batch # {}
        BY <1>10 DEF Check
      <3>4. s \in Signals
        BY <1>4, <2>2, <3>3, AnswersAreSignals
      <3>5. AuditKeeps
        BY <1>1, <2>2, <3>1, <3>2, <3>3, <3>4 DEF AuditKeeps, AuditTyped
      <3>6. QED  BY <1>6, <1>10, <3>5 DEF Check
    <2>3. QED  BY <1>10, <2>1, <2>2 DEF Check
  <1>11. CASE WriteBack
    <2>1. DOMAIN aud.batch # {} /\ aud.pc = "write"
      BY <1>1, <1>11 DEF WriteBack, AuditTyped
    <2>2. AuditKeeps
      <3>1. aud' = [pc |-> "check", cursor |-> aud.cursor, batch |-> Rest, answer |-> NoAnswer]
        BY <1>1, <1>11 DEF WriteBack, Told, AuditTyped
      <3>2. QED  BY <1>1, <1>5, <3>1 DEF AuditKeeps, AuditTyped
    <2>3. CASE UNCHANGED pts
      BY <1>2, <1>11, <2>2, <2>3 DEF WriteBack
    <2> DEFINE q == [pts[Current] EXCEPT !.signal = aud.answer, !.ref = aud.batch[Current].ref]
    <2>4. CASE Payload(Current, q)
      <3>1. aud.answer \in Answers(aud.batch[Current].ref) /\ aud.answer \in Signals
        BY <1>1, <1>4, <2>1, AnswersAreSignals
      <3>2. ASSUME Current \in Stored
            PROVE  /\ q \in Point /\ Fits(q)
                   /\ q.gone = pts[Current].gone
                   /\ q.hit = pts[Current].hit
                   /\ q.immortal = pts[Current].immortal
        <4>1. pts[Current] \in Point
          BY <1>2, <3>2
        <4>2. QED  BY <1>4, <2>1, <3>1, <4>1 DEF Point, Fits
      <3>3. Kept(pts')
        BY <2>4, <3>2, SetPayload
      <3>4. \A i \in Stored : pts'[i] = IF i = Current THEN q ELSE pts[i]
        BY <1>2, <2>4 DEF Payload, Kept
      <3>5. \A i \in Stored : /\ pts'[i].gone = pts[i].gone
                              /\ pts'[i].hit = pts[i].hit
                              /\ pts'[i].immortal = pts[i].immortal
                              /\ pts'[i] # NoPoint
        BY <1>2, <3>2, <3>4, NoPointAssumption
      <3>6. QED  BY <1>11, <2>2, <3>3, <3>5 DEF WriteBack
    <2>5. QED  BY <1>11, <2>3, <2>4 DEF WriteBack
  <1>12. QED  BY <1>7, <1>8, <1>9, <1>10, <1>11 DEF AuditSteps

-----------------------------------------------------------------------------
(* The decay sweep.                                                        *)
LEMMA AsleepKeeps ==
    ASSUME dec' = [Asleep EXCEPT !.pc = "due"] \/ dec' = Asleep
              \/ dec' = [Asleep EXCEPT !.pc = "scan"] \/ dec' = [Asleep EXCEPT !.pc = "idle"],
           revived' \subseteq Ids
    PROVE  DecayTyped' /\ NotesHold'
  BY DEF Asleep, DecayTyped, NotesHold

(* A step that leaves the sweep where it is keeps its notes, if it leaves  *)
(* what they say of the memories it does not report as written.            *)
LEMMA NotesStay ==
    ASSUME IInv, UNCHANGED <<dec, policy>>,
           \A i \in Stored \ revived' :
              /\ i \notin revived /\ pts'[i] # NoPoint
              /\ pts'[i].gone = pts[i].gone
              /\ pts'[i].hit = pts[i].hit
              /\ pts'[i].immortal = pts[i].immortal,
           \/ revived \subseteq revived'
           \/ dec.pc \in {"idle", "due"}
    PROVE  NotesHold'
  <1>1. NotesHold /\ DecayTyped
    BY DEF IInv, TypeOK
  <1>2. CASE dec.pc \in {"idle", "due"}
    BY <1>1, <1>2 DEF NotesHold
  <1>3. CASE revived \subseteq revived'
    <2>1. \A i \in dec.soft \ revived' : i \in Stored' /\ DueSoft(pts[i])'
      BY <1>1, <1>3 DEF NotesHold, DueSoft, Stored
    <2>2. \A i \in dec.doomed \ revived' : i \in Stored' /\ DueDoomed(pts[i])'
      BY <1>1, <1>3 DEF NotesHold, DueDoomed, Stored
    <2>3. QED  BY <1>1, <2>1, <2>2 DEF NotesHold
  <1>4. QED  BY <1>2, <1>3

LEMMA Scanned ==
    ASSUME IInv, Scan
    PROVE  DecayTyped' /\ NotesHold'
  <1> DEFINE page == Page(Stored, dec.from, PageSize)
             mortal == {i \in page : ~pts[i].immortal}
             next == NextPage(Stored, dec.from, PageSize)
             soft == dec.soft \cup {i \in mortal : Silent(pts[i])}
             doomed == dec.doomed \cup {i \in mortal : PastGrace(pts[i])}
  <1>1. NotesHold /\ DecayTyped /\ dec.pc = "scan"
    BY DEF IInv, TypeOK, Scan
  <1>2. Stored \subseteq Ids /\ dec.from \in Nat /\ Ids \subseteq Nat /\ 0 \notin Ids
    <2>1. Ids \subseteq Nat /\ 0 \notin Ids
      BY PointsAssumption
    <2>2. dec.from \in Ids \cup {0}
      BY <1>1 DEF DecayTyped
    <2>3. dec.from \in Nat
      <3>1. \A n \in Ids \cup {0} : n \in Nat
        BY <2>1
      <3>2. QED  BY <2>2, <3>1
    <2>4. Stored \subseteq Ids
      BY DEF Stored
    <2>5. QED  BY <2>1, <2>3, <2>4
  <1>3. /\ page \subseteq Stored
        /\ \A i \in page : i >= dec.from
        /\ next \in Stored \cup {0}
        /\ next # 0 => next >= dec.from /\ \A i \in page : i < next
    BY <1>2, PageOrder, PageAssumption
  <1>4. dec' = [pc |-> IF next = 0 THEN "write" ELSE "scan", from |-> next,
                soft |-> soft, doomed |-> doomed]
    BY <1>1 DEF Scan, DecayTyped
  <1>5. revived' = revived \ page /\ UNCHANGED <<pts, policy>>
    BY DEF Scan, pointVars
  <1>6. DecayTyped'
    BY <1>1, <1>2, <1>3, <1>4, <1>5 DEF DecayTyped
  <1>7. \A i \in page : i \notin dec.soft /\ i \notin dec.doomed
    <2>1. SUFFICES ASSUME NEW i \in page, i \in dec.soft \cup dec.doomed  PROVE FALSE
      OBVIOUS
    <2>2. i < dec.from
      BY <1>1, <2>1 DEF NotesHold
    <2>3. i \in Nat /\ i >= dec.from
      BY <1>2, <1>3
    <2>4. QED  BY <1>2, <2>2, <2>3
  <1>8. \A i \in soft \ revived' : i \in Stored /\ DueSoft(pts[i])
    <2>1. SUFFICES ASSUME NEW i \in soft \ revived'
                   PROVE  i \in Stored /\ DueSoft(pts[i])
      OBVIOUS
    <2>2. CASE i \in dec.soft
      BY <1>1, <1>5, <1>7, <2>1, <2>2 DEF NotesHold
    <2>3. CASE i \in mortal /\ Silent(pts[i])
      BY <1>3, <2>3 DEF Silent, DueSoft
    <2>4. QED  BY <2>1, <2>2, <2>3
  <1>9. \A i \in doomed \ revived' : i \in Stored /\ DueDoomed(pts[i])
    <2>1. SUFFICES ASSUME NEW i \in doomed \ revived'
                   PROVE  i \in Stored /\ DueDoomed(pts[i])
      OBVIOUS
    <2>2. CASE i \in dec.doomed
      BY <1>1, <1>5, <1>7, <2>1, <2>2 DEF NotesHold
    <2>3. CASE i \in mortal /\ PastGrace(pts[i])
      BY <1>3, <2>3 DEF PastGrace, DueDoomed
    <2>4. QED  BY <2>1, <2>2, <2>3
  <1>10. next # 0 => \A i \in soft \cup doomed : i < next
    <2>1. SUFFICES ASSUME next # 0, NEW i \in soft \cup doomed  PROVE i < next
      OBVIOUS
    <2>2. CASE i \in dec.soft \cup dec.doomed
      <3>1. i < dec.from /\ i \in Nat
        BY <1>1, <1>2, <2>2 DEF NotesHold, DecayTyped
      <3>2. next \in Nat /\ next >= dec.from
        BY <1>2, <1>3, <2>1
      <3>3. QED  BY <1>2, <3>1, <3>2
    <2>3. CASE i \in page
      BY <1>3, <2>1, <2>3
    <2>4. QED  BY <2>1, <2>2, <2>3
  <1>11. QED
    BY <1>4, <1>5, <1>6, <1>8, <1>9, <1>10 DEF NotesHold, DueSoft, DueDoomed, Stored

LEMMA Decayed ==
    ASSUME IInv, DecaySteps
    PROVE  /\ UNCHANGED <<policy, pending, copy, crashes>>
           /\ Kept(pts')
           /\ DecayTyped' /\ NotesHold'
  <1>1. NotesHold /\ DecayTyped /\ Kept(pts)
    BY KeptNow DEF IInv, TypeOK
  <1>2. Stored \subseteq Ids /\ \A i \in Stored : pts[i] \in Point /\ Fits(pts[i])
    BY StoredTyped
  <1>3. CASE StartDecay
    BY <1>1, <1>3, AsleepKeeps DEF StartDecay, pointVars, DecayTyped
  <1>4. CASE Scan
    BY <1>1, <1>4, Scanned DEF Scan, pointVars
  <1>5. ASSUME dec.pc = "write", dec.soft # {}
        PROVE  Min(dec.soft) \in dec.soft
    BY <1>1, <1>5, MinExists, PointsAssumption DEF DecayTyped
  <1>6. CASE SoftDelete
    <2> DEFINE i == Min(dec.soft)
    <2>1. i \in dec.soft /\ i \in Ids
      BY <1>1, <1>5, <1>6 DEF SoftDelete, DecayTyped
    <2>2. Kept(pts')
      <3>1. i \in Stored => LET q == [pts[i] EXCEPT !.gone = 0] IN q \in Point /\ Fits(q)
        BY <1>2, Rewritten
      <3>2. QED  BY <1>6, <3>1, SetPayload DEF SoftDelete
    <2>3. dec' = [pc |-> "write", from |-> dec.from, soft |-> dec.soft \ {i},
                  doomed |-> dec.doomed]
      BY <1>1, <1>6 DEF SoftDelete, DecayTyped
    <2>4. \A j \in Stored \ {i} : pts'[j] = pts[j]
      BY <1>1, <1>2, <1>6 DEF SoftDelete, Payload, Kept
    <2>5. i \in dec.doomed => i \in revived
      BY <1>1, <2>1 DEF NotesHold, DueSoft, DueDoomed
    <2>6. UNCHANGED <<revived, policy, pending, copy, crashes>>
      BY <1>6 DEF SoftDelete
    <2>7. NotesHold'
      BY <1>1, <2>3, <2>4, <2>5, <2>6 DEF NotesHold, DueSoft, DueDoomed, Stored
    <2>8. DecayTyped'
      BY <1>1, <2>3, <2>6 DEF DecayTyped
    <2>9. QED  BY <2>2, <2>6, <2>7, <2>8
  <1>7. CASE SoftDeleteFails
    <2>1. dec' = [pc |-> "write", from |-> dec.from, soft |-> dec.soft \ {Min(dec.soft)},
                  doomed |-> dec.doomed]
      BY <1>1, <1>7 DEF SoftDeleteFails, DecayTyped
    <2>2. UNCHANGED <<revived, pts, policy, pending, copy, crashes>>
      BY <1>7 DEF SoftDeleteFails, pointVars
    <2>3. NotesHold'
      BY <1>1, <2>1, <2>2 DEF NotesHold, DueSoft, DueDoomed, Stored
    <2>4. QED  BY <1>1, <2>1, <2>2, <2>3 DEF DecayTyped
  <1>8. CASE HardDelete
    <2>1. Kept(pts')
      BY <1>1, <1>8 DEF HardDelete, Kept
    <2>2. QED  BY <1>8, <2>1, AsleepKeeps DEF HardDelete
  <1>9. CASE HardDeleteFails
    BY <1>1, <1>9, AsleepKeeps DEF HardDeleteFails, pointVars
  <1>10. QED  BY <1>3, <1>4, <1>6, <1>7, <1>8, <1>9 DEF DecaySteps

-----------------------------------------------------------------------------
LEMMA KeptIs ==
    ASSUME Kept(pts)
    PROVE  SignalFits
  BY DEF Kept, SignalFits, Fits, Stored

LEMMA InvInit ==
    ASSUME Init
    PROVE  IInv
  <1> USE DEF Init, PointsInit, DecayInit, AuditInit
  <1>1. ASSUME NEW ref \in Refs \cup {NoRef}
        PROVE  Fresh(ref) \in Point /\ Fits(Fresh(ref))
    BY FreshFits
  <1>2. PICK ref \in Refs \cup {NoRef} : pts = [i \in Ids |-> Fresh(ref)]
    <2>1. (IF policy.audited THEN CHOOSE r \in Refs : TRUE ELSE NoRef) \in Refs \cup {NoRef}
      BY PointsAssumption
    <2>2. QED  BY <2>1
  <1>3. Kept(pts)
    BY <1>1, <1>2 DEF Kept
  <1>4. copy \in [id : Ids \cup {0}, point : Point] /\ Fits(copy.point)
    BY <1>1 DEF NoCopy
  <1>5. PointsTyped
    BY <1>3, <1>4 DEF PointsTyped, Kept
  <1>6. DecayTyped /\ NotesHold
    BY DEF DecayTyped, NotesHold, Asleep
  <1>7. AuditTyped /\ aud.pc # "write"
    BY DEF AuditTyped, Resting
  <1>8. QED  BY <1>3, <1>4, <1>5, <1>6, <1>7, KeptIs DEF IInv, TypeOK, AnswersFit

LEMMA InvNext ==
    ASSUME IInv, [Next]_vars
    PROVE  IInv'
  <1>1. TypeOK /\ AnswersFit /\ NotesHold /\ Kept(pts)
    BY KeptNow DEF IInv
  <1>2. ASSUME Surroundings, DecayTyped', NotesHold', AuditKeeps
        PROVE  IInv'
    <2>1. SignalFits'
      BY <1>2 DEF Surroundings, Kept, SignalFits, Fits, Stored
    <2>2. QED
      BY <1>2, <2>1 DEF Surroundings, AuditKeeps, IInv, TypeOK, AnswersFit
  <1>3. ASSUME UNCHANGED aud  PROVE AuditKeeps
    BY <1>1, <1>3 DEF TypeOK, AuditTyped, AnswersFit, AuditKeeps, Current
  <1>4. CASE Request
    <2>1. Surroundings /\ policy' = policy
      BY <1>4, RequestsKeep DEF Request, Requests, Store, Hit, Flush, CopyRead, CopyWrite,
         Delete, Restore, Purge
    <2>2. DecayTyped'
      BY <1>1, <1>4 DEF Request, TypeOK, DecayTyped
    <2>3. NotesHold'
      <3>1. CASE dec.pc \in {"idle", "due"}
        BY <1>1, <1>4, <3>1 DEF Request, NotesHold
      <3>2. CASE dec.pc \notin {"idle", "due"}
        <4>1. revived' = revived \cup {i \in Ids : pts'[i] # pts[i]} /\ dec' = dec
          BY <1>4, <3>2 DEF Request
        <4>2. \A i \in Stored \ revived' : i \notin revived /\ pts'[i] = pts[i]
          BY <4>1 DEF Stored
        <4>3. QED  BY <1>1, <2>1, <4>1, <4>2, NotesStay DEF Stored
      <3>3. QED  BY <3>1, <3>2
    <2>4. QED  BY <1>2, <1>3, <1>4, <2>1, <2>2, <2>3 DEF Request
  <1>5. CASE Tick
    <2>1. Surroundings
      BY <1>5, DayKeeps DEF Tick
    <2>2. DecayTyped' /\ NotesHold'
      BY <1>1, <1>5, AsleepKeeps DEF Tick, TypeOK, DecayTyped
    <2>3. AuditKeeps
      <3>1. CASE aud.pc = "idle"
        <4>1. aud' = [pc |-> "due", cursor |-> aud.cursor, batch |-> aud.batch,
                      answer |-> aud.answer]
          BY <1>1, <1>5, <3>1 DEF Tick, TypeOK, AuditTyped
        <4>2. QED  BY <1>1, <4>1 DEF TypeOK, AuditTyped, AuditKeeps
      <3>2. CASE aud.pc # "idle"
        <4>1. aud' = aud
          BY <1>1, <1>5, <3>2 DEF Tick, TypeOK, AuditTyped
        <4>2. QED  BY <1>3, <4>1
      <3>3. QED  BY <3>1, <3>2
    <2>4. QED  BY <1>2, <2>1, <2>2, <2>3
  <1>6. CASE Decay
    <2>1. Surroundings
      BY <1>1, <1>6, Decayed DEF Decay, Surroundings, TypeOK, PointsTyped, AnswersFit, Kept
    <2>2. QED  BY <1>2, <1>3, <1>6, <2>1, Decayed DEF Decay
  <1>7. CASE Audit
    <2>1. Surroundings
      BY <1>1, <1>7, Audited DEF Audit, Surroundings, TypeOK, PointsTyped, AnswersFit, Kept
    <2>2. DecayTyped'
      BY <1>1, <1>7 DEF Audit, decayVars, TypeOK, DecayTyped
    <2>3. NotesHold'
      BY <1>7, Audited, NotesStay DEF Audit, decayVars
    <2>4. QED  BY <1>2, <1>7, <2>1, <2>2, <2>3, Audited DEF Audit
  <1>8. CASE Die
    <2>1. Surroundings
      BY <1>1, <1>8, FreshFits DEF Die, Surroundings, TypeOK, PointsTyped, NoCopy, Kept
    <2>2. DecayTyped' /\ NotesHold'
      BY <1>8, AsleepKeeps DEF Die
    <2>3. AuditKeeps
      BY <1>8, RestingKeeps DEF Die
    <2>4. QED  BY <1>2, <2>1, <2>2, <2>3
  <1>9. CASE UNCHANGED vars
    BY <1>9 DEF vars, pointVars, decayVars, IInv, TypeOK, PointsTyped, DecayTyped,
       AuditTyped, SignalFits, Stored, AnswersFit, Fits, Current, NotesHold, DueSoft, DueDoomed
  <1>10. QED  BY <1>4, <1>5, <1>6, <1>7, <1>8, <1>9 DEF Next

LEMMA Invariance == Spec => []IInv
  <1>1. Init => IInv
    BY InvInit
  <1>2. IInv /\ [Next]_vars => IInv'
    BY InvNext
  <1>3. QED  BY <1>1, <1>2, PTL DEF Spec

-----------------------------------------------------------------------------
(* Every variable of both sweeps keeps its type.                           *)
THEOREM TypeCorrect == Spec => []TypeOK
  <1>1. IInv => TypeOK
    BY DEF IInv
  <1>2. QED  BY <1>1, Invariance, PTL

(* The signal of a memory fits the reference beside it, whichever requests *)
(* and checks overlap (staleness.ts:545-576).                              *)
THEOREM Signal == Spec => []SignalFits
  <1>1. IInv => SignalFits
    BY DEF IInv
  <1>2. QED  BY <1>1, Invariance, PTL

(* The decay sweep removes and hides only what deserved it when its page   *)
(* was read, unless a request wrote it since (decay.ts:166-202).           *)
THEOREM DecayDeserved == Spec => DecayTakesItsDue
  <1> DEFINE Step == \A i \in Stored : dec.pc = "write" =>
                LET before == pts[i]
                    removed == pts'[i] = NoPoint /\ dec'.pc = "idle"
                    hidden == dec'.pc = "write" /\ dec'.soft # dec.soft /\ i \notin dec'.soft /\ i \in dec.soft
                IN i \notin revived =>
                      /\ removed => before.gone > policy.grace /\ ~before.immortal
                      /\ hidden => before.gone = Live /\ ~before.hit /\ ~before.immortal
  <1>1. ASSUME IInv, [Next]_vars  PROVE Step
    <2>1. SUFFICES ASSUME NEW i \in Stored, dec.pc = "write", i \notin revived
                   PROVE  /\ pts'[i] = NoPoint /\ dec'.pc = "idle" => DueDoomed(pts[i])
                          /\ i \in dec.soft => DueSoft(pts[i])
      BY DEF DueDoomed, DueSoft
    <2>2. i \in dec.soft => DueSoft(pts[i])
      BY <1>1, <2>1 DEF IInv, NotesHold
    <2>3. ASSUME pts'[i] = NoPoint, dec'.pc = "idle"  PROVE DueDoomed(pts[i])
      <3>1. i \in Ids /\ pts[i] # NoPoint
        BY DEF Stored
      <3>2. CASE HardDelete
        BY <1>1, <2>1, <2>3, <3>1, <3>2 DEF HardDelete, IInv, NotesHold
      <3>3. ~HardDelete => pts' = pts \/ dec'.pc # "idle"
        BY <1>1, <2>1 DEF Next, vars, pointVars, decayVars, Request, Tick, Die, Decay, Audit,
           DecaySteps, StartDecay, Scan, SoftDelete, SoftDeleteFails, HardDeleteFails,
           IInv, TypeOK, DecayTyped
      <3>4. QED  BY <2>3, <3>1, <3>2, <3>3
    <2>4. QED  BY <2>2, <2>3
  <1>2. IInv /\ [Next]_vars => [Step]_vars
    BY <1>1
  <1>3. QED  BY <1>2, Invariance, PTL DEF Spec, DecayTakesItsDue
===============================================================================
