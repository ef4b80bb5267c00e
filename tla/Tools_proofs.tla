---------------------------- MODULE Tools_proofs ----------------------------
(***************************************************************************)
(* Proofs about what the tools and the console work on besides memories:   *)
(*   - the sessions of the HTTP transport (HttpSessions) and the tools for *)
(*     access tokens that run behind them (PatTools), for any number of    *)
(*     sessions, calls, tokens, envelopes and addresses and any caps;      *)
(*   - the files of the namespaces (NsFiles), for any number of            *)
(*     namespaces, agents, rules and calls.                                *)
(* The two parts have no state in common.                                  *)
(***************************************************************************)
EXTENDS PatTools, NsFiles, FiniteSetTheorems, TLAPS

(* A session id that was never given out has no call on it: PostNew counts *)
(* the first one from zero, which is what keeps it below the cap, since    *)
(* that path of the code does not ask.                                     *)
UnusedIdle == \A s \in Sids : status[s] = "unused" => inflight[s] = 0

TableInv == TypeOK /\ PlacesConserved /\ UnusedIdle

-----------------------------------------------------------------------------
(* The steps, by what they do to the table.                                *)
Touches ==    \* the table keeps its sessions or loses some, no call moves
    /\ UNCHANGED <<inflight, at>>
    /\ status' \in [Sids -> {"unused", "open", "gone"}]
    /\ \A s \in Sids : \/ status'[s] = status[s]
                       \/ status[s] = "open" /\ status'[s] = "gone"

Opens(c, s) ==
    /\ at[c] = Nowhere
    /\ status[s] = "unused" /\ Cardinality(Open) < MaxSessions
    /\ status' = [status EXCEPT ![s] = "open"]
    /\ inflight' = [inflight EXCEPT ![s] = @ + 1]
    /\ at' = [at EXCEPT ![c] = s]

Joins(c, s) ==
    /\ at[c] = Nowhere
    /\ status[s] = "open" /\ inflight[s] < MaxInflight
    /\ inflight' = [inflight EXCEPT ![s] = @ + 1]
    /\ at' = [at EXCEPT ![c] = s]
    /\ UNCHANGED status

Leaves(c) ==
    /\ at[c] # Nowhere
    /\ inflight' = [inflight EXCEPT ![at[c]] = @ - 1]
    /\ at' = [at EXCEPT ![c] = Nowhere]
    /\ UNCHANGED status

LEMMA RemovedTouches ==
    ASSUME TypeOK, NEW S, S \subseteq Open, Removed(S), UNCHANGED <<inflight, at>>
    PROVE  Touches
  BY DEF TypeOK, Open, Removed, Touches

LEMMA StepEffects ==
    ASSUME TypeOK, [Next]_httpVars
    PROVE  \/ Touches
           \/ \E c \in Calls, s \in Sids : Opens(c, s) \/ Joins(c, s)
           \/ \E c \in Calls : Leaves(c)
  <1> USE DEF httpVars, tableVars
  <1>1. ASSUME UNCHANGED <<status, inflight, at>>  PROVE Touches
    BY <1>1 DEF TypeOK, Touches
  <1>2. ASSUME NEW ip \in Ips, Throttled(ip) \/ AuthFails(ip)  PROVE Touches
    BY <1>1, <1>2 DEF Throttled, AuthFails
  <1>3. ASSUME NEW ip \in Ips, NEW p \in Pats, Unrouted(ip, p)  PROVE Touches
    BY <1>1, <1>3 DEF Unrouted
  <1>4. ASSUME NEW ip \in Ips, NEW p \in Pats, NEW s \in Sids, GetStream(ip, p, s)
        PROVE  Touches
    BY <1>1, <1>4 DEF GetStream
  <1>5. ASSUME NEW ip \in Ips, NEW p \in Pats, NEW s \in Sids, Delete(ip, p, s)
        PROVE  Touches
    <2>1. (IF ready[s] THEN {s} ELSE {}) \subseteq Open
      BY <1>5 DEF Delete, Routed, Open
    <2>2. QED  BY <1>5, <2>1, RemovedTouches DEF Delete
  <1>6. ASSUME NEW ip \in Ips, NEW p \in Pats, NEW c \in Calls, NEW s \in Sids,
               PostNew(c, ip, p, s)
        PROVE  Opens(c, s)
    BY <1>6 DEF PostNew, Opens
  <1>7. ASSUME NEW ip \in Ips, NEW p \in Pats, NEW c \in Calls, NEW s \in Sids,
               PostTo(c, ip, p, s)
        PROVE  Joins(c, s)
    BY <1>7 DEF PostTo, Routed, Joins
  <1>8. ASSUME NEW c \in Calls, Initialize(c)  PROVE Touches
    BY <1>1, <1>8 DEF Initialize
  <1>9. ASSUME NEW c \in Calls, EndCall(c)  PROVE Leaves(c)
    BY <1>9 DEF EndCall, Leaves
  <1>10. CASE IdleSweep
    <2>1. Expired \subseteq Open
      BY DEF Expired
    <2>2. QED  BY <1>10, <2>1, RemovedTouches DEF IdleSweep
  <1>11. CASE Shutdown
    BY <1>11, RemovedTouches DEF Shutdown
  <1>12. CASE Tick  BY <1>1, <1>12 DEF Tick
  <1>13. CASE UNCHANGED httpVars  BY <1>1, <1>13
  <1>14. QED
    BY <1>1, <1>2, <1>3, <1>4, <1>5, <1>6, <1>7, <1>8, <1>9, <1>10, <1>11, <1>12, <1>13
       DEF Next

-----------------------------------------------------------------------------
(* Counting.                                                               *)
LEMMA OnFinite ==
    ASSUME NEW s
    PROVE  IsFiniteSet(On(s)) /\ Cardinality(On(s)) \in Nat
  <1>1. IsFiniteSet(On(s))
    BY FS_Subset, NamesAssumption, On(s) \subseteq Calls DEF On
  <1>2. QED  BY <1>1, FS_CardinalityType

LEMMA OpenFinite == IsFiniteSet(Open) /\ Cardinality(Open) \in Nat
  <1>1. IsFiniteSet(Open)
    BY FS_Subset, NamesAssumption, Open \subseteq Sids DEF Open
  <1>2. QED  BY <1>1, FS_CardinalityType

(* A call that comes to a session is one more on it and on no other.       *)
LEMMA OneMore ==
    ASSUME TypeOK, NEW c \in Calls, NEW s \in Sids, at[c] = Nowhere,
           at' = [at EXCEPT ![c] = s]
    PROVE  \A t \in Sids : Cardinality(On(t)') =
              IF t = s THEN Cardinality(On(t)) + 1 ELSE Cardinality(On(t))
  <1> SUFFICES ASSUME NEW t \in Sids
               PROVE  Cardinality(On(t)') =
                  IF t = s THEN Cardinality(On(t)) + 1 ELSE Cardinality(On(t))
    OBVIOUS
  <1>1. CASE t = s
    <2>1. On(t)' = On(t) \cup {c} /\ c \notin On(t)
      BY <1>1, NamesAssumption DEF On, TypeOK
    <2>2. QED  BY <1>1, <2>1, OnFinite, FS_AddElement
  <1>2. CASE t # s
    <2>1. On(t)' = On(t)
      BY <1>2, NamesAssumption DEF On, TypeOK
    <2>2. QED  BY <1>2, <2>1
  <1>3. QED  BY <1>1, <1>2

LEMMA OneLess ==
    ASSUME TypeOK, NEW c \in Calls, at[c] # Nowhere,
           at' = [at EXCEPT ![c] = Nowhere]
    PROVE  /\ at[c] \in Sids
           /\ Cardinality(On(at[c])) > 0
           /\ \A t \in Sids : Cardinality(On(t)') =
                 IF t = at[c] THEN Cardinality(On(t)) - 1 ELSE Cardinality(On(t))
  <1>1. at[c] \in Sids
    BY DEF TypeOK
  <1>2. c \in On(at[c])
    BY DEF On
  <1>3. Cardinality(On(at[c])) > 0
    <2>1. Cardinality(On(at[c])) # 0
      BY <1>2, OnFinite, FS_EmptySet
    <2>2. QED  BY <2>1, OnFinite
  <1>4. ASSUME NEW t \in Sids
        PROVE  Cardinality(On(t)') =
                 IF t = at[c] THEN Cardinality(On(t)) - 1 ELSE Cardinality(On(t))
    <2>1. CASE t = at[c]
      <3>1. On(t)' = On(t) \ {c}
        BY <2>1, NamesAssumption DEF On, TypeOK
      <3>2. QED  BY <1>2, <2>1, <3>1, OnFinite, FS_RemoveElement
    <2>2. CASE t # at[c]
      <3>1. On(t)' = On(t)
        BY <2>2, NamesAssumption DEF On, TypeOK
      <3>2. QED  BY <2>2, <3>1
    <2>3. QED  BY <2>1, <2>2
  <1>5. QED  BY <1>1, <1>3, <1>4

(* The table grows only by PostNew.                                        *)
LEMMA FewerOpen ==
    ASSUME Cardinality(Open) <= MaxSessions, Open' \subseteq Open
    PROVE  (Cardinality(Open) <= MaxSessions)'
  <1>1. Cardinality(Open') <= Cardinality(Open) /\ Cardinality(Open') \in Nat
    BY OpenFinite, FS_Subset, FS_CardinalityType
  <1>2. QED  BY <1>1, OpenFinite, BoundsAssumption

-----------------------------------------------------------------------------
LEMMA TableTypeStep ==
    ASSUME TableInv, [Next]_httpVars
    PROVE  TypeOK'
  <1> USE DEF TypeOK, TableInv
  <1>1. ASSUME NEW ip \in Ips, Throttled(ip) \/ AuthFails(ip)  PROVE TypeOK'
    BY <1>1 DEF Throttled, AuthFails, httpVars, tableVars
  <1>2. ASSUME NEW ip \in Ips, NEW p \in Pats, Unrouted(ip, p)  PROVE TypeOK'
    BY <1>2 DEF Unrouted, tableVars
  <1>3. ASSUME NEW ip \in Ips, NEW p \in Pats, NEW s \in Sids, GetStream(ip, p, s)
        PROVE  TypeOK'
    BY <1>3, BoundsAssumption DEF GetStream
  <1>4. ASSUME NEW ip \in Ips, NEW p \in Pats, NEW s \in Sids, Delete(ip, p, s)
        PROVE  TypeOK'
    BY <1>4, BoundsAssumption DEF Delete, Removed
  <1>5. ASSUME NEW ip \in Ips, NEW p \in Pats, NEW c \in Calls, NEW s \in Sids,
               PostNew(c, ip, p, s)
        PROVE  TypeOK'
    BY <1>5, BoundsAssumption DEF PostNew
  <1>6. ASSUME NEW ip \in Ips, NEW p \in Pats, NEW c \in Calls, NEW s \in Sids,
               PostTo(c, ip, p, s)
        PROVE  TypeOK'
    BY <1>6, BoundsAssumption DEF PostTo
  <1>7. ASSUME NEW c \in Calls, Initialize(c)  PROVE TypeOK'
    BY <1>7 DEF Initialize
  <1>8. ASSUME NEW c \in Calls, EndCall(c)  PROVE TypeOK'
    <2>1. at[c] \in Sids /\ Cardinality(On(at[c])) > 0
      BY <1>8, OneLess DEF EndCall
    <2>2. inflight[at[c]] - 1 \in Nat
      BY <2>1, OnFinite DEF PlacesConserved
    <2>3. inflight' \in [Sids -> Nat]
      BY <1>8, <2>1, <2>2 DEF EndCall
    <2>4. QED  BY <1>8, <2>3 DEF EndCall
  <1>9. ASSUME NEW p \in Pats, (Issue(p) \/ Lapse(p)) /\ UNCHANGED <<up, tableVars, hits>>
        PROVE  TypeOK'
    BY <1>9 DEF Issue, Lapse, tableVars
  <1>10. CASE IdleSweep  BY <1>10, BoundsAssumption DEF IdleSweep, Removed, Forgotten
  <1>11. CASE Tick
    <2>1. age' \in [Sids -> 0..IdleLimit + 1]
      BY <1>11, BoundsAssumption DEF Tick
    <2>2. QED  BY <1>11, <2>1 DEF Tick
  <1>12. CASE Shutdown
    <2>1. age' \in [Sids -> 0..IdleLimit + 1]
      BY <1>12, BoundsAssumption DEF Shutdown, Forgotten
    <2>2. QED  BY <1>12, <2>1 DEF Shutdown, Removed
  <1>13. CASE UNCHANGED httpVars  BY <1>13 DEF httpVars, tableVars
  <1>14. QED
    BY <1>1, <1>2, <1>3, <1>4, <1>5, <1>6, <1>7, <1>8, <1>9, <1>10, <1>11, <1>12, <1>13
       DEF Next

LEMMA PlacesStep ==
    ASSUME TableInv, [Next]_httpVars
    PROVE  (PlacesConserved /\ UnusedIdle)'
  <1> USE DEF TableInv
  <1>1. CASE Touches
    <2>1. Open' \subseteq Open
      BY <1>1 DEF Touches, Open
    <2>2. \A s \in Sids : On(s)' = On(s)
      BY <1>1 DEF Touches, On
    <2>3. PlacesConserved'
      BY <1>1, <2>1, <2>2, FewerOpen DEF PlacesConserved, Touches
    <2>4. UnusedIdle'
      BY <1>1 DEF UnusedIdle, Touches
    <2>5. QED  BY <2>3, <2>4
  <1>2. ASSUME NEW c \in Calls, NEW s \in Sids, Opens(c, s)
        PROVE  (PlacesConserved /\ UnusedIdle)'
    <2>1. Open' = Open \cup {s} /\ s \notin Open
      BY <1>2 DEF Opens, Open, TypeOK
    <2>2. Cardinality(Open') = Cardinality(Open) + 1
      BY <2>1, OpenFinite, FS_AddElement
    <2>3. (Cardinality(Open) <= MaxSessions)'
      BY <1>2, <2>2, OpenFinite, BoundsAssumption DEF Opens
    <2>4. inflight[s] = 0
      BY <1>2 DEF Opens, UnusedIdle
    <2>5. \A t \in Sids : inflight'[t] = Cardinality(On(t)') /\ inflight'[t] <= MaxInflight
      <3>1. SUFFICES ASSUME NEW t \in Sids
                     PROVE  inflight'[t] = Cardinality(On(t)') /\ inflight'[t] <= MaxInflight
        OBVIOUS
      <3>2. Cardinality(On(t)') =
               IF t = s THEN Cardinality(On(t)) + 1 ELSE Cardinality(On(t))
        BY <1>2, OneMore DEF Opens
      <3>3. inflight[t] = Cardinality(On(t)) /\ inflight[t] <= MaxInflight
        BY DEF PlacesConserved
      <3>4. inflight'[t] = IF t = s THEN inflight[t] + 1 ELSE inflight[t]
        BY <1>2 DEF Opens, TypeOK
      <3>5. QED  BY <2>4, <3>2, <3>3, <3>4, BoundsAssumption
    <2>6. UnusedIdle'
      BY <1>2 DEF Opens, UnusedIdle, TypeOK
    <2>7. QED  BY <2>3, <2>5, <2>6 DEF PlacesConserved
  <1>3. ASSUME NEW c \in Calls, NEW s \in Sids, Joins(c, s)
        PROVE  (PlacesConserved /\ UnusedIdle)'
    <2>1. Open' = Open
      BY <1>3 DEF Joins, Open
    <2>2. \A t \in Sids : inflight'[t] = Cardinality(On(t)') /\ inflight'[t] <= MaxInflight
      <3>1. SUFFICES ASSUME NEW t \in Sids
                     PROVE  inflight'[t] = Cardinality(On(t)') /\ inflight'[t] <= MaxInflight
        OBVIOUS
      <3>2. Cardinality(On(t)') =
               IF t = s THEN Cardinality(On(t)) + 1 ELSE Cardinality(On(t))
        BY <1>3, OneMore DEF Joins
      <3>3. inflight[t] = Cardinality(On(t)) /\ inflight[t] <= MaxInflight
        BY DEF PlacesConserved
      <3>4. inflight'[t] = IF t = s THEN inflight[t] + 1 ELSE inflight[t]
        BY <1>3 DEF Joins, TypeOK
      <3>5. inflight[t] \in Nat /\ inflight[s] < MaxInflight
        BY <1>3 DEF Joins, TypeOK
      <3>6. QED  BY <3>2, <3>3, <3>4, <3>5, BoundsAssumption
    <2>3. UnusedIdle'
      BY <1>3 DEF Joins, UnusedIdle, TypeOK
    <2>4. QED  BY <2>1, <2>2, <2>3, FewerOpen DEF PlacesConserved
  <1>4. ASSUME NEW c \in Calls, Leaves(c)
        PROVE  (PlacesConserved /\ UnusedIdle)'
    <2>1. Open' = Open
      BY <1>4 DEF Leaves, Open
    <2>2. at[c] \in Sids /\ inflight[at[c]] > 0
      BY <1>4, OneLess DEF Leaves, PlacesConserved
    <2>3. \A t \in Sids : inflight'[t] = Cardinality(On(t)') /\ inflight'[t] <= MaxInflight
      <3>1. SUFFICES ASSUME NEW t \in Sids
                     PROVE  inflight'[t] = Cardinality(On(t)') /\ inflight'[t] <= MaxInflight
        OBVIOUS
      <3>2. Cardinality(On(t)') =
               IF t = at[c] THEN Cardinality(On(t)) - 1 ELSE Cardinality(On(t))
        BY <1>4, OneLess DEF Leaves
      <3>3. inflight[t] = Cardinality(On(t)) /\ inflight[t] <= MaxInflight
        BY DEF PlacesConserved
      <3>4. inflight'[t] = IF t = at[c] THEN inflight[t] - 1 ELSE inflight[t]
        BY <1>4, <2>2 DEF Leaves, TypeOK
      <3>5. inflight[t] \in Nat
        BY DEF TypeOK
      <3>6. QED  BY <3>2, <3>3, <3>4, <3>5, BoundsAssumption
    <2>4. UnusedIdle'
      BY <1>4, <2>2 DEF Leaves, UnusedIdle, TypeOK
    <2>5. QED  BY <2>1, <2>3, <2>4, FewerOpen DEF PlacesConserved
  <1>5. QED  BY <1>1, <1>2, <1>3, <1>4, StepEffects

LEMMA TableInit == Init => TableInv
  <1> SUFFICES ASSUME Init PROVE TableInv
    OBVIOUS
  <1> USE DEF Init
  <1>1. TypeOK
    BY BoundsAssumption DEF TypeOK
  <1>2. Open = {} /\ \A s \in Sids : On(s) = {}
    BY NamesAssumption DEF Open, On
  <1>3. PlacesConserved
    <2>1. Cardinality({}) = 0
      BY FS_EmptySet
    <2>2. \A s \in Sids : Cardinality(On(s)) = 0
      BY <1>2, <2>1
    <2>3. Cardinality(Open) = 0
      BY <1>2, <2>1
    <2>4. QED  BY <2>2, <2>3, BoundsAssumption DEF PlacesConserved
  <1>4. QED  BY <1>1, <1>3 DEF TableInv, UnusedIdle

LEMMA TableNext == TableInv /\ [Next]_httpVars => TableInv'
  BY TableTypeStep, PlacesStep DEF TableInv

LEMMA TableInvariance == Spec => []TableInv
  BY TableInit, TableNext, PTL DEF Spec

-----------------------------------------------------------------------------
(* Every variable of the transport keeps its type; no in-flight counter    *)
(* goes below zero (http.ts:700-706, 738-744).                             *)
THEOREM TypeCorrect == Spec => []TypeOK
  <1>1. TableInv => TypeOK
    BY DEF TableInv
  <1>2. QED  BY <1>1, TableInvariance, PTL

(* The table keeps its cap, and a session's counter is the number of its   *)
(* unfinished calls, whatever happens to the session under them.           *)
THEOREM Places == Spec => []PlacesConserved
  <1>1. TableInv => PlacesConserved
    BY DEF TableInv
  <1>2. QED  BY <1>1, TableInvariance, PTL

-----------------------------------------------------------------------------
(* The ceremony.  An envelope that was accepted is no longer blank, so its *)
(* place is never issued again, and its mark stays while two ticks or more *)
(* are left to it: no collection, however late its clock, takes it before. *)
Kept == \A k \in Envelopes : uses[k] > 0 =>
            /\ issued[k].sid \in Sids
            /\ issued[k].left > 1 => k \in marked

CeremonyType ==
    /\ holder \in [Pats -> Profiles \cup {NoProfile}]
    /\ job \in [Calls -> [pc : {"idle", "new", "deed", "revoke", "done"}, input : Inputs]]
    /\ issued \in [Envelopes -> [sid : Sids \cup {Nowhere}, input : Inputs, left : 0..Ttl]]
    /\ marked \subseteq Envelopes
    /\ uses \in [Envelopes -> 0..2]

ToolInv == TableInv /\ CeremonyType /\ Kept

(* The steps, by what they do to the envelopes.                            *)
Calm ==      \* nothing, and no deed begins
    /\ UNCHANGED <<issued, marked, uses>>
    /\ \A c \in Calls : job[c].pc = "new" => job'[c].pc # "deed"

LEMMA FinishedCalm ==
    ASSUME CeremonyType, NEW c \in Calls, Finished(c)
    PROVE  /\ job' \in [Calls -> [pc : {"idle", "new", "deed", "revoke", "done"}, input : Inputs]]
           /\ \A d \in Calls : job[d].pc = "new" => job'[d].pc # "deed"
  BY DEF CeremonyType, Finished, NoJob, Job, Inputs

(* Every step is calm, or one of the four that touch envelopes.            *)
LEMMA ToolEffects ==
    ASSUME CeremonyType, [ToolNext]_vars
    PROVE  \/ Calm
           \/ ToolTick
           \/ \E c \in Calls, s \in Sids, i \in Inputs, k \in Envelopes : 
                 \/ Ask(c, s, i, k)
                 \/ \E late \in BOOLEAN : Confirm(c, s, i, k, late) \/ Reject(c, s, i, k, late)
  <1>1. ASSUME UNCHANGED <<job, issued, marked, uses>>  PROVE Calm
    BY <1>1 DEF Calm, CeremonyType
  <1>2. ASSUME NEW c \in Calls, Finished(c), UNCHANGED <<issued, marked, uses>>  PROVE Calm
    BY <1>2, FinishedCalm DEF Calm
  <1>3. CASE Transport
    BY <1>1, <1>3 DEF Transport, toolVars
  <1>4. CASE Outside
    BY <1>1, <1>4 DEF Outside
  <1>5. ASSUME NEW c \in Calls, End(c)  PROVE Calm
    BY <1>5 DEF End, Calm, CeremonyType, NoJob, Job
  <1>6. ASSUME NEW c \in Calls, Revoked(c) \/ Failed(c)  PROVE Calm
    BY <1>2, <1>6 DEF Revoked, Failed
  <1>7. ASSUME NEW c \in Calls, NEW p \in Pats, Rotated(c, p)  PROVE Calm
    BY <1>2, <1>7 DEF Rotated
  <1>8. ASSUME NEW c \in Calls, NEW p \in Pats, NEW f \in Profiles, Minted(c, p, f)  PROVE Calm
    BY <1>2, <1>8 DEF Minted
  <1>9. ASSUME NEW c \in Calls, NEW ip \in Ips, NEW p \in Pats, NEW s \in Sids, Begin(c, ip, p, s)
        PROVE  Calm
    BY <1>9 DEF Begin, Calm, CeremonyType, Job
  <1>10. ASSUME NEW c \in Calls, NEW s \in Sids, Answer(c, s)  PROVE Calm
    BY <1>2, <1>10 DEF Answer
  <1>11. ASSUME NEW c \in Calls, NEW s \in Sids, NEW p \in Pats, AskRevoke(c, s, p)  PROVE Calm
    BY <1>11 DEF AskRevoke, Calm, CeremonyType, Job
  <1>12. CASE UNCHANGED vars
    BY <1>1, <1>12 DEF vars, toolVars
  <1>13. QED
    BY <1>3, <1>4, <1>5, <1>6, <1>7, <1>8, <1>9, <1>10, <1>11, <1>12 DEF ToolNext, Handler

(* What the tools do to the transport is a step of it, but for rotations,  *)
(* which change two tokens at once, and those leave the table alone.       *)
LEMMA ToolTable ==
    ASSUME TypeOK, CeremonyType, [ToolNext]_vars
    PROVE  \/ [Next]_httpVars
           \/ UNCHANGED <<up, tableVars, hits>> /\ pats' \in [Pats -> {"free", "live", "expired", "dead"}]
  <1> DEFINE Aside == UNCHANGED <<up, tableVars, hits>> /\ pats' \in [Pats -> {"free", "live", "expired", "dead"}]
  <1>1. CASE Transport
    BY <1>1 DEF Transport, Next
  <1>2. CASE Outside
    BY <1>2 DEF Outside, Issued, Issue, Ends, Standing, TypeOK
  <1>3. CASE ToolTick
    BY <1>3 DEF ToolTick, Next
  <1>4. ASSUME NEW c \in Calls, End(c)  PROVE Next
    BY <1>4 DEF End, Next
  <1>5. ASSUME NEW c \in Calls, Revoked(c)  PROVE Aside
    BY <1>5 DEF Revoked, TypeOK
  <1>6. ASSUME NEW c \in Calls, NEW p \in Pats, Rotated(c, p)  PROVE Aside
    BY <1>6 DEF Rotated, TypeOK
  <1>7. ASSUME NEW c \in Calls, NEW p \in Pats, NEW f \in Profiles, Minted(c, p, f)  PROVE Aside
    BY <1>7 DEF Minted, Issued, Issue, TypeOK
  <1>8. ASSUME NEW c \in Calls, NEW ip \in Ips, NEW p \in Pats, NEW s \in Sids, Begin(c, ip, p, s)
        PROVE  Next
    BY <1>8 DEF Begin, Next
  <1>9. ASSUME NEW c \in Calls, Failed(c)  PROVE UNCHANGED httpVars
    BY <1>9 DEF Failed
  <1>10. ASSUME NEW c \in Calls, NEW s \in Sids, Handler(c, s)  PROVE UNCHANGED httpVars
    BY <1>10 DEF Handler, Answer, AskRevoke, Ask, Confirm, Reject
  <1>11. CASE UNCHANGED vars
    BY <1>11 DEF vars
  <1>12. QED
    BY <1>1, <1>2, <1>3, <1>4, <1>5, <1>6, <1>7, <1>8, <1>9, <1>10, <1>11 DEF ToolNext

LEMMA ToolTableInv ==
    ASSUME TableInv, CeremonyType, [ToolNext]_vars
    PROVE  TableInv'
  <1>1. CASE [Next]_httpVars
    BY <1>1, TableNext
  <1>2. CASE UNCHANGED <<up, tableVars, hits>> /\ pats' \in [Pats -> {"free", "live", "expired", "dead"}]
    BY <1>2 DEF tableVars, TableInv, TypeOK, PlacesConserved, UnusedIdle, Open, On
  <1>3. QED  BY <1>1, <1>2, ToolTable DEF TableInv

LEMMA CeremonyTypeStep ==
    ASSUME TypeOK, CeremonyType, [ToolNext]_vars
    PROVE  CeremonyType'
  <1> DEFINE JobType == job' \in [Calls -> [pc : {"idle", "new", "deed", "revoke", "done"}, input : Inputs]]
  <1>1. ASSUME NEW c \in Calls, Finished(c)  PROVE JobType
    BY <1>1, FinishedCalm
  <1>2. CASE Transport
    BY <1>2 DEF Transport, toolVars, CeremonyType
  <1>3. CASE Outside
    BY <1>3 DEF Outside, Issued, CeremonyType
  <1>4. CASE ToolTick
    <2>1. ASSUME NEW k \in Envelopes
          PROVE  [issued[k] EXCEPT !.left = IF @ > 0 THEN @ - 1 ELSE 0]
                    \in [sid : Sids \cup {Nowhere}, input : Inputs, left : 0..Ttl]
      <3>1. issued[k] \in [sid : Sids \cup {Nowhere}, input : Inputs, left : 0..Ttl]
        BY DEF CeremonyType
      <3>2. (IF issued[k].left > 0 THEN issued[k].left - 1 ELSE 0) \in 0..Ttl
        BY <3>1, ToolsAssumption
      <3>3. QED  BY <3>1, <3>2
    <2>2. QED  BY <1>4, <2>1 DEF ToolTick, CeremonyType
  <1>5. ASSUME NEW c \in Calls, End(c)  PROVE CeremonyType'
    BY <1>5 DEF End, CeremonyType, NoJob, Job, Inputs
  <1>6. ASSUME NEW c \in Calls, Revoked(c) \/ Failed(c)  PROVE CeremonyType'
    BY <1>1, <1>6 DEF Revoked, Failed, CeremonyType
  <1>7. ASSUME NEW c \in Calls, NEW p \in Pats, Rotated(c, p)  PROVE CeremonyType'
    BY <1>1, <1>7 DEF Rotated, CeremonyType
  <1>8. ASSUME NEW c \in Calls, NEW p \in Pats, NEW f \in Profiles, Minted(c, p, f)
        PROVE  CeremonyType'
    BY <1>1, <1>8 DEF Minted, Issued, CeremonyType
  <1>9. ASSUME NEW c \in Calls, NEW ip \in Ips, NEW p \in Pats, NEW s \in Sids, Begin(c, ip, p, s)
        PROVE  CeremonyType'
    BY <1>9 DEF Begin, CeremonyType, Job, Inputs
  <1>10. ASSUME NEW c \in Calls, NEW s \in Sids, Answer(c, s)  PROVE CeremonyType'
    BY <1>1, <1>10 DEF Answer, CeremonyType
  <1>11. ASSUME NEW c \in Calls, NEW s \in Sids, NEW p \in Pats, AskRevoke(c, s, p)
         PROVE  CeremonyType'
    BY <1>11 DEF AskRevoke, CeremonyType, Job, Inputs
  <1>12. ASSUME NEW c \in Calls, NEW s \in Sids, NEW i \in Inputs, NEW k \in Envelopes, Ask(c, s, i, k)
         PROVE  CeremonyType'
    BY <1>1, <1>12, ToolsAssumption DEF Ask, CeremonyType
  <1>13. ASSUME NEW c \in Calls, NEW s \in Sids, NEW i \in Inputs, NEW k \in Envelopes,
                NEW late \in BOOLEAN, Confirm(c, s, i, k, late)
         PROVE  CeremonyType'
    BY <1>13 DEF Confirm, CeremonyType, Job, Uncollected
  <1>14. ASSUME NEW c \in Calls, NEW s \in Sids, NEW i \in Inputs, NEW k \in Envelopes,
                NEW late \in BOOLEAN, Reject(c, s, i, k, late)
         PROVE  CeremonyType'
    BY <1>1, <1>14 DEF Reject, CeremonyType, Uncollected
  <1>15. CASE UNCHANGED vars
    BY <1>15 DEF vars, toolVars, CeremonyType
  <1>16. QED
    BY <1>2, <1>3, <1>4, <1>5, <1>6, <1>7, <1>8, <1>9, <1>10, <1>11, <1>12, <1>13, <1>14, <1>15
       DEF ToolNext, Handler

LEMMA KeptStep ==
    ASSUME CeremonyType, Kept, [ToolNext]_vars
    PROVE  Kept'
  <1> USE DEF CeremonyType, Kept
  <1>1. CASE Calm
    BY <1>1 DEF Calm
  <1>2. CASE ToolTick
    BY <1>2 DEF ToolTick
  <1>3. ASSUME NEW c \in Calls, NEW s \in Sids, NEW i \in Inputs, NEW k \in Envelopes, Ask(c, s, i, k)
        PROVE  Kept'
    BY <1>3, NamesAssumption DEF Ask, Blank
  <1>4. ASSUME NEW c \in Calls, NEW s \in Sids, NEW i \in Inputs, NEW k \in Envelopes,
               NEW late \in BOOLEAN, Confirm(c, s, i, k, late)
        PROVE  Kept'
    BY <1>4 DEF Confirm, Uncollected, Verified
  <1>5. ASSUME NEW c \in Calls, NEW s \in Sids, NEW i \in Inputs, NEW k \in Envelopes,
               NEW late \in BOOLEAN, Reject(c, s, i, k, late)
        PROVE  Kept'
    BY <1>5 DEF Reject, Uncollected
  <1>6. QED  BY <1>1, <1>2, <1>3, <1>4, <1>5, ToolEffects

LEMMA ToolInvInit == ToolInit => ToolInv
  <1> SUFFICES ASSUME ToolInit PROVE ToolInv
    OBVIOUS
  <1>1. TableInv
    BY TableInit DEF ToolInit
  <1>2. CeremonyType /\ Kept
    BY ToolsAssumption DEF ToolInit, CeremonyType, Kept, NoJob, Job, Blank, Inputs
  <1>3. QED  BY <1>1, <1>2 DEF ToolInv

LEMMA ToolInvNext == ToolInv /\ [ToolNext]_vars => ToolInv'
  BY ToolTableInv, CeremonyTypeStep, KeptStep DEF ToolInv, TableInv

LEMMA ToolInvariance == ToolSpec => []ToolInv
  BY ToolInvInit, ToolInvNext, PTL DEF ToolSpec

(* The table keeps its places also under handlers that outlive their       *)
(* sessions and their calls (http.ts:700-706, 738-744).                    *)
THEOREM ToolPlaces == ToolSpec => [](TypeOK /\ PlacesConserved)
  <1>1. ToolInv => TypeOK /\ PlacesConserved
    BY DEF ToolInv, TableInv
  <1>2. QED  BY <1>1, ToolInvariance, PTL

(* An accepted envelope whose life has two ticks or more to go is marked,  *)
(* so the second acceptance finds the mark.                                *)
LEMMA ReplayStep ==
    ASSUME ToolInv, [ToolNext]_vars, NEW k \in Envelopes, uses'[k] # uses[k], uses[k] > 0
    PROVE  issued[k].left = 1
  <1> USE DEF ToolInv, CeremonyType
  <1>1. PICK c \in Calls, s \in Sids, i \in Inputs, late \in BOOLEAN : Confirm(c, s, i, k, late)
    BY ToolEffects DEF Calm, ToolTick, Ask, Reject, Confirm
  <1>2. issued[k].left > 0 /\ issued[k].sid = s /\ k \notin Uncollected(s, late)
    BY <1>1 DEF Confirm, Verified
  <1>3. issued[k].left > 1 => k \in marked
    BY DEF Kept
  <1>4. issued[k].left \in Nat
    OBVIOUS
  <1>5. QED  BY <1>2, <1>3, <1>4 DEF Uncollected

(* An envelope that was accepted once is accepted again in no other moment *)
(* than the last tick of its life (confirmation.ts:64, 84, 93-98).         *)
THEOREM NoEarlyReplay == ToolSpec => ReplayOnlyAtExpiry
  <1>1. ToolInv /\ [ToolNext]_vars =>
           [\A k \in Envelopes : uses'[k] # uses[k] /\ uses[k] > 0 => issued[k].left = 1]_vars
    BY ReplayStep
  <1>2. QED  BY <1>1, ToolInvariance, PTL DEF ToolSpec, ReplayOnlyAtExpiry

LEMMA DeedStep ==
    ASSUME ToolInv, [ToolNext]_vars, NEW c \in Calls, job[c].pc = "new", job'[c].pc = "deed"
    PROVE  \E k \in Envelopes :
              /\ issued[k].sid = at[c]
              /\ issued[k].input = job'[c].input
              /\ issued[k].left > 0
              /\ uses[k] = 0 \/ issued[k].left = 1
  <1> USE DEF ToolInv, CeremonyType
  <1>1. \A d \in Calls : Finished(d) => job'[c].pc # "deed"
    BY FinishedCalm
  <1>2. PICK s \in Sids, i \in Inputs, k \in Envelopes, late \in BOOLEAN : Confirm(c, s, i, k, late)
    BY <1>1, ToolEffects DEF Calm, ToolTick, Ask, Reject, Confirm
  <1>3. /\ issued[k].sid = at[c] /\ issued[k].left > 0
        /\ issued[k].input = job'[c].input
    BY <1>2 DEF Confirm, Verified, Dispatched, Job
  <1>4. uses[k] = 0 \/ issued[k].left = 1
    <2>1. CASE uses'[k] # uses[k]
      BY <2>1, ReplayStep
    <2>2. CASE uses'[k] = uses[k]
      <3>1. uses[k] = 2
        BY <1>2, <2>2 DEF Confirm
      <3>2. QED
        BY <1>2, <3>1 DEF Confirm, Verified, Uncollected, Kept
    <2>3. QED  BY <2>1, <2>2
  <1>5. QED  BY <1>3, <1>4

(* What is carried out after a confirmation is what an unexpired envelope  *)
(* showed on the same session (auth/tools.ts:189-209).                     *)
THEOREM DeedsShown == ToolSpec => DeedsWereShown
  <1>1. ToolInv /\ [ToolNext]_vars =>
           [\A c \in Calls : job[c].pc = "new" /\ job'[c].pc = "deed" =>
              \E k \in Envelopes :
                 /\ issued[k].sid = at[c]
                 /\ issued[k].input = job'[c].input
                 /\ issued[k].left > 0
                 /\ uses[k] = 0 \/ issued[k].left = 1]_vars
    BY DeedStep
  <1>2. QED  BY <1>1, ToolInvariance, PTL DEF ToolSpec, DeedsWereShown

-----------------------------------------------------------------------------
(* The files of the namespaces.                                            *)
Dirs == {NoDir} \cup (Ids \X {"start"}) \cup (Reqs \X {"create", "prepare", "relist"})

Steps == {"idle", "create", "delete", "look", "revoke", "authorize", "load", "locked", "save",
          "fill", "settings", "draft", "check", "list", "walk", "pruned", "rule", "prepare",
          "unlink", "rename", "relist", "index", "done", "failed"}

Directories == [dir : Dirs, ns : Settings \cup {Absent, Torn, Garbled}, members : MemberMaps \cup {Absent, Torn},
                rules : SUBSET RuleIds, index : SUBSET RuleIds]

Requests == [pc : Steps, task : Tasks, dir : Dirs]

FilesType ==
    /\ fs \in [Ids -> Directories]
    /\ req \in [Reqs -> Requests]
    /\ tokens \in [Holders -> Nat]
    /\ lock \in [Ids -> Seq(Reqs)] /\ ruleLock \in [Ids -> Seq(Reqs)]
    /\ copy \in [Reqs -> MemberMaps] /\ draft \in [Reqs -> Settings]
    /\ book \in [Ids -> MemberMaps]
    /\ walk \in [Reqs -> SUBSET Ids] /\ due \in [Reqs -> SUBSET Ids]
    /\ seen \in [Reqs -> SUBSET RuleIds]

(* Past its wait, a write of the rules is at the head of its lock.         *)
WritersFirst == \A r \in Reqs : req[r].pc \in {"rename", "relist", "index"} => FirstWriter(r)

(* The steps of a prune are made by revocations.                           *)
Revoking == \A r \in Reqs :
    req[r].pc \in {"revoke", "check", "list", "walk", "pruned"} => Doing(r, {"revoke"})

(* A call r goes on to step p, with directory d in its hands.              *)
Moves(r, p, d) ==
    /\ req'[r].pc = p /\ req'[r].task = req[r].task /\ req'[r].dir = d
    /\ \A q \in Reqs : q # r => req'[q] = req[q]
    /\ req' \in [Reqs -> Requests]

LEMMA GotoMoves ==
    ASSUME FilesType, NEW r \in Reqs, NEW p \in Steps, Goto(r, p)
    PROVE  Moves(r, p, req[r].dir)
  BY ZenonT(30) DEF FilesType, Requests, Goto, Moves

LEMMA TakesMoves ==
    ASSUME FilesType, NEW r \in Reqs, NEW p \in Steps, NEW d \in Dirs,
           req' = [req EXCEPT ![r].pc = p, ![r].dir = d]
    PROVE  Moves(r, p, d)
  BY ZenonT(30) DEF FilesType, Requests, Moves

LEMMA TaskType ==
    ASSUME FilesType, NEW r \in Reqs
    PROVE  /\ req[r] \in Requests /\ req[r].task \in Tasks
           /\ Id(r) \in Ids /\ Who(r) \in Agents /\ RuleId(r) \in RuleIds /\ req[r].task.op \in Ops
           /\ Here(r) \in Directories
           /\ Doing(r, {"revoke"}) => Who(r) \in Holders
  BY DirectoryAssumption, MembersAssumption
     DEF FilesType, Requests, Id, Who, RuleId, Here, Doing

LEMMA MadeType ==
    ASSUME NEW r \in Reqs, req[r].pc \in {"create", "prepare", "relist"}
    PROVE  Made(r) \in Dirs /\ Made(r) # NoDir
  BY DirectoryAssumption DEF Made, Dirs

LEMMA OnlyOwnerType == ASSUME NEW a \in Agents PROVE OnlyOwner(a) \in MemberMaps
  BY DEF OnlyOwner, MemberMaps, Levels

LEMMA NothingType == Nothing \in Directories /\ Nothing.dir = NoDir
  BY DEF Nothing, Directories, Dirs

LEMMA SkeletonType ==
    ASSUME NEW d \in Dirs, NEW a \in Agents
    PROVE  Skeleton(d, a) \in Directories /\ Skeleton(d, a).dir = d
  BY OnlyOwnerType DEF Skeleton, Directories, Settings

LEMMA MembersType ==
    ASSUME FilesType, NEW k \in Ids, fs[k].members # Torn
    PROVE  Members(k) \in MemberMaps
  BY DEF FilesType, Directories, Members, MemberMaps, Levels

LEMMA ChangeType ==
    ASSUME NEW t \in Tasks, NEW m \in MemberMaps
    PROVE  /\ Change(t, m) \in MemberMaps
           /\ \A a \in Agents : a # t.who => Change(t, m)[a] = m[a]
           /\ t.op \notin {"add", "share"} => Change(t, m)[t.who] = "none"
  BY DirectoryAssumption DEF Change, MemberMaps, Levels

LEMMA TypeInit == FilesInit => FilesType
  <1> SUFFICES ASSUME FilesInit PROVE FilesType
    OBVIOUS
  <1> USE DEF FilesInit, DirInit, MemInit, RuleInit
  <1>1. \A i \in Ids : Skeleton(<<i, "start">>, Founder) \in Directories
    BY SkeletonType, DirectoryAssumption DEF Dirs
  <1>2. (CHOOSE t \in Tasks : TRUE) \in Tasks
    BY DirectoryAssumption
  <1>3. req \in [Reqs -> Requests]
    BY <1>2 DEF Requests, Steps, Dirs
  <1>4. OnlyOwner(Founder) \in MemberMaps /\ [owner |-> Founder, changes |-> {}] \in Settings
    BY OnlyOwnerType, DirectoryAssumption DEF Settings
  <1>5. QED  BY <1>1, <1>3, <1>4 DEF FilesType

LEMMA FirstStepType == ASSUME NEW t \in Tasks PROVE FirstStep(t) \in Steps
  BY DirectoryAssumption DEF FirstStep, Steps, Ops

LEMMA AfterType == ASSUME NEW r, NEW ok PROVE After(r, ok) \in {"walk", "done", "failed"}
  BY DEF After

LEMMA WithoutType ==
    ASSUME NEW s \in Seq(Reqs), NEW r
    PROVE  Without(s, r) \in Seq(Reqs)
  <1>1. CASE s # << >> /\ Head(s) = r
    BY <1>1 DEF Without
  <1>2. CASE ~(s # << >> /\ Head(s) = r)
    BY <1>2 DEF Without
  <1>3. QED  BY <1>1, <1>2

LEMMA LockTypes ==
    ASSUME FilesType, NEW r \in Reqs, NEW k \in Ids
    PROVE  /\ Enter(r, k) => lock' \in [Ids -> Seq(Reqs)]
           /\ lock[k] # << >> /\ Leave(k) => lock' \in [Ids -> Seq(Reqs)]
           /\ ruleLock[Id(r)] # << >> /\ Released(r) => ruleLock' \in [Ids -> Seq(Reqs)]
  <1>1. lock \in [Ids -> Seq(Reqs)] /\ ruleLock \in [Ids -> Seq(Reqs)] /\ Id(r) \in Ids
    BY TaskType DEF FilesType
  <1>2. Append(lock[k], r) \in Seq(Reqs)
    BY <1>1
  <1>3. lock[k] # << >> => Tail(lock[k]) \in Seq(Reqs)
    BY <1>1
  <1>4. ruleLock[Id(r)] # << >> => Tail(ruleLock[Id(r)]) \in Seq(Reqs)
    BY <1>1
  <1>5. QED  BY <1>1, <1>2, <1>3, <1>4 DEF Enter, Leave, Released

(* The calls that have got through to a lock.                              *)
LEMMA InNonempty ==
    ASSUME FilesType, NEW r, NEW k \in Ids, In(r, k)
    PROVE  lock[k] # << >>
  BY DEF FilesType, In

(* One file of a directory is written.                                     *)
LEMMA WriteTypes ==
    ASSUME FilesType, NEW k \in Ids
    PROVE  /\ \A m \in MemberMaps \cup {Absent, Torn} : [fs EXCEPT ![k].members = m] \in [Ids -> Directories]
           /\ \A n \in Settings \cup {Absent, Torn, Garbled} : [fs EXCEPT ![k].ns = n] \in [Ids -> Directories]
           /\ \A s : s \in SUBSET RuleIds => /\ [fs EXCEPT ![k].rules = s] \in [Ids -> Directories]
                                            /\ [fs EXCEPT ![k].index = s] \in [Ids -> Directories]
  <1>1. fs \in [Ids -> Directories] /\ fs[k] \in Directories
    BY DEF FilesType
  <1>2. ASSUME NEW m \in MemberMaps \cup {Absent, Torn}  PROVE [fs[k] EXCEPT !.members = m] \in Directories
    BY <1>1 DEF Directories
  <1>3. ASSUME NEW n \in Settings \cup {Absent, Torn, Garbled}  PROVE [fs[k] EXCEPT !.ns = n] \in Directories
    BY <1>1 DEF Directories
  <1>4. ASSUME NEW s \in SUBSET RuleIds
        PROVE  [fs[k] EXCEPT !.rules = s] \in Directories /\ [fs[k] EXCEPT !.index = s] \in Directories
    BY <1>1 DEF Directories
  <1>5. QED  BY <1>1, <1>2, <1>3, <1>4

LEMMA DirectoryTypes ==
    ASSUME FilesType, NEW r \in Reqs,
           Arrive(r) \/ Authorize(r) \/ Look(r) \/ Exists(r), UNCHANGED <<memVars, ruleVars>>
    PROVE  FilesType'
  <1>1. req' \in [Reqs -> Requests] /\ fs' = fs
    <2>1. CASE Arrive(r)
      BY <2>1, FirstStepType DEF Arrive, FilesType, Requests, Dirs
    <2>2. CASE Authorize(r)
      <3>1. PICK p \in {"failed", "rule", "load"} : Goto(r, p)
        BY <2>2 DEF Authorize
      <3>2. QED  BY <2>2, <3>1, GotoMoves DEF Authorize, Moves, Steps
    <2>3. CASE Look(r)
      <3>1. PICK p \in {"failed", "done"} : Goto(r, p)
        BY <2>3 DEF Look
      <3>2. QED  BY <2>3, <3>1, GotoMoves DEF Look, Moves, Steps
    <2>4. CASE Exists(r)
      BY <2>4, GotoMoves DEF Exists, Fail, Moves, Steps
    <2>5. QED  BY <2>1, <2>2, <2>3, <2>4
  <1>2. QED  BY <1>1 DEF FilesType, memVars, ruleVars

LEMMA FoundedTypes == ASSUME FilesType, NEW r \in Reqs, Founded(r) PROVE FilesType'
  <1>1. Moves(r, "done", req[r].dir)
    BY GotoMoves DEF Founded, CreateSkeleton, Steps
  <1>2. fs' \in [Ids -> Directories] /\ book' \in [Ids -> MemberMaps]
    BY SkeletonType, OnlyOwnerType, MadeType, TaskType DEF Founded, CreateSkeleton, At, FilesType
  <1>3. QED  BY <1>1, <1>2 DEF Moves, Founded, FilesType, ruleVars

LEMMA MovedTypes == ASSUME FilesType, NEW r \in Reqs, Moved(r) PROVE FilesType'
  <1>1. PICK p \in {"done", "failed"} : Goto(r, p)
    BY DEF Moved, SoftDelete, Fail
  <1>2. fs' \in [Ids -> Directories]
    BY NothingType, TaskType DEF Moved, SoftDelete, FilesType
  <1>3. book' \in [Ids -> MemberMaps]
    BY TaskType DEF Moved, FilesType, MemberMaps, Levels
  <1>4. QED  BY <1>1, <1>2, <1>3, GotoMoves DEF Moves, Moved, SoftDelete, FilesType, ruleVars, Steps

LEMMA LoadTypes == ASSUME FilesType, NEW r \in Reqs, Load(r), UNCHANGED ruleVars PROVE FilesType'
  <1>1. req' \in [Reqs -> Requests] /\ lock' \in [Ids -> Seq(Reqs)] /\ draft' \in [Reqs -> Settings]
    <2> USE DEF Load
    <2>1. CASE Fail(r) /\ UNCHANGED <<lock, draft>>
      BY <2>1, GotoMoves DEF Fail, Moves, Steps, FilesType
    <2>2. CASE Goto(r, "locked") /\ Enter(r, Id(r)) /\ UNCHANGED draft
      BY <2>2, GotoMoves, LockTypes, TaskType DEF Moves, Steps, FilesType
    <2>3. CASE /\ Whole(Here(r).ns)
               /\ draft' = [draft EXCEPT ![r] = [Here(r).ns EXCEPT !.changes = @ \cup {r}]]
               /\ req' = [req EXCEPT ![r].pc = "settings", ![r].dir = Here(r).dir]
               /\ UNCHANGED lock
      <3>1. Here(r).ns \in Settings /\ Here(r).dir \in Dirs
        BY <2>3, TaskType DEF Whole, Broken, Directories
      <3>2. [Here(r).ns EXCEPT !.changes = @ \cup {r}] \in Settings
        BY <3>1 DEF Settings
      <3>3. Moves(r, "settings", Here(r).dir)
        BY <2>3, <3>1, TakesMoves DEF Steps
      <3>4. QED  BY <2>3, <3>2, <3>3 DEF Moves, FilesType
    <2>4. CASE Goto(r, "rule") /\ UNCHANGED <<lock, draft>>
      BY <2>4, GotoMoves DEF Moves, Steps, FilesType
    <2>5. QED  BY <2>1, <2>2, <2>3, <2>4
  <1>2. QED  BY <1>1 DEF Load, FilesType, ruleVars

LEMMA ReadTypes ==
    ASSUME FilesType, NEW r \in Reqs, NEW k \in Ids, Read(r, k), UNCHANGED ruleVars
    PROVE  FilesType'
  <1>1. req' \in [Reqs -> Requests] /\ lock' \in [Ids -> Seq(Reqs)] /\ copy' \in [Reqs -> MemberMaps]
    <2>1. CASE /\ Goto(r, After(r, fs[k].members # Torn)) /\ Leave(k) /\ UNCHANGED copy
      <3>1. lock[k] # << >>
        BY InNonempty DEF Read, First
      <3>2. After(r, fs[k].members # Torn) \in Steps
        BY AfterType DEF Steps
      <3>3. QED  BY <2>1, <3>1, <3>2, LockTypes, GotoMoves DEF Moves, FilesType
    <2>2. CASE /\ fs[k].members # Torn
               /\ copy' = [copy EXCEPT ![r] = Change(req[r].task, Members(k))]
               /\ req' = [req EXCEPT ![r].pc = "save", ![r].dir = fs[k].dir]
               /\ UNCHANGED lock
      <3>1. Change(req[r].task, Members(k)) \in MemberMaps /\ fs[k].dir \in Dirs
        BY <2>2, ChangeType, MembersType, TaskType DEF FilesType, Directories
      <3>2. Moves(r, "save", fs[k].dir)
        BY <2>2, <3>1, TakesMoves DEF Steps
      <3>3. QED  BY <2>2, <3>1, <3>2 DEF Moves, FilesType
    <2>3. QED  BY <2>1, <2>2 DEF Read
  <1>2. QED  BY <1>1 DEF Read, FilesType, ruleVars

LEMMA TruncateTypes ==
    ASSUME FilesType, NEW r \in Reqs, NEW k \in Ids, Truncate(r, k), UNCHANGED ruleVars
    PROVE  FilesType'
  <1>1. req' \in [Reqs -> Requests] /\ lock' \in [Ids -> Seq(Reqs)] /\ fs' \in [Ids -> Directories]
    <2>1. CASE Fail(r) /\ Leave(k) /\ UNCHANGED fs
      BY <2>1, InNonempty, LockTypes, GotoMoves DEF Truncate, Fail, Moves, Steps, FilesType
    <2>2. CASE /\ fs' = [fs EXCEPT ![k].members = Torn]
               /\ req' = [req EXCEPT ![r].pc = "fill", ![r].dir = fs[k].dir]
               /\ UNCHANGED lock
      <3>1. fs[k].dir \in Dirs
        BY DEF FilesType, Directories
      <3>2. Moves(r, "fill", fs[k].dir)
        BY <2>2, <3>1, TakesMoves DEF Steps
      <3>3. QED  BY <2>2, <3>2, WriteTypes DEF Moves, FilesType
    <2>3. QED  BY <2>1, <2>2 DEF Truncate
  <1>2. QED  BY <1>1 DEF Truncate, FilesType, ruleVars

LEMMA FillTypes ==
    ASSUME FilesType, NEW r \in Reqs, NEW k \in Ids, Fill(r, k), UNCHANGED ruleVars
    PROVE  FilesType'
  <1>1. req' \in [Reqs -> Requests]
    BY AfterType, GotoMoves DEF Fill, Moves, Steps
  <1>2. lock' \in [Ids -> Seq(Reqs)]
    BY InNonempty, LockTypes DEF Fill
  <1>3. fs' \in [Ids -> Directories]
    <2>1. copy[r] \in MemberMaps
      BY DEF FilesType
    <2>2. fs' = fs \/ fs' = [fs EXCEPT ![k].members = copy[r]]
      BY DEF Fill
    <2>3. fs \in [Ids -> Directories]
      BY DEF FilesType
    <2>4. QED  BY <2>1, <2>2, <2>3, WriteTypes
  <1>4. book' \in [Ids -> MemberMaps]
    <2>1. Change(req[r].task, book[k]) \in MemberMaps
      BY ChangeType, TaskType DEF FilesType
    <2>2. book' = book \/ book' = [book EXCEPT ![k] = Change(req[r].task, book[k])]
      BY DEF Fill
    <2>3. QED  BY <2>1, <2>2 DEF FilesType
  <1>5. due' \in [Reqs -> SUBSET Ids]
    <2>1. CASE Noted(k, Who(r))
      BY <2>1 DEF Noted, FilesType
    <2>2. CASE due' = due
      BY <2>2 DEF FilesType
    <2>3. QED  BY <2>1, <2>2 DEF Fill
  <1>6. QED  BY <1>1, <1>2, <1>3, <1>4, <1>5 DEF Fill, FilesType, ruleVars

LEMMA SettingsTypes ==
    ASSUME FilesType, NEW r \in Reqs, TruncateSettings(r) \/ FillSettings(r), UNCHANGED ruleVars
    PROVE  FilesType'
  <1>1. CASE TruncateSettings(r)
    <2>1. req' \in [Reqs -> Requests] /\ fs' \in [Ids -> Directories]
      <3>1. CASE Fail(r) /\ UNCHANGED fs
        BY <3>1, GotoMoves DEF Fail, Moves, Steps, FilesType
      <3>2. CASE /\ fs' = [fs EXCEPT ![Id(r)].ns = Torn]
                 /\ req' = [req EXCEPT ![r].pc = "draft", ![r].dir = Here(r).dir]
        <4>1. Here(r).dir \in Dirs
          BY TaskType DEF Directories
        <4>2. Moves(r, "draft", Here(r).dir)
          BY <3>2, <4>1, TakesMoves DEF Steps
        <4>3. QED  BY <3>2, <4>2, TaskType, WriteTypes DEF Moves
      <3>3. QED  BY <1>1, <3>1, <3>2 DEF TruncateSettings
    <2>2. QED  BY <1>1, <2>1 DEF TruncateSettings, FilesType, ruleVars
  <1>2. CASE FillSettings(r)
    <2>1. req' \in [Reqs -> Requests]
      BY <1>2, GotoMoves DEF FillSettings, Moves, Steps
    <2>2. fs' \in [Ids -> Directories]
      <3>1. CASE UNCHANGED fs
        BY <3>1 DEF FilesType
      <3>2. ASSUME NEW f \in Filled(r), fs' = [fs EXCEPT ![Id(r)].ns = f]  PROVE fs' \in [Ids -> Directories]
        <4>1. f \in Settings \cup {Garbled}
          BY <3>2 DEF Filled, FilesType
        <4>2. QED  BY <3>2, <4>1, TaskType, WriteTypes
      <3>3. QED  BY <1>2, <3>1, <3>2 DEF FillSettings
    <2>3. QED  BY <1>2, <2>1, <2>2 DEF FillSettings, memVars, FilesType, ruleVars
  <1>3. QED  BY <1>1, <1>2

LEMMA PruneTypes ==
    ASSUME FilesType, NEW r \in Reqs, Revoke(r) \/ CheckLast(r) \/ List(r) \/ Walk(r),
           Doing(r, {"revoke"}), UNCHANGED ruleVars
    PROVE  FilesType'
  <1>1. CASE Revoke(r)
    <2>1. tokens' \in [Holders -> Nat]
      <3>1. CASE UNCHANGED tokens
        BY <3>1 DEF FilesType
      <3>2. CASE tokens[Who(r)] > 0 /\ tokens' = [tokens EXCEPT ![Who(r)] = @ - 1]
        <4>1. Who(r) \in Holders /\ tokens[Who(r)] \in Nat
          BY TaskType DEF FilesType
        <4>2. tokens[Who(r)] - 1 \in Nat
          BY <3>2, <4>1
        <4>3. QED  BY <3>2, <4>1, <4>2 DEF FilesType
      <3>3. QED  BY <1>1, <3>1, <3>2 DEF Revoke
    <2>2. QED  BY <1>1, <2>1, GotoMoves DEF Revoke, FilesType, ruleVars, Moves, Steps
  <1>2. CASE CheckLast(r)
    <2>1. PICK p \in {"list", "done"} : Goto(r, p)
      BY <1>2 DEF CheckLast
    <2>2. due' \in [Reqs -> SUBSET Ids]
      <3>1. Listed \in SUBSET Ids
        BY DEF Listed
      <3>2. due' = due \/ due' = [due EXCEPT ![r] = Listed]
        BY <1>2 DEF CheckLast
      <3>3. QED  BY <3>1, <3>2 DEF FilesType
    <2>3. QED  BY <1>2, <2>1, <2>2, GotoMoves DEF CheckLast, FilesType, ruleVars, Moves, Steps
  <1>3. CASE List(r)
    BY <1>3, GotoMoves DEF List, FilesType, ruleVars, Moves, Steps, Listed
  <1>4. CASE Walk(r)
    <2>1. CASE Goto(r, "pruned") /\ UNCHANGED <<lock, walk>>
      BY <1>4, <2>1, GotoMoves DEF Walk, FilesType, ruleVars, Moves, Steps
    <2>2. CASE \E k \in walk[r] : 
                 walk' = [walk EXCEPT ![r] = @ \ {k}] /\ Enter(r, k) /\ Goto(r, "locked")
      <3>1. PICK k \in walk[r] :
                 walk' = [walk EXCEPT ![r] = @ \ {k}] /\ Enter(r, k) /\ Goto(r, "locked")
        BY <2>2
      <3>2. k \in Ids /\ walk' \in [Reqs -> SUBSET Ids]
        BY <3>1 DEF FilesType
      <3>3. lock' \in [Ids -> Seq(Reqs)]
        BY <3>1, <3>2, LockTypes
      <3>4. QED  BY <1>4, <3>1, <3>2, <3>3, GotoMoves DEF Walk, FilesType, ruleVars, Moves, Steps
    <2>3. QED  BY <1>4, <2>1, <2>2 DEF Walk
  <1>5. QED  BY <1>1, <1>2, <1>3, <1>4

LEMMA RuleTypes == ASSUME FilesType, WritersFirst, NEW r \in Reqs, RuleStep(r), UNCHANGED memVars PROVE FilesType'
  <1> USE DEF memVars, ruleVars
  <1>0. /\ fs \in [Ids -> Directories] /\ req \in [Reqs -> Requests] /\ ruleLock \in [Ids -> Seq(Reqs)]
        /\ seen \in [Reqs -> SUBSET RuleIds] /\ Id(r) \in Ids /\ Here(r) \in Directories
    BY TaskType DEF FilesType
  <1>1. ASSUME NEW p \in {"prepare", "relist"}, At(r, p)
        PROVE  /\ (IF Here(r).dir = NoDir THEN [fs EXCEPT ![Id(r)] = Bare(r)] ELSE fs) \in [Ids -> Directories]
    <2>1. Bare(r) \in Directories
      BY <1>1, MadeType DEF At, Bare, Nothing, Directories
    <2>2. QED  BY <1>0, <2>1
  <1>2. ASSUME NEW d \in Dirs, NEW p \in Steps, req' = [req EXCEPT ![r].pc = p, ![r].dir = d]
        PROVE  req' \in [Reqs -> Requests]
    BY <1>2, TakesMoves DEF Moves
  <1>3. ASSUME NEW p \in Steps, Goto(r, p)  PROVE req' \in [Reqs -> Requests]
    BY <1>3, GotoMoves DEF Moves
  <1>4. ASSUME ruleLock[Id(r)] # << >>, Released(r)  PROVE ruleLock' \in [Ids -> Seq(Reqs)]
    BY <1>0, <1>4, LockTypes
  <1>5. CASE EnterRules(r)
    <2>1. ruleLock' \in [Ids -> Seq(Reqs)]
      BY <1>0, <1>5 DEF EnterRules
    <2>2. QED  BY <1>3, <1>5, <2>1 DEF EnterRules, FilesType, Steps
  <1>6. CASE Prepare(r)
    <2>1. fs' \in [Ids -> Directories]
      BY <1>1, <1>6 DEF Prepare
    <2>2. fs'[Id(r)].dir \in Dirs
      BY <1>0, <2>1 DEF Directories
    <2>3. req' \in [Reqs -> Requests]
      BY <1>2, <1>6, <2>2 DEF Prepare, Steps
    <2>4. QED  BY <1>6, <2>1, <2>3 DEF Prepare, FilesType
  <1>7. CASE Rename(r)
    <2>1. fs' \in [Ids -> Directories]
      <3>1. fs' = fs \/ fs' = [fs EXCEPT ![Id(r)].rules = Here(r).rules \cup {RuleId(r)}]
        BY <1>7 DEF Rename, Here
      <3>2. Here(r).rules \cup {RuleId(r)} \in SUBSET RuleIds
        BY <1>0, TaskType DEF Directories
      <3>3. [fs EXCEPT ![Id(r)].rules = Here(r).rules \cup {RuleId(r)}] \in [Ids -> Directories]
        BY <1>0, <3>2, WriteTypes
      <3>4. QED  BY <1>0, <3>1, <3>3
    <2>2. req' \in [Reqs -> Requests]
      BY <1>3, <1>7 DEF Rename, Fail, Steps
    <2>3. ruleLock' \in [Ids -> Seq(Reqs)]
      BY <1>0, <1>4, <1>7 DEF Rename, At, WritersFirst, FirstWriter
    <2>4. QED  BY <1>7, <2>1, <2>2, <2>3 DEF Rename, FilesType
  <1>8. CASE Unlink(r)
    <2>1. fs' \in [Ids -> Directories]
      <3>1. fs' = fs \/ fs' = [fs EXCEPT ![Id(r)].rules = Here(r).rules \ {RuleId(r)}]
        BY <1>8 DEF Unlink, Here
      <3>2. Here(r).rules \ {RuleId(r)} \in SUBSET RuleIds
        BY <1>0, TaskType DEF Directories
      <3>3. [fs EXCEPT ![Id(r)].rules = Here(r).rules \ {RuleId(r)}] \in [Ids -> Directories]
        BY <1>0, <3>2, WriteTypes
      <3>4. QED  BY <1>0, <3>1, <3>3
    <2>2. req' \in [Reqs -> Requests]
      <3>1. Here(r).dir \in Dirs
        BY <1>0 DEF Directories
      <3>2. QED  BY <1>2, <1>3, <1>8, <3>1 DEF Unlink, Fail, Steps
    <2>3. ruleLock' \in [Ids -> Seq(Reqs)]
      BY <1>0, <1>4, <1>8 DEF Unlink, FirstWriter
    <2>4. QED  BY <1>8, <2>1, <2>2, <2>3 DEF Unlink, FilesType
  <1>9. CASE Relist(r)
    <2>1. fs' \in [Ids -> Directories]
      BY <1>1, <1>9 DEF Relist
    <2>2. fs'[Id(r)].dir \in Dirs /\ Here(r).rules \in SUBSET RuleIds
      BY <1>0, <2>1 DEF Directories
    <2>3. req' \in [Reqs -> Requests] /\ seen' \in [Reqs -> SUBSET RuleIds]
      BY <1>0, <1>2, <1>9, <2>2 DEF Relist, Steps
    <2>4. QED  BY <1>9, <2>1, <2>3 DEF Relist, FilesType
  <1>10. CASE WriteIndex(r)
    <2>1. fs' \in [Ids -> Directories]
      <3>1. fs' = fs \/ fs' = [fs EXCEPT ![Id(r)].index = seen[r]]
        BY <1>10 DEF WriteIndex
      <3>2. seen[r] \in SUBSET RuleIds
        BY <1>0
      <3>3. [fs EXCEPT ![Id(r)].index = seen[r]] \in [Ids -> Directories]
        BY <1>0, <3>2, WriteTypes
      <3>4. QED  BY <1>0, <3>1, <3>3
    <2>2. req' \in [Reqs -> Requests]
      BY <1>3, <1>10 DEF WriteIndex, Fail, Steps
    <2>3. ruleLock' \in [Ids -> Seq(Reqs)]
      BY <1>0, <1>4, <1>10 DEF WriteIndex, At, WritersFirst, FirstWriter
    <2>4. QED  BY <1>10, <2>1, <2>2, <2>3 DEF WriteIndex, FilesType
  <1>11. QED  BY <1>5, <1>6, <1>7, <1>8, <1>9, <1>10 DEF RuleStep

LEMMA ThrowsTypes == ASSUME FilesType, NEW r \in Reqs, Throws(r) PROVE FilesType'
  <1>1. lock' \in [Ids -> Seq(Reqs)] /\ ruleLock' \in [Ids -> Seq(Reqs)]
    BY WithoutType DEF Throws, FilesType
  <1>2. req' \in [Reqs -> Requests]
    BY GotoMoves DEF Throws, Fail, Moves, Steps
  <1>3. QED  BY <1>1, <1>2 DEF Throws, FilesType

LEMMA CrashTypes == ASSUME FilesType, Crash PROVE FilesType'
  <1>1. ASSUME NEW r \in Reqs  PROVE [req[r] EXCEPT !.pc = "failed"] \in Requests /\ req[r] \in Requests
    <2>1. req[r] \in Requests
      BY DEF FilesType
    <2>2. QED  BY <2>1 DEF Requests, Steps
  <1>2. req' \in [Reqs -> Requests]
    BY <1>1 DEF Crash
  <1>3. QED  BY <1>2 DEF Crash, FilesType

LEMMA MintTypes == ASSUME FilesType, NEW a \in Holders, Mint(a), UNCHANGED ruleVars PROVE FilesType'
  <1>1. tokens' \in [Holders -> Nat]
    BY DEF Mint, FilesType
  <1>2. QED  BY <1>1 DEF Mint, dirVars, ruleVars, FilesType

-----------------------------------------------------------------------------
(* How a call goes on.                                                     *)
Arrow(a, b) ==
    \/ a \notin Over \cup {"pruned"} /\ b = "failed"
    \/ a = "authorize" /\ b \in {"rule", "load"}
    \/ a \in {"look", "create", "delete", "draft", "check", "index"} /\ b = "done"
    \/ a = "load"     /\ b \in {"locked", "settings", "rule"}
    \/ a = "locked"   /\ b \in {"save", "walk", "done"}
    \/ a = "save"     /\ b = "fill"
    \/ a = "fill"     /\ b \in {"walk", "done"}
    \/ a = "settings" /\ b = "draft"
    \/ a = "revoke"   /\ b = "check"
    \/ a = "check"    /\ b = "list"
    \/ a = "list"     /\ b = "walk"
    \/ a = "walk"     /\ b \in {"pruned", "locked"}
    \/ a = "rule"     /\ b \in {"prepare", "unlink"}
    \/ a = "prepare"  /\ b = "rename"
    \/ a \in {"rename", "unlink"} /\ b = "relist"
    \/ a = "relist"   /\ b = "index"

Goes(q) ==
    \/ req'[q] = req[q]
    \/ At(q, "idle") /\ req'[q].pc = FirstStep(req'[q].task) /\ req'[q].task \in Tasks
    \/ /\ req'[q].task = req[q].task
       /\ Arrow(req[q].pc, req'[q].pc)
       /\ req'[q].pc = "walk" /\ req[q].pc # "list" => Doing(q, {"revoke"})

LEMMA MovesGoes ==
    ASSUME NEW r \in Reqs, NEW p, NEW d, Moves(r, p, d), Arrow(req[r].pc, p),
           p = "walk" /\ req[r].pc # "list" => Doing(r, {"revoke"})
    PROVE  \A q \in Reqs : Goes(q)
  BY DEF Moves, Goes

(* The only call a step of the request r moves is r.                       *)
LEMMA CallSteps ==
    ASSUME FilesType, NEW r \in Reqs,
           \/ Directory(r) \/ Founded(r) \/ Moved(r) \/ MemberStep(r) \/ RuleStep(r) \/ Throws(r)
    PROVE  \A q \in Reqs : Goes(q) /\ (q # r => req'[q] = req[q])
  <1> USE GotoMoves, TakesMoves DEF At, Steps, Fail
  <1> DEFINE Good == \E p, d : /\ Moves(r, p, d) /\ Arrow(req[r].pc, p)
                               /\ p = "walk" /\ req[r].pc # "list" => Doing(r, {"revoke"})
  <1>1. ASSUME NEW p \in Steps, Goto(r, p), Arrow(req[r].pc, p),
               p = "walk" /\ req[r].pc # "list" => Doing(r, {"revoke"})
        PROVE  Good
    <2>1. Moves(r, p, req[r].dir)
      BY <1>1
    <2>2. QED  BY <1>1, <2>1
  <1>2. ASSUME NEW p \in Steps, NEW d \in Dirs, req' = [req EXCEPT ![r].pc = p, ![r].dir = d],
               Arrow(req[r].pc, p), p # "walk"
        PROVE  Good
    <2>1. Moves(r, p, d)
      BY <1>2
    <2>2. QED  BY <1>2, <2>1
  <1>3. Here(r).dir \in Dirs /\ \A k \in Ids : fs[k].dir \in Dirs
    BY TaskType DEF FilesType, Directories
  <1>4. ASSUME Arrive(r)  PROVE \A q \in Reqs : Goes(q) /\ (q # r => req'[q] = req[q])
    <2>1. PICK t \in Tasks : req' = [req EXCEPT ![r] = [pc |-> FirstStep(t), task |-> t, dir |-> NoDir]]
      BY <1>4 DEF Arrive
    <2>2. req \in [Reqs -> Requests] /\ At(r, "idle")
      BY <1>4 DEF Arrive, FilesType
    <2>3. /\ req'[r].pc = FirstStep(t) /\ req'[r].task = t
          /\ \A q \in Reqs : q # r => req'[q] = req[q]
      BY <2>1, <2>2
    <2>4. QED  BY <2>2, <2>3 DEF Goes
  <1>5. ASSUME Authorize(r) \/ Look(r) \/ Exists(r)  PROVE Good
    BY <1>1, <1>5 DEF Authorize, Look, Exists, Arrow, Over
  <1>6. ASSUME Founded(r) \/ Moved(r)  PROVE Good
    BY <1>1, <1>6 DEF Founded, Moved, CreateSkeleton, SoftDelete, Arrow, Over
  <1>7. ASSUME Load(r)  PROVE Good
    BY <1>1, <1>2, <1>3, <1>7 DEF Load, Arrow, Over
  <1>8. ASSUME NEW k \in Ids, Read(r, k)  PROVE Good
    <2>1. CASE Goto(r, After(r, fs[k].members # Torn))
      BY <1>1, <1>8, <2>1 DEF Read, Arrow, Over, After
    <2>2. CASE req' = [req EXCEPT ![r].pc = "save", ![r].dir = fs[k].dir]
      BY <1>2, <1>3, <1>8, <2>2 DEF Read, Arrow, Over
    <2>3. QED  BY <1>8, <2>1, <2>2 DEF Read
  <1>9. ASSUME NEW k \in Ids, Truncate(r, k)  PROVE Good
    <2>1. At(r, "save")
      BY <1>9 DEF Truncate
    <2>2. CASE Goto(r, "failed")
      BY <1>1, <2>1, <2>2 DEF Arrow, Over
    <2>3. CASE req' = [req EXCEPT ![r].pc = "fill", ![r].dir = fs[k].dir]
      BY <1>2, <1>3, <2>1, <2>3 DEF Arrow, Over
    <2>4. QED  BY <1>9, <2>2, <2>3 DEF Truncate
  <1>10. ASSUME NEW k \in Ids, Fill(r, k)  PROVE Good
    BY <1>1, <1>10 DEF Fill, Arrow, Over, After
  <1>11. ASSUME TruncateSettings(r) \/ FillSettings(r)  PROVE Good
    BY <1>1, <1>2, <1>3, <1>11 DEF TruncateSettings, FillSettings, Arrow, Over
  <1>12. ASSUME Revoke(r) \/ CheckLast(r) \/ List(r) \/ Walk(r)  PROVE Good
    BY <1>1, <1>12 DEF Revoke, CheckLast, List, Walk, Arrow, Over
  <1>13. ASSUME EnterRules(r)  PROVE Good
    BY <1>1, <1>13 DEF EnterRules, Arrow, Over
  <1>14. ASSUME Prepare(r) \/ Relist(r)  PROVE Good
    <2>1. fs'[Id(r)].dir \in Dirs
      <3>1. (IF Here(r).dir = NoDir THEN [fs EXCEPT ![Id(r)] = Bare(r)] ELSE fs)[Id(r)].dir \in Dirs
        BY <1>14, <1>3, TaskType, MadeType DEF Prepare, Relist, Bare, Nothing, FilesType, Here
      <3>2. QED  BY <1>14, <3>1 DEF Prepare, Relist
    <2>2. QED  BY <1>2, <1>14, <2>1 DEF Prepare, Relist, Arrow, Over
  <1>15. ASSUME Rename(r) \/ Unlink(r)  PROVE Good
    BY <1>1, <1>2, <1>3, <1>15 DEF Rename, Unlink, Arrow, Over
  <1>16. ASSUME WriteIndex(r)  PROVE Good
    BY <1>1, <1>16 DEF WriteIndex, Arrow, Over
  <1>17. ASSUME Throws(r)  PROVE Good
    BY <1>1, <1>17 DEF Throws, Arrow
  <1>18. Good \/ Arrive(r)
    BY <1>5, <1>6, <1>7, <1>8, <1>9, <1>10, <1>11, <1>12, <1>13, <1>14, <1>15, <1>16, <1>17
       DEF Directory, MemberStep, RuleStep
  <1>19. Good => \A q \in Reqs : Goes(q) /\ (q # r => req'[q] = req[q])
    BY MovesGoes DEF Moves
  <1>20. QED  BY <1>4, <1>18, <1>19

LEMMA Transitions ==
    ASSUME FilesType, [FilesNext]_filesVars
    PROVE  \A q \in Reqs : Goes(q)
  <1>1. CASE Crash
    BY <1>1 DEF Crash, Goes, Arrow, FilesType, Requests
  <1>2. CASE UNCHANGED filesVars
    BY <1>2 DEF filesVars, dirVars, Goes
  <1>3. ASSUME NEW a \in Holders, Mint(a)  PROVE \A q \in Reqs : Goes(q)
    BY <1>3 DEF Mint, dirVars, Goes
  <1>4. QED  BY <1>1, <1>2, <1>3, CallSteps DEF FilesNext

LEMMA RevokingStep ==
    ASSUME FilesType, Revoking, [FilesNext]_filesVars
    PROVE  Revoking'
  <1> SUFFICES ASSUME NEW q \in Reqs, req'[q].pc \in {"revoke", "check", "list", "walk", "pruned"}
               PROVE  req'[q].task.op = "revoke"
    BY DEF Revoking, Doing
  <1>1. Goes(q)
    BY Transitions
  <1>2. CASE req'[q] = req[q]
    BY <1>2 DEF Revoking, Doing
  <1>3. CASE req'[q].pc = FirstStep(req'[q].task) /\ req'[q].task \in Tasks
    BY <1>3, DirectoryAssumption DEF FirstStep, Ops
  <1>4. CASE /\ req'[q].task = req[q].task /\ Arrow(req[q].pc, req'[q].pc)
             /\ req'[q].pc = "walk" /\ req[q].pc # "list" => Doing(q, {"revoke"})
    BY <1>4 DEF Revoking, Doing, Arrow
  <1>5. QED  BY <1>1, <1>2, <1>3, <1>4 DEF Goes

-----------------------------------------------------------------------------
(* Directories.  Those at the path of a namespace were made for it, each   *)
(* at a step its maker has behind it, so that a new one is in nobody's     *)
(* hands yet; and where there is none there is no file and no member.      *)
Past(s) ==
    CASE s = "create"  -> {"done", "failed"}
      [] s = "prepare" -> {"rename", "relist", "index", "done", "failed"}
      [] s = "relist"  -> {"index", "done", "failed"}

MadeAt(k) ==
    {<<k, "start">>} \cup
    {d \in Reqs \X {"create", "prepare", "relist"} : Id(d[1]) = k /\ req[d[1]].pc \in Past(d[2])}

Nobody == [a \in Agents |-> "none"]

Holding == {"fill", "draft", "rename", "relist", "index"}

DirsKnown ==
    /\ \A k \in Ids : fs[k].dir = NoDir \/ fs[k].dir \in MadeAt(k)
    /\ \A k \in Ids : fs[k].dir = NoDir => fs[k] = Nothing /\ book[k] = Nobody
    /\ \A r \in Reqs : req[r].dir = NoDir \/ \E k \in Ids : req[r].dir \in MadeAt(k)
    /\ \A r \in Reqs : req[r].pc \in Holding => req[r].dir # NoDir

LEMMA MadeStays ==
    ASSUME FilesType, [FilesNext]_filesVars, NEW k \in Ids
    PROVE  MadeAt(k) \subseteq MadeAt(k)'
  <1> SUFFICES ASSUME NEW r \in Reqs, NEW s \in {"create", "prepare", "relist"},
                      Id(r) = k, req[r].pc \in Past(s)
               PROVE  Id(r)' = k /\ req'[r].pc \in Past(s)
    BY DEF MadeAt
  <1>1. Goes(r) /\ ~At(r, "idle")
    BY Transitions DEF At, Past
  <1>2. CASE req'[r] = req[r]
    BY <1>2 DEF Id
  <1>3. CASE req'[r].task = req[r].task /\ Arrow(req[r].pc, req'[r].pc)
    BY <1>3 DEF Id, Past, Arrow, Over
  <1>4. QED  BY <1>1, <1>2, <1>3 DEF Goes

LEMMA MadeApart ==
    ASSUME NEW k \in Ids, NEW l \in Ids, NEW d, d \in MadeAt(k)
    PROVE  d # NoDir /\ (d \in MadeAt(l) => k = l)
  BY DirectoryAssumption DEF MadeAt

LEMMA MadeFresh ==
    ASSUME NEW r \in Reqs, NEW k \in Ids, req[r].pc \in {"create", "prepare", "relist"}
    PROVE  Made(r) \notin MadeAt(k)
  BY DEF Made, MadeAt, Past

LEMMA MadeNow ==
    ASSUME NEW r \in Reqs, req[r].pc \in {"create", "prepare", "relist"},
           Id(r)' = Id(r), req'[r].pc \in Past(req[r].pc)
    PROVE  Made(r) \in MadeAt(Id(r))'
  <1>1. PICK s \in {"create", "prepare", "relist"} : s = req[r].pc
    OBVIOUS
  <1>2. <<r, s>> \in Reqs \X {"create", "prepare", "relist"} /\ req'[r].pc \in Past(s)
    BY <1>1
  <1>3. <<r, s>> \in MadeAt(Id(r))'
    BY <1>2 DEF MadeAt
  <1>4. QED  BY <1>1, <1>3 DEF Made

LEMMA DirsStep ==
    ASSUME FilesType, DirsKnown, [FilesNext]_filesVars,
           \A k \in Ids : \/ /\ fs'[k].dir = fs[k].dir
                             /\ fs[k].dir = NoDir => fs'[k] = fs[k] /\ book'[k] = book[k]
                          \/ fs'[k] = Nothing /\ book'[k] = Nobody
                          \/ fs'[k].dir \in MadeAt(k)',
           \A q \in Reqs : \/ req'[q].dir \in {req[q].dir, NoDir}
                           \/ \E k \in Ids : req'[q].dir \in {fs[k].dir, fs'[k].dir},
           \A q \in Reqs : req'[q].pc \in Holding => req'[q].dir # NoDir
    PROVE  DirsKnown'
  <1>1. \A k \in Ids : MadeAt(k) \subseteq MadeAt(k)'
    BY MadeStays
  <1>2. \A k \in Ids : NoDir \notin MadeAt(k)'
    BY DirectoryAssumption DEF MadeAt
  <1>3. \A k \in Ids : fs'[k].dir = NoDir \/ fs'[k].dir \in MadeAt(k)'
    BY <1>1, NothingType DEF DirsKnown
  <1>4. \A k \in Ids : fs'[k].dir = NoDir => fs'[k] = Nothing /\ book'[k] = Nobody
    BY <1>2 DEF DirsKnown
  <1>5. \A q \in Reqs : req'[q].dir = NoDir \/ \E k \in Ids : req'[q].dir \in MadeAt(k)'
    BY <1>1, <1>3 DEF DirsKnown
  <1>6. QED  BY <1>3, <1>4, <1>5 DEF DirsKnown, Nobody

(* A step that leaves the directories and the account alone.               *)
LEMMA DirsQuiet ==
    ASSUME FilesType, DirsKnown, [FilesNext]_filesVars, UNCHANGED <<fs, book>>,
           NEW r \in Reqs, NEW p, NEW d, Moves(r, p, d),
           d \in {req[r].dir, NoDir} \/ \E k \in Ids : d = fs[k].dir,
           p \in Holding => d # NoDir
    PROVE  DirsKnown'
  <1>1. \A q \in Reqs : \/ req'[q].dir \in {req[q].dir, NoDir}
                        \/ \E k \in Ids : req'[q].dir \in {fs[k].dir, fs'[k].dir}
    BY DEF Moves
  <1>2. \A q \in Reqs : req'[q].pc \in Holding => req'[q].dir # NoDir
    BY DEF Moves, DirsKnown
  <1>3. QED  BY <1>1, <1>2, DirsStep

(* Files are written, or a directory of the rules is made, at k by r.      *)
LEMMA DirsWritten ==
    ASSUME FilesType, DirsKnown, [FilesNext]_filesVars,
           NEW r \in Reqs, NEW k \in Ids, NEW p, NEW d, Moves(r, p, d),
           \A l \in Ids : l # k => fs'[l] = fs[l] /\ book'[l] = book[l],
           \/ fs'[k].dir = fs[k].dir /\ (fs[k].dir = NoDir => fs'[k] = fs[k] /\ book'[k] = book[k])
           \/ fs'[k] = Nothing /\ book'[k] = Nobody
           \/ fs'[k].dir \in MadeAt(k)',
           d \in {req[r].dir, fs'[k].dir},
           p \in Holding => d # NoDir
    PROVE  DirsKnown'
  <1>1. \A q \in Reqs : \/ req'[q].dir \in {req[q].dir, NoDir}
                        \/ \E l \in Ids : req'[q].dir \in {fs[l].dir, fs'[l].dir}
    BY DEF Moves
  <1>2. \A q \in Reqs : req'[q].pc \in Holding => req'[q].dir # NoDir
    BY DEF Moves, DirsKnown
  <1>3. QED  BY <1>1, <1>2, DirsStep

LEMMA DirsInit == FilesInit => DirsKnown
  <1> SUFFICES ASSUME FilesInit PROVE DirsKnown
    OBVIOUS
  <1> USE DEF FilesInit, DirInit, MemInit
  <1>1. \A k \in Ids : fs[k].dir \in MadeAt(k)
    BY DEF Skeleton, MadeAt
  <1>2. \A r \in Reqs : req[r].dir = NoDir /\ req[r].pc \notin Holding
    BY DEF Holding
  <1>3. QED  BY <1>1, <1>2, MadeApart DEF DirsKnown

-----------------------------------------------------------------------------
(* The types and the writers of the rules.                                 *)
LEMMA TypeStep ==
    ASSUME FilesType, WritersFirst, Revoking, [FilesNext]_filesVars
    PROVE  FilesType'
  <1>1. CASE Crash
    BY <1>1, CrashTypes
  <1>2. CASE UNCHANGED filesVars
    BY <1>2 DEF filesVars, dirVars, memVars, ruleVars, FilesType
  <1>3. ASSUME NEW a \in Holders, Mint(a), UNCHANGED ruleVars  PROVE FilesType'
    BY <1>3, MintTypes
  <1>4. ASSUME NEW r \in Reqs, MemberStep(r), UNCHANGED ruleVars  PROVE FilesType'
    <2>1. ASSUME Revoke(r) \/ CheckLast(r) \/ List(r) \/ Walk(r)  PROVE Doing(r, {"revoke"})
      BY <2>1 DEF Revoke, CheckLast, List, Walk, At, Revoking
    <2>2. QED
      BY <1>4, <2>1, LoadTypes, SettingsTypes, PruneTypes, ReadTypes, TruncateTypes, FillTypes
         DEF MemberStep
  <1>5. QED
    BY <1>1, <1>2, <1>3, <1>4, DirectoryTypes, FoundedTypes, MovedTypes, RuleTypes, ThrowsTypes
       DEF FilesNext, Directory

(* Another call's step keeps a writer at the head.                         *)
LEMMA HeadStays ==
    ASSUME FilesType, NEW q \in Reqs, FirstWriter(q), Id(q)' = Id(q), NEW r \in Reqs, r # q,
           \/ ruleLock' = ruleLock
           \/ ruleLock' = [ruleLock EXCEPT ![Id(r)] = Append(@, r)]
           \/ FirstWriter(r) /\ Released(r)
           \/ ruleLock' = [i \in Ids |-> Without(ruleLock[i], r)]
    PROVE  FirstWriter(q)'
  <1>1. /\ ruleLock \in [Ids -> Seq(Reqs)] /\ Id(q) \in Ids /\ Id(r) \in Ids
        /\ ruleLock[Id(q)] # << >> /\ Head(ruleLock[Id(q)]) = q
    BY TaskType DEF FilesType, FirstWriter
  <1>2. CASE ruleLock' = [ruleLock EXCEPT ![Id(r)] = Append(@, r)]
    <2>1. \A s \in Seq(Reqs) : s # << >> => Append(s, r) # << >> /\ Head(Append(s, r)) = Head(s)
      OBVIOUS
    <2>2. QED  BY <1>1, <1>2, <2>1 DEF FirstWriter
  <1>3. CASE FirstWriter(r) /\ Released(r)
    <2>1. Id(r) # Id(q)
      BY <1>1, <1>3 DEF FirstWriter
    <2>2. QED  BY <1>1, <1>3, <2>1 DEF Released, FirstWriter
  <1>4. CASE ruleLock' = [i \in Ids |-> Without(ruleLock[i], r)]
    BY <1>1, <1>4 DEF Without, FirstWriter
  <1>5. QED  BY <1>1, <1>2, <1>3, <1>4 DEF FirstWriter

LEMMA WritersStep ==
    ASSUME FilesType, WritersFirst, [FilesNext]_filesVars
    PROVE  WritersFirst'
  <1> DEFINE Writing == {"rename", "relist", "index"}
  <1> SUFFICES ASSUME NEW q \in Reqs, req'[q].pc \in Writing
               PROVE  FirstWriter(q)'
    BY DEF WritersFirst
  <1>1. Id(q)' = Id(q)
    <2>1. \A t \in Tasks : FirstStep(t) \notin Writing
      BY DirectoryAssumption DEF FirstStep, Ops
    <2>2. QED  BY <2>1, Transitions DEF Goes, Id
  <1>2. CASE Crash
    BY <1>2 DEF Crash, FilesType, Requests, Over
  <1>3. CASE UNCHANGED <<req, ruleLock>>
    BY <1>3 DEF WritersFirst, FirstWriter, Id
  <1>4. ASSUME NEW r \in Reqs, RuleStep(r)  PROVE FirstWriter(q)'
    <2>1. /\ \A p \in Reqs : p # r => req'[p] = req[p]
          /\ Goes(r) /\ req \in [Reqs -> Requests]
      BY <1>4, CallSteps DEF FilesType
    <2>2. \/ ruleLock' = ruleLock
          \/ ruleLock' = [ruleLock EXCEPT ![Id(r)] = Append(@, r)]
          \/ FirstWriter(r) /\ Released(r)
      BY <1>4 DEF RuleStep, EnterRules, Prepare, Rename, Unlink, Relist, WriteIndex, WritersFirst, At, ruleVars
    <2>3. CASE q # r
      BY <1>1, <2>1, <2>2, <2>3, HeadStays DEF WritersFirst
    <2>4. CASE q = r
      <3> USE <2>1, <2>4 DEF At, Goto, Fail, WritersFirst, Requests
      <3>1. ~EnterRules(r) /\ ~WriteIndex(r)
        BY DEF EnterRules, WriteIndex
      <3>2. Prepare(r) => FirstWriter(r) /\ ruleLock' = ruleLock
        BY DEF Prepare, ruleVars
      <3>3. Rename(r) => FirstWriter(r) /\ ruleLock' = ruleLock
        BY DEF Rename
      <3>4. Unlink(r) => FirstWriter(r) /\ ruleLock' = ruleLock
        BY DEF Unlink
      <3>5. Relist(r) => FirstWriter(r) /\ ruleLock' = ruleLock
        BY DEF Relist
      <3>6. QED  BY <1>1, <1>4, <2>4, <3>1, <3>2, <3>3, <3>4, <3>5 DEF RuleStep, FirstWriter
    <2>5. QED  BY <2>3, <2>4
  <1>5. ASSUME NEW r \in Reqs, Throws(r)  PROVE FirstWriter(q)'
    <2>1. q # r /\ req'[q] = req[q]
      BY <1>5 DEF Throws, Fail, Goto, FilesType, Requests
    <2>2. QED  BY <1>1, <1>5, <2>1, HeadStays DEF Throws, WritersFirst
  <1>6. ASSUME NEW r \in Reqs, Directory(r) \/ Founded(r) \/ Moved(r) \/ MemberStep(r), UNCHANGED ruleLock
        PROVE  FirstWriter(q)'
    <2>1. req'[q] = req[q] \/ (q = r /\ Arrow(req[r].pc, req'[r].pc))
      <3>1. \A t \in Tasks : FirstStep(t) \notin Writing
        BY DirectoryAssumption DEF FirstStep, Ops
      <3>2. Goes(q) /\ (q # r => req'[q] = req[q])
        BY <1>6, CallSteps
      <3>3. QED  BY <3>1, <3>2 DEF Goes
    <2>2. req[r].pc \notin {"prepare", "unlink", "rename", "relist"}
      BY <1>6 DEF Directory, Arrive, Authorize, Look, Exists, Founded, CreateSkeleton, Moved, SoftDelete,
         MemberStep, Load, TruncateSettings, FillSettings, Revoke, CheckLast, List, Walk, Read, Truncate,
         Fill, At
    <2>3. req'[q] = req[q]
      BY <2>1, <2>2 DEF Arrow
    <2>4. QED  BY <1>1, <1>6, <2>3 DEF WritersFirst, FirstWriter
  <1>7. QED
    BY <1>2, <1>3, <1>4, <1>5, <1>6
       DEF FilesNext, filesVars, dirVars, ruleVars, Directory, Founded, Moved, Mint

(* Every step keeps the account of the directories.                        *)
LEMMA DirsKnownStep ==
    ASSUME FilesType, DirsKnown, [FilesNext]_filesVars
    PROVE  DirsKnown'
  <1> USE DEF Holding
  <1> DEFINE Still == UNCHANGED <<fs, book>>
  <1>1. ASSUME Still, \A q \in Reqs : req'[q].dir = req[q].dir /\ (req'[q].pc = req[q].pc \/ req'[q].pc \notin Holding)
        PROVE  DirsKnown'
    <2>1. \A q \in Reqs : req'[q].pc \in Holding => req'[q].dir # NoDir
      BY <1>1 DEF DirsKnown
    <2>2. QED  BY <1>1, <2>1, DirsStep
  <1>2. ASSUME NEW r \in Reqs, NEW p \in Steps, Goto(r, p), Still, p \notin Holding \/ req[r].pc \in Holding
        PROVE  DirsKnown'
    <2>1. Moves(r, p, req[r].dir)
      BY <1>2, GotoMoves
    <2>2. QED  BY <1>2, <2>1, DirsQuiet DEF DirsKnown
  <1>3. CASE Crash
    BY <1>1, <1>3 DEF Crash, FilesType, Requests, Over
  <1>4. CASE UNCHANGED filesVars
    BY <1>1, <1>4 DEF filesVars, dirVars, memVars
  <1>5. ASSUME NEW a \in Holders, Mint(a)  PROVE DirsKnown'
    BY <1>1, <1>5 DEF Mint, dirVars
  <1>6. ASSUME NEW r \in Reqs, Directory(r)  PROVE DirsKnown'
    <2> USE <1>6 DEF Directory, memVars
    <2>1. CASE Arrive(r)
      <3>1. PICK t \in Tasks : req' = [req EXCEPT ![r] = [pc |-> FirstStep(t), task |-> t, dir |-> NoDir]]
        BY <2>1 DEF Arrive
      <3>2. FirstStep(t) \notin Holding
        BY DirectoryAssumption DEF FirstStep, Ops
      <3>3. \A q \in Reqs : req'[q].dir \in {req[q].dir, NoDir} /\ (req'[q] = req[q] \/ req'[q].pc \notin Holding)
        BY <3>1, <3>2 DEF FilesType
      <3>4. \A q \in Reqs : req'[q].pc \in Holding => req'[q].dir # NoDir
        BY <3>3 DEF DirsKnown
      <3>5. QED  BY <2>1, <3>3, <3>4, DirsStep DEF Arrive
    <2>2. CASE Authorize(r) \/ Look(r) \/ Exists(r)
      BY <2>2, <1>2 DEF Authorize, Look, Exists, Fail, Steps
    <2>3. QED  BY <2>1, <2>2
  <1>7. ASSUME NEW r \in Reqs, Founded(r)  PROVE DirsKnown'
    <2>1. Moves(r, "done", req[r].dir) /\ At(r, "create")
      BY <1>7, GotoMoves DEF Founded, CreateSkeleton, Steps
    <2>2. /\ \A l \in Ids : l # Id(r) => fs'[l] = fs[l] /\ book'[l] = book[l]
          /\ fs'[Id(r)].dir = Made(r)
      BY <1>7, TaskType DEF Founded, CreateSkeleton, FilesType, Skeleton
    <2>3. Made(r) \in MadeAt(Id(r))'
      BY <2>1, MadeNow DEF Moves, Id, At, Past
    <2>4. PICK k \in Ids : k = Id(r) /\ k = Id(r)'
      BY <2>1, TaskType DEF Moves, Id
    <2>5. QED  BY <2>1, <2>2, <2>3, <2>4, DirsWritten
  <1>8. ASSUME NEW r \in Reqs, Moved(r)  PROVE DirsKnown'
    <2>1. CASE Fail(r) /\ UNCHANGED fs
      <3>1. UNCHANGED book
        <4>1. fs'[Id(r)] # Nothing \/ book[Id(r)] = Nobody
          BY <2>1, TaskType DEF DirsKnown, Nothing
        <4>2. QED  BY <1>8, <4>1 DEF Moved, Nobody, FilesType
      <3>2. QED  BY <2>1, <3>1, <1>2 DEF Fail, Steps
    <2>2. CASE fs' = [fs EXCEPT ![Id(r)] = Nothing] /\ Goto(r, "done")
      <3>1. Moves(r, "done", req[r].dir)
        BY <2>2, GotoMoves DEF Steps
      <3>2. /\ \A l \in Ids : l # Id(r) => fs'[l] = fs[l] /\ book'[l] = book[l]
            /\ fs'[Id(r)] = Nothing /\ book'[Id(r)] = Nobody
        BY <1>8, <2>2, TaskType DEF Moved, FilesType, Nobody
      <3>3. QED  BY <3>1, <3>2, TaskType, DirsWritten
    <2>3. QED  BY <1>8, <2>1, <2>2 DEF Moved, SoftDelete
  <1>9. ASSUME NEW r \in Reqs, MemberStep(r)  PROVE DirsKnown'
    <2>1. CASE Load(r)
      <3>1. CASE req' = [req EXCEPT ![r].pc = "settings", ![r].dir = Here(r).dir]
        <4>1. Moves(r, "settings", Here(r).dir)
          BY <3>1, TaskType, TakesMoves DEF Directories, Steps
        <4>2. QED  BY <2>1, <4>1, TaskType, DirsQuiet DEF Load, Here
      <3>2. CASE Goto(r, "failed") \/ Goto(r, "locked") \/ Goto(r, "rule")
        BY <2>1, <3>2, <1>2 DEF Load, Steps
      <3>3. QED  BY <2>1, <3>1, <3>2 DEF Load, Fail
    <2>2. ASSUME NEW k \in Ids, Read(r, k)  PROVE DirsKnown'
      <3>1. CASE req' = [req EXCEPT ![r].pc = "save", ![r].dir = fs[k].dir]
        <4>1. Moves(r, "save", fs[k].dir)
          BY <3>1, TakesMoves DEF FilesType, Directories, Steps
        <4>2. QED  BY <2>2, <4>1, DirsQuiet DEF Read
      <3>2. CASE Goto(r, After(r, fs[k].members # Torn))
        <4>1. After(r, fs[k].members # Torn) \in Steps \ Holding
          BY AfterType DEF Steps
        <4>2. QED  BY <2>2, <3>2, <4>1, <1>2 DEF Read
      <3>3. QED  BY <2>2, <3>1, <3>2 DEF Read
    <2>3. ASSUME NEW k \in Ids, Truncate(r, k)  PROVE DirsKnown'
      <3>1. CASE Fail(r) /\ UNCHANGED fs
        BY <2>3, <3>1, <1>2 DEF Truncate, Fail, Steps
      <3>2. CASE /\ fs[k].dir # NoDir
                 /\ fs' = [fs EXCEPT ![k].members = Torn]
                 /\ req' = [req EXCEPT ![r].pc = "fill", ![r].dir = fs[k].dir]
        <4>1. Moves(r, "fill", fs[k].dir)
          BY <3>2, TakesMoves DEF FilesType, Directories, Steps
        <4>2. fs'[k].dir = fs[k].dir /\ \A l \in Ids : l # k => fs'[l] = fs[l]
          BY <3>2 DEF FilesType
        <4>3. QED  BY <2>3, <3>2, <4>1, <4>2, DirsWritten DEF Truncate
      <3>3. QED  BY <2>3, <3>1, <3>2 DEF Truncate
    <2>4. ASSUME NEW k \in Ids, Fill(r, k)  PROVE DirsKnown'
      <3>1. PICK p \in Steps \ Holding : Goto(r, p)
        BY <2>4, AfterType DEF Fill, Steps
      <3>2. CASE UNCHANGED <<fs, book>>
        BY <3>1, <3>2, <1>2
      <3>3. CASE /\ fs[k].dir = req[r].dir
                 /\ fs' = [fs EXCEPT ![k].members = copy[r]]
                 /\ book' = [book EXCEPT ![k] = Change(req[r].task, @)]
        <4>1. Moves(r, p, req[r].dir)
          BY <3>1, GotoMoves
        <4>2. fs'[k].dir = fs[k].dir /\ \A l \in Ids : l # k => fs'[l] = fs[l] /\ book'[l] = book[l]
          BY <3>3 DEF FilesType
        <4>3. fs[k].dir # NoDir
          BY <2>4, <3>3 DEF Fill, At, DirsKnown
        <4>4. QED  BY <3>3, <4>1, <4>2, <4>3, DirsWritten
      <3>4. QED  BY <2>4, <3>2, <3>3 DEF Fill
    <2>5. CASE TruncateSettings(r)
      <3>1. CASE Fail(r) /\ UNCHANGED fs
        BY <2>5, <3>1, <1>2 DEF TruncateSettings, Fail, Steps
      <3>2. CASE /\ Here(r).dir # NoDir
                 /\ fs' = [fs EXCEPT ![Id(r)].ns = Torn]
                 /\ req' = [req EXCEPT ![r].pc = "draft", ![r].dir = Here(r).dir]
        <4>1. Moves(r, "draft", Here(r).dir)
          BY ZenonT(30), <3>2, TaskType, TakesMoves DEF Directories, Steps
        <4>2. fs'[Id(r)].dir = Here(r).dir /\ Here(r) = fs[Id(r)] /\ \A l \in Ids : l # Id(r) => fs'[l] = fs[l]
          BY <3>2, TaskType DEF FilesType, Here
        <4>3. QED  BY <2>5, <3>2, <4>1, <4>2, TaskType, DirsWritten DEF TruncateSettings
      <3>3. QED  BY <2>5, <3>1, <3>2 DEF TruncateSettings
    <2>6. CASE FillSettings(r)
      <3>1. Moves(r, "done", req[r].dir) /\ req[r].dir # NoDir
        BY <2>6, GotoMoves DEF FillSettings, Steps, At, DirsKnown
      <3>2. /\ fs'[Id(r)].dir = fs[Id(r)].dir /\ \A l \in Ids : l # Id(r) => fs'[l] = fs[l]
            /\ fs[Id(r)].dir = NoDir => fs'[Id(r)] = fs[Id(r)]
        <4>1. UNCHANGED fs \/ \E f : fs' = [fs EXCEPT ![Id(r)].ns = f] /\ Here(r).dir = req[r].dir
          BY <2>6 DEF FillSettings
        <4>2. QED  BY <3>1, <4>1, TaskType DEF FilesType, Directories, Here
      <3>3. QED  BY <2>6, <3>1, <3>2, TaskType, DirsWritten DEF FillSettings, memVars
    <2>7. CASE Revoke(r) \/ CheckLast(r) \/ List(r) \/ Walk(r)
      BY <2>7, <1>2 DEF Revoke, CheckLast, List, Walk, Steps
    <2>8. QED  BY <1>9, <2>1, <2>2, <2>3, <2>4, <2>5, <2>6, <2>7 DEF MemberStep
  <1>10. ASSUME NEW r \in Reqs, RuleStep(r), UNCHANGED memVars  PROVE DirsKnown'
    <2> USE <1>10 DEF memVars
    <2>1. CASE EnterRules(r)
      BY <2>1, <1>2 DEF EnterRules, Steps
    <2>2. CASE Prepare(r) \/ Relist(r)
      <3>1. PICK k \in Ids, d \in Dirs, p \in {"rename", "index"} :
               k = Id(r) /\ d = fs'[k].dir /\ req' = [req EXCEPT ![r].pc = p, ![r].dir = d]
               /\ p \in Past(req[r].pc) /\ req[r].pc \in {"prepare", "relist"}
        <4>1. fs'[Id(r)].dir \in Dirs
          <5>1. (IF Here(r).dir = NoDir THEN [fs EXCEPT ![Id(r)] = Bare(r)] ELSE fs)[Id(r)].dir \in Dirs
            BY <2>2, TaskType, MadeType DEF Prepare, Relist, Bare, Nothing, FilesType, Here, At, Directories
          <5>2. QED  BY <2>2, <5>1 DEF Prepare, Relist
        <4>2. QED  BY <2>2, <4>1, TaskType DEF Prepare, Relist, Past, At
      <3>2. Moves(r, p, d)
        BY <3>1, TakesMoves DEF Steps
      <3>3. CASE fs[k].dir # NoDir
        <4>1. fs' = fs
          BY <2>2, <3>1, <3>3 DEF Prepare, Relist, Here
        <4>2. QED  BY <3>1, <3>2, <3>3, <4>1, DirsWritten
      <3>4. CASE fs[k].dir = NoDir
        <4>1. fs'[k].dir = Made(r) /\ \A l \in Ids : l # k => fs'[l] = fs[l]
          BY <2>2, <3>1, <3>4 DEF Prepare, Relist, Here, Bare, Nothing, FilesType
        <4>2. Id(r)' = k /\ Made(r) \in MadeAt(Id(r))'
          BY <3>1, <3>2, MadeNow DEF Moves, Id
        <4>3. Made(r) # NoDir
          BY <3>1, MadeType
        <4>4. QED  BY <3>1, <3>2, <4>1, <4>2, <4>3, DirsWritten
      <3>5. QED  BY <3>3, <3>4
    <2>3. CASE Rename(r)
      <3>1. CASE Fail(r) /\ UNCHANGED fs
        BY <3>1, <1>2 DEF Fail, Steps
      <3>2. CASE /\ Here(r).dir = req[r].dir
                 /\ fs' = [fs EXCEPT ![Id(r)].rules = @ \cup {RuleId(r)}]
                 /\ Goto(r, "relist")
        <4>1. Moves(r, "relist", req[r].dir) /\ req[r].dir # NoDir
          BY <2>3, <3>2, GotoMoves DEF Steps, Rename, At, DirsKnown
        <4>2. fs'[Id(r)].dir = fs[Id(r)].dir /\ \A l \in Ids : l # Id(r) => fs'[l] = fs[l]
          BY <3>2, TaskType DEF FilesType
        <4>3. QED  BY <3>2, <4>1, <4>2, TaskType, DirsWritten DEF Here
      <3>3. QED  BY <2>3, <3>1, <3>2 DEF Rename
    <2>4. CASE Unlink(r)
      <3>1. CASE Fail(r) /\ UNCHANGED fs
        BY <3>1, <1>2 DEF Fail, Steps
      <3>2. CASE /\ RuleId(r) \in Here(r).rules
                 /\ fs' = [fs EXCEPT ![Id(r)].rules = @ \ {RuleId(r)}]
                 /\ req' = [req EXCEPT ![r].pc = "relist", ![r].dir = Here(r).dir]
        <4>1. Moves(r, "relist", Here(r).dir)
          BY <3>2, TaskType, TakesMoves DEF Directories, Steps
        <4>2. Here(r).dir # NoDir
          BY <3>2, TaskType DEF DirsKnown, Here, Nothing
        <4>3. fs'[Id(r)].dir = fs[Id(r)].dir /\ \A l \in Ids : l # Id(r) => fs'[l] = fs[l]
          BY <3>2, TaskType DEF FilesType
        <4>4. QED  BY <3>2, <4>1, <4>2, <4>3, TaskType, DirsWritten DEF Here
      <3>3. QED  BY <2>4, <3>1, <3>2 DEF Unlink
    <2>5. CASE WriteIndex(r)
      <3>1. CASE Fail(r) /\ UNCHANGED fs
        BY <3>1, <1>2 DEF Fail, Steps
      <3>2. CASE /\ Here(r).dir # NoDir
                 /\ fs' = [fs EXCEPT ![Id(r)].index = seen[r]]
                 /\ Goto(r, "done")
        <4>1. Moves(r, "done", req[r].dir)
          BY <3>2, GotoMoves DEF Steps
        <4>2. fs'[Id(r)].dir = fs[Id(r)].dir /\ \A l \in Ids : l # Id(r) => fs'[l] = fs[l]
          BY <3>2, TaskType DEF FilesType
        <4>3. QED  BY <3>2, <4>1, <4>2, TaskType, DirsWritten DEF Here
      <3>3. QED  BY <2>5, <3>1, <3>2 DEF WriteIndex
    <2>6. QED  BY <2>1, <2>2, <2>3, <2>4, <2>5 DEF RuleStep
  <1>11. ASSUME NEW r \in Reqs, Throws(r)  PROVE DirsKnown'
    BY <1>2, <1>11 DEF Throws, Fail, Steps
  <1>12. QED
    BY <1>3, <1>4, <1>5, <1>6, <1>7, <1>8, <1>9, <1>10, <1>11 DEF FilesNext

-----------------------------------------------------------------------------
(* The index.  Whoever is about to write it has seen the rules there are,  *)
(* unless the directory was replaced; and where it lags behind, the writer *)
(* at the head of the lock is on its way to write it.                      *)
Same(r, k) == req[r].dir = fs[k].dir /\ fs[k].dir # NoDir

Behind(k) == fs[k].dir # NoDir /\ fs[k].dir \notin unlisted /\ fs[k].index # fs[k].rules

Writes(r, k) == req[r].pc \in {"relist", "index"} /\ Id(r) = k /\ Same(r, k)

Indexed ==
    /\ \A r \in Reqs : At(r, "index") /\ Same(r, Id(r)) => seen[r] = Here(r).rules
    /\ \A k \in Ids : Behind(k) => \E r \in Reqs : Writes(r, k)

LEMMA IndexedInit == FilesInit => Indexed
  <1> SUFFICES ASSUME FilesInit PROVE Indexed
    OBVIOUS
  <1>1. \A r \in Reqs : ~At(r, "index")
    BY DEF FilesInit, DirInit, At
  <1>2. \A k \in Ids : ~Behind(k)
    BY DEF FilesInit, DirInit, Skeleton, Behind
  <1>3. QED  BY <1>1, <1>2 DEF Indexed

(* A step that writes no rule and no index.                                *)
LEMMA IndexedQuiet ==
    ASSUME FilesType, Indexed, UNCHANGED seen, unlisted \subseteq unlisted',
           \A k \in Ids :
              \/ fs'[k].dir = fs[k].dir /\ fs'[k].rules = fs[k].rules /\ fs'[k].index = fs[k].index
              \/ /\ fs'[k].index = fs'[k].rules
                 /\ fs'[k].dir = NoDir \/ \A q \in Reqs : At(q, "index") => req[q].dir # fs'[k].dir,
           \A q \in Reqs :
              \/ req'[q] = req[q]
              \/ /\ req'[q].pc \notin {"relist", "index"}
                 /\ req[q].pc \in {"relist", "index"} => req[q].dir \in unlisted'
    PROVE  Indexed'
  <1>1. ASSUME NEW r \in Reqs, At(r, "index")', Same(r, Id(r))'  PROVE seen'[r] = Here(r)'.rules
    <2>1. req'[r] = req[r] /\ At(r, "index") /\ Id(r)' = Id(r) /\ Id(r) \in Ids
      BY <1>1, TaskType DEF At, Id
    <2>2. PICK k \in Ids : k = Id(r) /\ k = Id(r)'
      BY <2>1
    <2>3. fs'[k].dir = fs[k].dir /\ fs'[k].rules = fs[k].rules
      BY <1>1, <2>1, <2>2 DEF Same
    <2>4. QED  BY <1>1, <2>1, <2>2, <2>3 DEF Indexed, Same, Here
  <1>2. ASSUME NEW k \in Ids, Behind(k)'  PROVE \E r \in Reqs : Writes(r, k)'
    <2>1. fs'[k].dir = fs[k].dir /\ fs'[k].rules = fs[k].rules /\ fs'[k].index = fs[k].index
      BY <1>2 DEF Behind
    <2>2. PICK r \in Reqs : Writes(r, k)
      BY <1>2, <2>1 DEF Behind, Indexed
    <2>3. req'[r] = req[r]
      BY <1>2, <2>1, <2>2 DEF Behind, Writes, Same
    <2>4. QED  BY <2>1, <2>2, <2>3 DEF Writes, Same, Id
  <1>3. QED  BY <1>1, <1>2 DEF Indexed

(* A step of the writer at the head of the lock of k.                      *)
LEMMA IndexedAt ==
    ASSUME FilesType, WritersFirst, Indexed, NEW r \in Reqs, NEW k \in Ids, k = Id(r), FirstWriter(r),
           Id(r)' = k, \A q \in Reqs : q # r => req'[q] = req[q] /\ seen'[q] = seen[q],
           \A l \in Ids : l # k => fs'[l] = fs[l] /\ (fs[l].dir \in unlisted => fs[l].dir \in unlisted'),
           At(r, "index")' /\ Same(r, k)' => seen'[r] = fs'[k].rules,
           Behind(k)' => Writes(r, k)'
    PROVE  Indexed'
  <1>1. ASSUME NEW q \in Reqs, q # r, At(q, "index")', Same(q, Id(q))'  PROVE seen'[q] = Here(q)'.rules
    <2>1. req'[q] = req[q] /\ At(q, "index") /\ Id(q)' = Id(q) /\ Id(q) \in Ids
      BY <1>1, TaskType DEF At, Id
    <2>2. Id(q) # k
      BY <1>1, <2>1 DEF WritersFirst, FirstWriter, At
    <2>3. PICK l \in Ids : l = Id(q) /\ l = Id(q)' /\ fs'[l] = fs[l]
      BY <2>1, <2>2
    <2>4. QED  BY <1>1, <2>1, <2>3 DEF Indexed, Same, Here
  <1>2. ASSUME NEW l \in Ids, l # k, Behind(l)'  PROVE \E q \in Reqs : Writes(q, l)'
    <2>1. PICK q \in Reqs : Writes(q, l)
      BY <1>2 DEF Behind, Indexed
    <2>2. q # r
      BY <1>2, <2>1 DEF Writes
    <2>3. QED  BY <1>2, <2>1, <2>2 DEF Writes, Same, Id
  <1>3. ASSUME At(r, "index")', Same(r, Id(r))'  PROVE seen'[r] = Here(r)'.rules
    BY <1>3 DEF Here, Same
  <1>4. QED  BY <1>1, <1>2, <1>3 DEF Indexed

LEMMA FreshEverywhere ==
    ASSUME FilesType, DirsKnown, NEW r \in Reqs, req[r].pc \in {"create", "prepare", "relist"}
    PROVE  \A q \in Reqs : req[q].dir # Made(r)
  BY MadeFresh, MadeType DEF DirsKnown

LEMMA IndexedStep ==
    ASSUME FilesType, WritersFirst, DirsKnown, Indexed, [FilesNext]_filesVars
    PROVE  Indexed'
  <1> DEFINE Idle == {"relist", "index"}
  <1> DEFINE Unwritten == \A k \in Ids : /\ fs'[k].dir = fs[k].dir
                                         /\ fs'[k].rules = fs[k].rules /\ fs'[k].index = fs[k].index
  <1>1. CASE Crash
    <2>1. \A q \in Reqs : \/ req'[q] = req[q]
                          \/ /\ req'[q].pc \notin {"relist", "index"}
                             /\ req[q].pc \in {"relist", "index"} => req[q].dir \in unlisted'
      BY <1>1 DEF Crash, FilesType, Requests, Over, Unlists, Halfway
    <2>2. QED  BY <1>1, <2>1, IndexedQuiet DEF Crash
  <1>2. CASE UNCHANGED <<dirVars, ruleVars>>
    BY <1>2, IndexedQuiet DEF dirVars, ruleVars
  <1>3. ASSUME NEW r \in Reqs, Directory(r) \/ Founded(r) \/ Moved(r) \/ MemberStep(r) \/ RuleStep(r) \/ Throws(r),
               req[r].pc \notin Idle, req'[r].pc \notin Idle,
               UNCHANGED <<seen, unlisted>>,
               \A k \in Ids :
                 \/ fs'[k].dir = fs[k].dir /\ fs'[k].rules = fs[k].rules /\ fs'[k].index = fs[k].index
                 \/ /\ fs'[k].index = fs'[k].rules
                    /\ fs'[k].dir = NoDir \/ \A q \in Reqs : At(q, "index") => req[q].dir # fs'[k].dir
        PROVE  Indexed'
    <2>1. \A q \in Reqs : q # r => req'[q] = req[q]
      BY <1>3, CallSteps
    <2>2. QED  BY <1>3, <2>1, IndexedQuiet
  <1>4. ASSUME NEW r \in Reqs, Directory(r)  PROVE Indexed'
    <2>1. req[r].pc \notin Idle
      BY <1>4 DEF Directory, Arrive, Authorize, Look, Exists, At
    <2>2. req'[r].pc \notin Idle
      <3>1. Goes(r)
        BY <1>4, CallSteps
      <3>2. \A t \in Tasks : FirstStep(t) \notin Idle
        BY DirectoryAssumption DEF FirstStep, Ops
      <3>3. req[r].pc \notin {"rename", "unlink"}
        BY <1>4 DEF Directory, Arrive, Authorize, Look, Exists, At
      <3>4. QED  BY <2>1, <3>1, <3>2, <3>3 DEF Goes, Arrow
    <2>3. QED  BY <1>3, <1>4, <2>1, <2>2 DEF Directory, Arrive, Authorize, Look, Exists, ruleVars
  <1>5. ASSUME NEW r \in Reqs, Founded(r)  PROVE Indexed'
    <2>1. Moves(r, "done", req[r].dir) /\ At(r, "create")
      BY <1>5, GotoMoves DEF Founded, CreateSkeleton, Steps
    <2>2. /\ \A l \in Ids : l # Id(r) => fs'[l] = fs[l]
          /\ fs'[Id(r)].dir = Made(r) /\ fs'[Id(r)].index = fs'[Id(r)].rules
      BY <1>5, TaskType DEF Founded, CreateSkeleton, FilesType, Skeleton
    <2>3. \A q \in Reqs : req[q].dir # Made(r)
      BY <2>1, FreshEverywhere DEF At
    <2>4. UNCHANGED <<seen, unlisted>>
      BY <1>5 DEF Founded, ruleVars
    <2>5. req[r].pc \notin Idle /\ req'[r].pc \notin Idle
      BY <2>1 DEF Moves, At
    <2>6. QED  BY <1>3, <1>5, <2>2, <2>3, <2>4, <2>5
  <1>6. ASSUME NEW r \in Reqs, Moved(r)  PROVE Indexed'
    <2>1. At(r, "delete") /\ (Goto(r, "done") \/ Goto(r, "failed"))
      BY <1>6 DEF Moved, SoftDelete, Fail
    <2>2. req[r].pc \notin Idle /\ req'[r].pc \notin Idle
      BY <2>1, GotoMoves DEF Moves, At, Steps
    <2>3. \A k \in Ids : fs'[k] = fs[k] \/ fs'[k] = Nothing
      BY <1>6, TaskType DEF Moved, SoftDelete, FilesType
    <2>4. \A k \in Ids :
             \/ fs'[k].dir = fs[k].dir /\ fs'[k].rules = fs[k].rules /\ fs'[k].index = fs[k].index
             \/ fs'[k].index = fs'[k].rules /\ fs'[k].dir = NoDir
      BY <2>3 DEF Nothing
    <2>5. UNCHANGED <<seen, unlisted>>
      BY <1>6 DEF Moved, ruleVars
    <2>6. QED  BY <1>3, <1>6, <2>2, <2>4, <2>5
  <1>7. ASSUME NEW r \in Reqs, MemberStep(r), UNCHANGED ruleVars  PROVE Indexed'
    <2>1. Unwritten
      <3>1. CASE fs' = fs
        BY <3>1
      <3>2. ASSUME NEW k \in Ids, NEW m, fs' = [fs EXCEPT ![k].members = m]  PROVE Unwritten
        BY <3>2 DEF FilesType, Directories
      <3>3. ASSUME NEW m, fs' = [fs EXCEPT ![Id(r)].ns = m]  PROVE Unwritten
        BY <3>3, TaskType DEF FilesType, Directories
      <3>4. QED
        BY <1>7, <3>1, <3>2, <3>3 DEF MemberStep, Load, TruncateSettings, FillSettings, Revoke, CheckLast,
           List, Walk, Read, Truncate, Fill
    <2>2. req[r].pc \notin Idle \cup {"rename", "unlink", "idle"}
      BY <1>7 DEF MemberStep, Load, TruncateSettings, FillSettings, Revoke, CheckLast,
         List, Walk, Read, Truncate, Fill, At
    <2>3. req'[r].pc \notin Idle
      <3>1. Goes(r)
        BY <1>7, CallSteps
      <3>2. QED  BY <2>2, <3>1 DEF Goes, Arrow, At
    <2>4. QED  BY <1>3, <1>7, <2>1, <2>2, <2>3 DEF ruleVars
  <1>8. ASSUME NEW r \in Reqs, Throws(r)  PROVE Indexed'
    <2>1. Moves(r, "failed", req[r].dir)
      BY <1>8, GotoMoves DEF Throws, Fail, Steps
    <2>2. \A q \in Reqs : \/ req'[q] = req[q]
                          \/ /\ req'[q].pc \notin {"relist", "index"}
                             /\ req[q].pc \in {"relist", "index"} => req[q].dir \in unlisted'
      BY <1>8, <2>1 DEF Throws, Moves, Unlists, Halfway
    <2>3. QED  BY <1>8, <2>2, IndexedQuiet DEF Throws
  <1>9. ASSUME NEW r \in Reqs, RuleStep(r)  PROVE Indexed'
    <2>0. PICK k \in Ids : k = Id(r)
      BY TaskType
    <2>1. Goes(r) /\ \A q \in Reqs : q # r => req'[q] = req[q]
      BY <1>9, CallSteps
    <2>2. fs \in [Ids -> Directories] /\ seen \in [Reqs -> SUBSET RuleIds]
      BY DEF FilesType
    <2>3. CASE EnterRules(r)
      <3>1. At(r, "rule") /\ (Goto(r, "unlink") \/ Goto(r, "prepare"))
        BY <2>3 DEF EnterRules
      <3>2. req[r].pc \notin Idle /\ req'[r].pc \notin Idle
        BY <3>1, GotoMoves DEF Moves, At, Steps
      <3>3. QED  BY <1>3, <1>9, <2>3, <3>2 DEF EnterRules
    <2>4. CASE Prepare(r)
      <3>1. At(r, "prepare") /\ req'[r].pc = "rename"
        BY <2>4 DEF Prepare, FilesType, Requests
      <3>2. \A l \in Ids : fs'[l] = fs[l] \/ (fs'[l] = Bare(r))
        BY <2>2, <2>4 DEF Prepare
      <3>3. \A q \in Reqs : req[q].dir # Made(r)
        BY <3>1, FreshEverywhere DEF At
      <3>4. Bare(r).dir = Made(r) /\ Bare(r).index = {} /\ Bare(r).rules = {}
        BY DEF Bare, Nothing
      <3>5. \A l \in Ids :
             \/ fs'[l].dir = fs[l].dir /\ fs'[l].rules = fs[l].rules /\ fs'[l].index = fs[l].index
             \/ /\ fs'[l].index = fs'[l].rules
                /\ \A q \in Reqs : At(q, "index") => req[q].dir # fs'[l].dir
        BY <3>2, <3>3, <3>4
      <3>6. req[r].pc \notin Idle /\ req'[r].pc \notin Idle /\ UNCHANGED <<seen, unlisted>>
        BY <2>4, <3>1 DEF Prepare, ruleVars, At
      <3>7. QED  BY <1>3, <1>9, <3>5, <3>6
    <2>5. ASSUME Fail(r), req[r].pc \notin Idle, UNCHANGED <<fs, seen, unlisted>>  PROVE Indexed'
      <3>1. req'[r].pc = "failed"
        BY <2>5, GotoMoves DEF Fail, Moves, Steps
      <3>2. QED  BY <1>3, <1>9, <2>5, <3>1
    <2>6. ASSUME NEW s, fs' = [fs EXCEPT ![k].rules = s], UNCHANGED <<seen, unlisted>>, FirstWriter(r),
                 Moves(r, "relist", fs[k].dir), fs[k].dir # NoDir
          PROVE  Indexed'
      <3>1. fs'[k].dir = fs[k].dir /\ \A l \in Ids : l # k => fs'[l] = fs[l]
        BY <2>2, <2>6
      <3>2. Id(r)' = k /\ req'[r].pc = "relist" /\ req'[r].dir = fs[k].dir
        BY <2>0, <2>6 DEF Moves, Id
      <3>3. Writes(r, k)' /\ ~At(r, "index")'
        BY <2>6, <3>1, <3>2 DEF Writes, Same, At
      <3>4. QED  BY <2>0, <2>1, <2>6, <3>1, <3>2, <3>3, IndexedAt
    <2>7. CASE Rename(r)
      <3>1. CASE Fail(r) /\ UNCHANGED fs
        BY <2>5, <2>7, <3>1 DEF Rename, At
      <3>2. CASE /\ Here(r).dir = req[r].dir
                 /\ fs' = [fs EXCEPT ![Id(r)].rules = @ \cup {RuleId(r)}]
                 /\ Goto(r, "relist")
        <4>1. Moves(r, "relist", req[r].dir) /\ req[r].dir # NoDir
          BY <2>7, <3>2, GotoMoves DEF Steps, Rename, At, DirsKnown, Holding
        <4>2. FirstWriter(r)
          BY <2>7 DEF Rename, At, WritersFirst
        <4>3. QED  BY <2>0, <2>6, <2>7, <3>2, <4>1, <4>2 DEF Here, Rename
      <3>3. QED  BY <2>7, <3>1, <3>2 DEF Rename
    <2>8. CASE Unlink(r)
      <3>1. CASE Fail(r) /\ UNCHANGED fs
        BY <2>5, <2>8, <3>1 DEF Unlink, At
      <3>2. CASE /\ RuleId(r) \in Here(r).rules
                 /\ fs' = [fs EXCEPT ![Id(r)].rules = @ \ {RuleId(r)}]
                 /\ req' = [req EXCEPT ![r].pc = "relist", ![r].dir = Here(r).dir]
        <4>1. Moves(r, "relist", Here(r).dir)
          BY <3>2, TaskType, TakesMoves DEF Directories, Steps
        <4>2. Here(r).dir # NoDir
          BY <3>2, TaskType DEF DirsKnown, Here, Nothing
        <4>3. QED  BY <2>0, <2>6, <2>8, <3>2, <4>1, <4>2 DEF Here, Unlink
      <3>3. QED  BY <2>8, <3>1, <3>2 DEF Unlink
    <2>9. CASE Relist(r)
      <3>1. FirstWriter(r)
        BY <2>9 DEF Relist, At, WritersFirst
      <3>2. Id(r)' = k /\ req'[r].pc = "index" /\ req'[r].dir = fs'[k].dir
        BY <2>0, <2>9 DEF Relist, FilesType, Requests, Id
      <3>3. \A l \in Ids : l # k => fs'[l] = fs[l]
        BY <2>0, <2>2, <2>9 DEF Relist
      <3>4. /\ UNCHANGED unlisted /\ seen'[r] = fs[k].rules
            /\ \A q \in Reqs : q # r => seen'[q] = seen[q]
        BY <2>0, <2>2, <2>9 DEF Relist, Here
      <3>5. fs'[k].rules = fs[k].rules
        <4>1. CASE fs[k].dir = NoDir
          BY <2>0, <2>2, <2>9, <4>1 DEF Relist, Here, Bare, Nothing, DirsKnown
        <4>2. CASE fs[k].dir # NoDir
          BY <2>0, <2>9, <4>2 DEF Relist, Here
        <4>3. QED  BY <4>1, <4>2
      <3>6. Behind(k)' => Writes(r, k)'
        BY <3>2 DEF Behind, Writes, Same
      <3>7. QED  BY <2>0, <2>1, <3>1, <3>2, <3>3, <3>4, <3>5, <3>6, IndexedAt
    <2>10. CASE WriteIndex(r)
      <3>1. FirstWriter(r) /\ At(r, "index") /\ UNCHANGED seen
        BY <2>10 DEF WriteIndex, At, WritersFirst
      <3>2. Id(r)' = k /\ req'[r].pc \in {"done", "failed"}
        <4>1. Goto(r, "failed") \/ Goto(r, "done")
          BY <2>10 DEF WriteIndex, Fail
        <4>2. QED  BY <2>0, <4>1, GotoMoves DEF Moves, Id, Steps
      <3>3. \A l \in Ids : l # k => fs'[l] = fs[l]
        BY <2>0, <2>2, <2>10 DEF WriteIndex
      <3>4. CASE fs[k].dir = NoDir
        <4>1. UNCHANGED <<fs, unlisted>>
          BY <2>0, <2>10, <3>4 DEF WriteIndex, Here
        <4>2. QED  BY <2>0, <2>1, <3>1, <3>2, <3>3, <3>4, <4>1, IndexedAt DEF At, Behind
      <3>5. CASE fs[k].dir # NoDir
        <4>1. fs'[k].index = seen[r] /\ fs'[k].rules = fs[k].rules /\ fs'[k].dir = fs[k].dir
          BY <2>0, <2>2, <2>10, <3>5 DEF WriteIndex, Here, Directories
        <4>2. \A l \in Ids : l # k => fs[l].dir # fs[k].dir
          BY <3>5, MadeApart DEF DirsKnown
        <4>3. \/ fs[k].dir = req[r].dir /\ unlisted' = unlisted \ {fs[k].dir}
              \/ unlisted' = unlisted \cup {fs[k].dir}
          BY <2>0, <2>10, <3>5 DEF WriteIndex, Here
        <4>4. fs[k].dir = req[r].dir => seen[r] = fs[k].rules
          BY <2>0, <3>1, <3>5 DEF Indexed, Same, Here
        <4>5. ~Behind(k)'
          BY <4>1, <4>3, <4>4 DEF Behind
        <4>6. QED  BY <2>0, <2>1, <3>1, <3>2, <3>3, <4>2, <4>3, <4>5, IndexedAt DEF At
      <3>6. QED  BY <3>4, <3>5
    <2>11. QED  BY <1>9, <2>3, <2>4, <2>7, <2>8, <2>9, <2>10 DEF RuleStep
  <1>10. QED
    BY <1>1, <1>2, <1>4, <1>5, <1>6, <1>7, <1>8, <1>9
       DEF FilesNext, filesVars, dirVars, ruleVars, Mint

-----------------------------------------------------------------------------
(* The lock of the members.  A call is in it once, in the lock of one      *)
(* namespace, and past its wait only at the head.                          *)
Inside == {"locked", "save", "fill"}

Queued ==
    /\ \A k \in Ids : \A m, n \in DOMAIN lock[k] : lock[k][m] = lock[k][n] => m = n
    /\ \A r \in Reqs : \A k, l \in Ids : In(r, k) /\ In(r, l) => k = l
    /\ \A r \in Reqs : \A k \in Ids : In(r, k) =>
          /\ req[r].pc \in Inside /\ Doing(r, LockOps)
          /\ req[r].pc # "locked" => Head(lock[k]) = r

LEMMA QueuedInit == FilesInit => Queued
  <1> SUFFICES ASSUME FilesInit PROVE Queued
    OBVIOUS
  <1>1. \A k \in Ids : lock[k] = << >>
    BY DEF FilesInit, MemInit
  <1>2. QED  BY <1>1 DEF Queued, In

LEMMA AppendHas ==
    ASSUME NEW S, NEW s \in Seq(S), NEW x \in S
    PROVE  /\ \A y : (\E m \in DOMAIN Append(s, x) : Append(s, x)[m] = y) <=>
                     (y = x \/ \E m \in DOMAIN s : s[m] = y)
           /\ s # << >> => Head(Append(s, x)) = Head(s)
           /\ (\A m, n \in DOMAIN s : s[m] = s[n] => m = n) /\ (\A m \in DOMAIN s : s[m] # x) =>
                 \A m, n \in DOMAIN Append(s, x) : Append(s, x)[m] = Append(s, x)[n] => m = n
  <1>1. /\ DOMAIN s = 1..Len(s) /\ DOMAIN Append(s, x) = 1..(Len(s) + 1) /\ Len(s) \in Nat
        /\ \A m \in 1..Len(s) : Append(s, x)[m] = s[m]
        /\ Append(s, x)[Len(s) + 1] = x
    OBVIOUS
  <1>2. \A m \in DOMAIN Append(s, x) : m \in DOMAIN s \/ m = Len(s) + 1
    BY <1>1
  <1>3. DOMAIN s \subseteq DOMAIN Append(s, x) /\ Len(s) + 1 \in DOMAIN Append(s, x)
    BY <1>1
  <1>4. s # << >> => Head(Append(s, x)) = Head(s)
    OBVIOUS
  <1>5. \A y : (\E m \in DOMAIN Append(s, x) : Append(s, x)[m] = y) <=>
               (y = x \/ \E m \in DOMAIN s : s[m] = y)
    BY <1>1, <1>2, <1>3
  <1>6. ASSUME \A m, n \in DOMAIN s : s[m] = s[n] => m = n, \A m \in DOMAIN s : s[m] # x
        PROVE  \A m, n \in DOMAIN Append(s, x) : Append(s, x)[m] = Append(s, x)[n] => m = n
    BY <1>1, <1>2, <1>6
  <1>7. QED  BY <1>4, <1>5, <1>6

LEMMA TailHas ==
    ASSUME NEW S, NEW s \in Seq(S), s # << >>,
           \A m, n \in DOMAIN s : s[m] = s[n] => m = n
    PROVE  /\ \A y : (\E m \in DOMAIN Tail(s) : Tail(s)[m] = y) <=>
                     (y # Head(s) /\ \E m \in DOMAIN s : s[m] = y)
           /\ \A m, n \in DOMAIN Tail(s) : Tail(s)[m] = Tail(s)[n] => m = n
  <1>1. /\ DOMAIN s = 1..Len(s) /\ DOMAIN Tail(s) = 1..(Len(s) - 1) /\ Len(s) \in Nat /\ Len(s) > 0
        /\ \A m \in 1..(Len(s) - 1) : Tail(s)[m] = s[m + 1]
        /\ Head(s) = s[1]
    OBVIOUS
  <1>2. \A m \in DOMAIN Tail(s) : m \in Nat /\ m > 0 /\ m + 1 \in DOMAIN s /\ Tail(s)[m] = s[m + 1]
    BY <1>1
  <1>3. \A m \in DOMAIN s : m = 1 \/ (m - 1 \in DOMAIN Tail(s) /\ Tail(s)[m - 1] = s[m])
    BY <1>1
  <1>4. 1 \in DOMAIN s
    BY <1>1
  <1>5. ASSUME NEW y  PROVE (\E m \in DOMAIN Tail(s) : Tail(s)[m] = y) =>
                            (y # Head(s) /\ \E m \in DOMAIN s : s[m] = y)
    <2>1. ASSUME NEW m \in DOMAIN Tail(s), Tail(s)[m] = y
          PROVE  y # Head(s) /\ \E n \in DOMAIN s : s[n] = y
      <3>1. m \in Nat /\ m > 0 /\ m + 1 \in DOMAIN s /\ s[m + 1] = y
        BY <1>2, <2>1
      <3>2. s[m + 1] # s[1]
        BY <1>4, <3>1
      <3>3. QED  BY <1>1, <3>1, <3>2
    <2>2. QED  BY <2>1
  <1>6. ASSUME NEW y, y # Head(s), NEW m \in DOMAIN s, s[m] = y
        PROVE  \E n \in DOMAIN Tail(s) : Tail(s)[n] = y
    BY <1>1, <1>3, <1>6
  <1>7. \A m, n \in DOMAIN Tail(s) : Tail(s)[m] = Tail(s)[n] => m = n
    <2>1. ASSUME NEW m \in DOMAIN Tail(s), NEW n \in DOMAIN Tail(s), Tail(s)[m] = Tail(s)[n]  PROVE m = n
      <3>1. m + 1 = n + 1 /\ m \in Nat /\ n \in Nat
        BY <1>2, <2>1
      <3>2. QED  BY <3>1
    <2>2. QED  BY <2>1
  <1>8. QED  BY <1>5, <1>6, <1>7

LEMMA EnterIn ==
    ASSUME FilesType, NEW r \in Reqs, NEW k \in Ids, Enter(r, k)
    PROVE  \A q \in Reqs : \A l \in Ids : In(q, l)' <=> In(q, l) \/ (q = r /\ l = k)
  <1>1. lock[k] \in Seq(Reqs) /\ lock'[k] = Append(lock[k], r) /\ \A l \in Ids : l # k => lock'[l] = lock[l]
    BY DEF FilesType, Enter
  <1>2. \A q : (\E m \in DOMAIN lock'[k] : lock'[k][m] = q) <=> (q = r \/ \E m \in DOMAIN lock[k] : lock[k][m] = q)
    BY <1>1, AppendHas
  <1>3. QED  BY <1>1, <1>2 DEF In

LEMMA LeaveIn ==
    ASSUME FilesType, Queued, NEW r \in Reqs, NEW k \in Ids, First(r, k), Leave(k)
    PROVE  \A q \in Reqs : \A l \in Ids : In(q, l)' <=> In(q, l) /\ q # r
  <1>0. In(r, k) /\ Head(lock[k]) = r /\ lock[k] # << >>
    BY InNonempty DEF First
  <1>1. /\ lock[k] \in Seq(Reqs) /\ lock[k] # << >> /\ Head(lock[k]) = r /\ In(r, k)
        /\ lock'[k] = Tail(lock[k]) /\ \A l \in Ids : l # k => lock'[l] = lock[l]
    BY <1>0 DEF Leave, FilesType
  <1>5. \A m, n \in DOMAIN lock[k] : lock[k][m] = lock[k][n] => m = n
    BY DEF Queued
  <1>2. \A q : (\E m \in DOMAIN lock'[k] : lock'[k][m] = q) <=> (q # r /\ \E m \in DOMAIN lock[k] : lock[k][m] = q)
    <2>1. PICK s \in Seq(Reqs) : s = lock[k]
      BY <1>1
    <2>2. \A y : (\E m \in DOMAIN Tail(s) : Tail(s)[m] = y) <=> (y # Head(s) /\ \E m \in DOMAIN s : s[m] = y)
      <3>1. s # << >> /\ \A m, n \in DOMAIN s : s[m] = s[n] => m = n
        BY <1>1, <1>5, <2>1
      <3>2. QED  BY <3>1, TailHas, Zenon
    <2>3. QED  BY <1>1, <2>1, <2>2
  <1>3. \A l \in Ids : l # k => ~In(r, l)
    BY <1>1 DEF Queued
  <1>4. ASSUME NEW q \in Reqs, NEW l \in Ids  PROVE In(q, l)' <=> In(q, l) /\ q # r
    <2>1. CASE l = k
      BY <1>2, <2>1 DEF In
    <2>2. CASE l # k
      BY <1>1, <1>3, <2>2 DEF In
    <2>3. QED  BY <2>1, <2>2
  <1>6. QED  BY <1>4

(* What a step of the call r does to the locks.                            *)
Stays(r) ==
    /\ lock' = lock
    /\ \A k \in Ids : In(r, k) => /\ req'[r].task = req[r].task /\ req'[r].pc \in {"save", "fill"}
                                  /\ Head(lock[k]) = r
Enters(r) ==
    /\ \E k \in Ids : Enter(r, k)
    /\ \A k \in Ids : ~In(r, k)
    /\ req'[r].task = req[r].task /\ req'[r].pc = "locked" /\ Doing(r, LockOps)
Departs(r) == \E k \in Ids : First(r, k) /\ Leave(k)

LEMMA LockMoves ==
    ASSUME FilesType, Queued, Revoking, NEW r \in Reqs,
           \/ Directory(r) \/ Founded(r) \/ Moved(r) \/ MemberStep(r)
           \/ (RuleStep(r) /\ UNCHANGED memVars) \/ Throws(r)
    PROVE  Stays(r) \/ Enters(r) \/ Departs(r)
  <1>1. ASSUME req[r].pc \notin Inside  PROVE \A k \in Ids : ~In(r, k)
    BY <1>1 DEF Queued
  <1>2. ASSUME req[r].pc \notin Inside, lock' = lock  PROVE Stays(r)
    BY <1>1, <1>2 DEF Stays
  <1>3. ASSUME req[r].pc \notin Inside, NEW k \in Ids, Enter(r, k), Goto(r, "locked"), Doing(r, LockOps)
        PROVE  Enters(r)
    <2>1. Moves(r, "locked", req[r].dir)
      BY <1>3, GotoMoves DEF Steps
    <2>2. QED  BY <1>1, <1>3, <2>1 DEF Enters, Moves
  <1>4. CASE Directory(r) \/ Founded(r) \/ Moved(r)
    BY <1>2, <1>4 DEF Directory, Arrive, Authorize, Look, Exists, Founded, CreateSkeleton, Moved, SoftDelete,
       memVars, At, Inside
  <1>5. CASE RuleStep(r) /\ UNCHANGED memVars
    BY <1>2, <1>5 DEF RuleStep, EnterRules, Prepare, Rename, Unlink, Relist, WriteIndex, memVars, At, Inside
  <1>6. CASE Load(r)
    BY <1>2, <1>3, <1>6, TaskType DEF Load, At, Inside
  <1>7. CASE TruncateSettings(r) \/ FillSettings(r) \/ Revoke(r) \/ CheckLast(r) \/ List(r)
    BY <1>2, <1>7 DEF TruncateSettings, FillSettings, Revoke, CheckLast, List, memVars, At, Inside
  <1>8. CASE Walk(r)
    <2>1. At(r, "walk") /\ Doing(r, LockOps) /\ walk[r] \subseteq Ids
      BY <1>8 DEF Walk, Revoking, At, Doing, LockOps, FilesType
    <2>2. QED  BY <1>2, <1>3, <1>8, <2>1 DEF Walk, At, Inside
  <1>9. ASSUME NEW k \in Ids, Read(r, k)  PROVE Stays(r) \/ Departs(r)
    <2>1. CASE Leave(k)
      BY <1>9, <2>1 DEF Read, Departs
    <2>2. CASE req' = [req EXCEPT ![r].pc = "save", ![r].dir = fs[k].dir] /\ UNCHANGED lock
      <3>1. Moves(r, "save", fs[k].dir)
        BY <2>2, TakesMoves DEF FilesType, Directories, Steps
      <3>2. \A l \in Ids : In(r, l) => l = k
        BY <1>9 DEF Read, First, Queued
      <3>3. QED  BY <1>9, <2>2, <3>1, <3>2 DEF Stays, Moves, Read, First
    <2>3. QED  BY <1>9, <2>1, <2>2 DEF Read
  <1>10. ASSUME NEW k \in Ids, Truncate(r, k)  PROVE Stays(r) \/ Departs(r)
    <2>1. First(r, k)
      BY <1>10 DEF Truncate, First, Queued, At
    <2>2. CASE Leave(k)
      BY <2>1, <2>2 DEF Departs
    <2>3. CASE req' = [req EXCEPT ![r].pc = "fill", ![r].dir = fs[k].dir] /\ UNCHANGED lock
      <3>1. Moves(r, "fill", fs[k].dir)
        BY <2>3, TakesMoves DEF FilesType, Directories, Steps
      <3>2. \A l \in Ids : In(r, l) => l = k
        BY <2>1 DEF First, Queued
      <3>3. QED  BY <2>1, <2>3, <3>1, <3>2 DEF Stays, Moves, First
    <2>4. QED  BY <1>10, <2>2, <2>3 DEF Truncate
  <1>11. ASSUME NEW k \in Ids, Fill(r, k)  PROVE Departs(r)
    BY <1>11 DEF Fill, First, Queued, At, Departs
  <1>12. CASE Throws(r)
    <2>1. lock \in [Ids -> Seq(Reqs)] /\ lock' = [i \in Ids |-> Without(lock[i], r)]
      BY <1>12 DEF Throws, FilesType
    <2>2. CASE \E k \in Ids : First(r, k)
      <3>1. PICK k \in Ids : First(r, k)
        BY <2>2
      <3>2. lock[k] # << >> /\ Without(lock[k], r) = Tail(lock[k])
        BY <3>1, InNonempty DEF First, Without
      <3>3. \A l \in Ids : l # k => Without(lock[l], r) = lock[l]
        <4>1. \A l \in Ids : lock[l] # << >> /\ Head(lock[l]) = r => In(r, l)
          BY <2>1 DEF In
        <4>2. QED  BY <3>1, <4>1 DEF First, Queued, Without
      <3>4. QED  BY <2>1, <3>1, <3>2, <3>3 DEF Departs, Leave
    <2>3. CASE ~\E k \in Ids : First(r, k)
      <3>1. \A k \in Ids : ~In(r, k)
        BY <1>12, <2>3 DEF Throws, Waits, First, Queued, At
      <3>2. \A l \in Ids : lock[l] # << >> /\ Head(lock[l]) = r => In(r, l)
        BY <2>1 DEF In
      <3>3. \A l \in Ids : Without(lock[l], r) = lock[l]
        BY <3>1, <3>2 DEF Without
      <3>4. QED  BY <2>1, <3>1, <3>3 DEF Stays
    <2>4. QED  BY <2>2, <2>3
  <1>13. QED
    BY <1>4, <1>5, <1>6, <1>7, <1>8, <1>9, <1>10, <1>11, <1>12 DEF MemberStep

(* The places of the others.                                               *)
LEMMA OthersStay ==
    ASSUME FilesType, Queued, NEW r \in Reqs, Stays(r) \/ Enters(r) \/ Departs(r)
    PROVE  \A q \in Reqs : \A l \in Ids :
              /\ q # r => (In(q, l)' <=> In(q, l))
              /\ In(q, l)' => In(q, l) \/ (q = r /\ Enters(r))
              /\ In(q, l) => In(q, l)' \/ (q = r /\ Departs(r))
  <1>1. CASE Stays(r)
    BY <1>1 DEF Stays, In
  <1>2. CASE Enters(r)
    BY <1>2, EnterIn DEF Enters
  <1>3. CASE Departs(r)
    BY <1>3, LeaveIn DEF Departs
  <1>4. QED  BY <1>1, <1>2, <1>3

LEMMA QueuedMove ==
    ASSUME FilesType, Queued, NEW r \in Reqs, Stays(r) \/ Enters(r) \/ Departs(r),
           \A q \in Reqs : q # r => req'[q] = req[q]
    PROVE  Queued'
  <1>0. lock \in [Ids -> Seq(Reqs)]
    BY DEF FilesType
  <1>1. CASE Stays(r)
    <2>1. \A q \in Reqs : \A l \in Ids : In(q, l)' <=> In(q, l)
      BY <1>1 DEF Stays, In
    <2>2. QED  BY <1>1, <2>1 DEF Stays, Queued, Doing, Inside
  <1>2. CASE Enters(r)
    <2>1. PICK k \in Ids : Enter(r, k)
      BY <1>2 DEF Enters
    <2>2. \A q \in Reqs : \A l \in Ids : In(q, l)' <=> In(q, l) \/ (q = r /\ l = k)
      BY <2>1, EnterIn
    <2>3. /\ lock'[k] = Append(lock[k], r) /\ \A l \in Ids : l # k => lock'[l] = lock[l]
          /\ \A m \in DOMAIN lock[k] : lock[k][m] # r
      BY <1>0, <1>2, <2>1 DEF Enter, Enters, In
    <2>4. \A m, n \in DOMAIN lock'[k] : lock'[k][m] = lock'[k][n] => m = n
      BY <1>0, <2>3, AppendHas DEF Queued
    <2>5. lock[k] # << >> => Head(lock'[k]) = Head(lock[k])
      BY <1>0, <2>3, AppendHas
    <2>6. \A q \in Reqs : \A l \in Ids : In(q, l) => Head(lock'[l]) = Head(lock[l])
      BY <2>3, <2>5, InNonempty
    <2>7. \A l \in Ids : \A m, n \in DOMAIN lock'[l] : lock'[l][m] = lock'[l][n] => m = n
      BY <2>3, <2>4 DEF Queued
    <2>8. \A q \in Reqs : \A l \in Ids : In(q, l)' =>
             /\ req'[q].pc \in Inside /\ Doing(q, LockOps)'
             /\ req'[q].pc # "locked" => Head(lock'[l]) = q
      BY <1>2, <2>2, <2>6 DEF Enters, Queued, Doing, Inside
    <2>9. \A q \in Reqs : \A l, j \in Ids : In(q, l)' /\ In(q, j)' => l = j
      BY <1>2, <2>2 DEF Enters, Queued
    <2>10. QED  BY <2>7, <2>8, <2>9 DEF Queued
  <1>3. CASE Departs(r)
    <2>1. PICK k \in Ids : First(r, k) /\ Leave(k)
      BY <1>3 DEF Departs
    <2>2. \A q \in Reqs : \A l \in Ids : In(q, l)' <=> In(q, l) /\ q # r
      BY <2>1, LeaveIn
    <2>3. /\ lock'[k] = Tail(lock[k]) /\ \A l \in Ids : l # k => lock'[l] = lock[l]
          /\ lock[k] # << >> /\ Head(lock[k]) = r
      BY <1>0, <2>1, InNonempty DEF Leave, First
    <2>4. \A m, n \in DOMAIN lock'[k] : lock'[k][m] = lock'[k][n] => m = n
      BY <1>0, <2>3, TailHas DEF Queued
    <2>5. \A l \in Ids : \A m, n \in DOMAIN lock'[l] : lock'[l][m] = lock'[l][n] => m = n
      BY <2>3, <2>4 DEF Queued
    <2>6. \A q \in Reqs : \A l \in Ids : In(q, l)' =>
             /\ req'[q].pc \in Inside /\ Doing(q, LockOps)'
             /\ req'[q].pc # "locked" => Head(lock'[l]) = q
      BY <2>2, <2>3 DEF Queued, Doing, Inside
    <2>7. \A q \in Reqs : \A l, j \in Ids : In(q, l)' /\ In(q, j)' => l = j
      BY <2>2 DEF Queued
    <2>8. QED  BY <2>5, <2>6, <2>7 DEF Queued
  <1>4. QED  BY <1>1, <1>2, <1>3

LEMMA QueuedStep ==
    ASSUME FilesType, Queued, Revoking, [FilesNext]_filesVars
    PROVE  Queued'
  <1>1. CASE Crash
    <2>1. \A k \in Ids : lock'[k] = << >>
      BY <1>1 DEF Crash
    <2>2. QED  BY <2>1 DEF Queued, In
  <1>2. CASE UNCHANGED <<req, lock>>
    BY <1>2 DEF Queued, In, Doing
  <1>3. ASSUME NEW r \in Reqs,
               \/ Directory(r) \/ Founded(r) \/ Moved(r) \/ MemberStep(r)
               \/ (RuleStep(r) /\ UNCHANGED memVars) \/ Throws(r)
        PROVE  Queued'
    BY <1>3, LockMoves, CallSteps, QueuedMove
  <1>4. QED  BY <1>1, <1>2, <1>3 DEF FilesNext, filesVars, dirVars, memVars, Mint

-----------------------------------------------------------------------------
(* The members.  A copy that is about to be saved is the change of what    *)
(* stands in the file, and the one that is being written the change of     *)
(* what the account says; a whole file is as the account has it; and a     *)
(* torn one has its writer, or was left behind.                            *)
CopyFits(r, k) ==
    In(r, k) /\ Same(r, k) =>
       /\ At(r, "save") => fs[k].members # Torn /\ copy[r] = Change(req[r].task, Members(k))
       /\ At(r, "fill") /\ fs[k].dir \notin mixed => copy[r] = Change(req[r].task, book[k])

BookFits(k) == fs[k].members # Torn /\ fs[k].dir \notin mixed => Members(k) = book[k]

Filling(r, k)  == Same(r, k) /\ At(r, "fill") /\ In(r, k)
Drafting(r, k) == Same(r, k) /\ At(r, "draft") /\ Id(r) = k
Tearing(r, k)  == Filling(r, k) \/ Drafting(r, k)

(* Where no two updates overlapped there is one that writes the settings   *)
(* at most, and it finds the file as it truncated it.                      *)
SettingsFit(k) ==
    <<fs[k].dir, "ns">> \notin spoiled =>
       /\ fs[k].ns # Garbled
       /\ fs[k].ns = Torn <=> \E r \in Reqs : Drafting(r, k)
       /\ \A q, r \in Reqs : Drafting(q, k) /\ Drafting(r, k) => q = r

MembersFit(k) ==
    fs[k].members = Torn /\ <<fs[k].dir, "members">> \notin spoiled => \E r \in Reqs : Filling(r, k)

TornFits(k) == MembersFit(k) /\ SettingsFit(k)

(* A call that leaves a file halfway spoils it.                            *)
Spoiling(q) ==
    \A l \in Ids : /\ Filling(q, l) => <<fs[l].dir, "members">> \in spoiled'
                   /\ Drafting(q, l) => <<fs[l].dir, "ns">> \in spoiled'

Books ==
    /\ \A r \in Reqs : \A k \in Ids : CopyFits(r, k)
    /\ \A k \in Ids : BookFits(k) /\ TornFits(k)

Untouched(k) == /\ fs'[k].dir = fs[k].dir /\ fs'[k].ns = fs[k].ns /\ fs'[k].members = fs[k].members
           /\ book'[k] = book[k]

Replaced(k) ==
    /\ fs'[k].dir = NoDir \/ \A q \in Reqs : req[q].dir # fs'[k].dir
    /\ fs'[k].members # Torn /\ ~Broken(fs'[k].ns)
    /\ Members(k)' = book'[k]

Unmoved(q) == req'[q] = req[q] /\ copy'[q] = copy[q] /\ \A l \in Ids : In(q, l)' <=> In(q, l)

LEMMA BooksInit == FilesInit => Books
  <1> SUFFICES ASSUME FilesInit PROVE Books
    OBVIOUS
  <1>1. \A r \in Reqs : At(r, "idle")
    BY DEF FilesInit, DirInit, At
  <1>2. \A k \in Ids : fs[k].members = OnlyOwner(Founder) /\ book[k] = OnlyOwner(Founder)
                       /\ fs[k].ns = [owner |-> Founder, changes |-> {}]
    BY DEF FilesInit, DirInit, MemInit, Skeleton
  <1>3. OnlyOwner(Founder) \notin {Absent, Torn} /\ [owner |-> Founder, changes |-> {}] \notin {Torn, Garbled}
    BY OnlyOwnerType, DirectoryAssumption DEF Settings
  <1>4. QED
    BY <1>1, <1>2, <1>3
       DEF Books, CopyFits, BookFits, TornFits, MembersFit, SettingsFit, Drafting, Members, At

(* What a step that leaves a file and its writers alone leaves.            *)
LEMMA MembersKept ==
    ASSUME NEW k \in Ids, MembersFit(k), spoiled \subseteq spoiled',
           fs'[k].dir = fs[k].dir, fs'[k].members = fs[k].members,
           \A q \in Reqs : Filling(q, k) => Filling(q, k)' \/ <<fs[k].dir, "members">> \in spoiled'
    PROVE  MembersFit(k)'
  BY DEF MembersFit

LEMMA SettingsKept ==
    ASSUME NEW k \in Ids, SettingsFit(k), spoiled \subseteq spoiled',
           fs'[k].dir = fs[k].dir, fs'[k].ns = fs[k].ns,
           \A q \in Reqs : Drafting(q, k)' => Drafting(q, k),
           \A q \in Reqs : Drafting(q, k) => Drafting(q, k)' \/ <<fs[k].dir, "ns">> \in spoiled'
    PROVE  SettingsFit(k)'
  BY DEF SettingsFit

LEMMA UnmovedKeeps ==
    ASSUME NEW q \in Reqs, NEW k \in Ids, Unmoved(q), fs'[k].dir = fs[k].dir
    PROVE  (Filling(q, k)' <=> Filling(q, k)) /\ (Drafting(q, k)' <=> Drafting(q, k))
  BY DEF Unmoved, Filling, Drafting, Same, At, Id

(* A step that writes no members and no settings, or puts another          *)
(* directory at the path.                                                  *)
LEMMA BooksQuiet ==
    ASSUME FilesType, Books, mixed \subseteq mixed', spoiled \subseteq spoiled',
           \A k \in Ids : Untouched(k) \/ Replaced(k),
           \A q \in Reqs : \/ Unmoved(q)
                           \/ /\ req'[q].pc \notin {"save", "fill", "draft"}
                              /\ Spoiling(q)
    PROVE  Books'
  <1>1. ASSUME NEW k \in Ids, Replaced(k)  PROVE BookFits(k)' /\ TornFits(k)'
    <2>1. \A q \in Reqs : ~Drafting(q, k)'
      BY <1>1 DEF Replaced, Drafting, Same, At, Unmoved
    <2>2. QED  BY <1>1, <2>1 DEF Replaced, Broken, BookFits, TornFits, MembersFit, SettingsFit
  <1>2. ASSUME NEW k \in Ids, Untouched(k)  PROVE BookFits(k)' /\ TornFits(k)'
    <2>1. Members(k)' = Members(k)
      BY <1>2 DEF Untouched, Members
    <2>2. BookFits(k)'
      BY <1>2, <2>1 DEF Untouched, Books, BookFits
    <2>3. ASSUME NEW q \in Reqs
          PROVE  /\ Drafting(q, k)' => Drafting(q, k)
                 /\ Filling(q, k) => Filling(q, k)' \/ <<fs[k].dir, "members">> \in spoiled'
                 /\ Drafting(q, k) => Drafting(q, k)' \/ <<fs[k].dir, "ns">> \in spoiled'
      <3>1. CASE Unmoved(q)
        BY <1>2, <3>1, UnmovedKeeps DEF Untouched
      <3>2. CASE req'[q].pc \notin {"save", "fill", "draft"} /\ Spoiling(q)
        BY <3>2 DEF Spoiling, Drafting, At
      <3>3. QED  BY <3>1, <3>2
    <2>4. MembersFit(k) /\ SettingsFit(k)
      BY DEF Books, TornFits
    <2>5. MembersFit(k)' /\ SettingsFit(k)'
      BY <1>2, <2>3, <2>4, MembersKept, SettingsKept DEF Untouched
    <2>6. QED  BY <2>2, <2>5 DEF TornFits
  <1>3. ASSUME NEW q \in Reqs, NEW k \in Ids  PROVE CopyFits(q, k)'
    <2>1. CASE req'[q].pc \notin {"save", "fill", "draft"}
      BY <2>1 DEF CopyFits, At
    <2>2. CASE Unmoved(q) /\ Replaced(k)
      BY <2>2 DEF CopyFits, Unmoved, Replaced, Same
    <2>3. CASE Unmoved(q) /\ Untouched(k)
      <3>1. Members(k)' = Members(k) /\ CopyFits(q, k)
        BY <2>3 DEF Untouched, Members, Books
      <3>2. QED  BY <2>3, <3>1 DEF CopyFits, Unmoved, Untouched, Same, At
    <2>4. QED  BY <2>1, <2>2, <2>3
  <1>4. QED  BY <1>1, <1>2, <1>3 DEF Books

(* A step of r at the files of k.                                          *)
LEMMA BooksAt ==
    ASSUME FilesType, Books, NEW r \in Reqs, NEW k \in Ids,
           mixed \subseteq mixed', spoiled \subseteq spoiled',
           \A l \in Ids : l # k => /\ fs'[l] = fs[l] /\ book'[l] = book[l] /\ ~In(r, l)'
                                 /\ ~Tearing(r, l) /\ ~Drafting(r, l)',
           \A q \in Reqs : q # r => Unmoved(q),
           \A q \in Reqs : CopyFits(q, k)', BookFits(k)', TornFits(k)'
    PROVE  Books'
  <1>1. ASSUME NEW l \in Ids, l # k  PROVE BookFits(l)' /\ TornFits(l)'
    <2>0. fs'[l] = fs[l] /\ book'[l] = book[l] /\ BookFits(l) /\ TornFits(l)
      BY <1>1 DEF Books
    <2>1. Members(l)' = Members(l)
      BY <2>0 DEF Members
    <2>2. BookFits(l)'
      BY <2>0, <2>1 DEF BookFits
    <2>3. ASSUME NEW q \in Reqs
          PROVE  (Filling(q, l) => Filling(q, l)') /\ (Drafting(q, l)' <=> Drafting(q, l))
      BY <1>1, <2>0, UnmovedKeeps DEF Tearing
    <2>4. TornFits(l)'
      BY <2>0, <2>3, MembersKept, SettingsKept DEF TornFits
    <2>5. QED  BY <2>2, <2>4
  <1>2. ASSUME NEW q \in Reqs, NEW l \in Ids, l # k  PROVE CopyFits(q, l)'
    <2>1. CASE q = r
      BY <1>2, <2>1 DEF CopyFits
    <2>2. CASE q # r
      <3>1. Unmoved(q) /\ fs'[l] = fs[l] /\ book'[l] = book[l] /\ CopyFits(q, l)
        BY <1>2, <2>2 DEF Books
      <3>2. Members(l)' = Members(l)
        BY <3>1 DEF Members
      <3>3. QED  BY <3>1, <3>2 DEF CopyFits, Unmoved, Same, At
    <2>3. QED  BY <2>1, <2>2
  <1>3. QED  BY <1>1, <1>2 DEF Books

Serves(r) == \/ Directory(r) \/ Founded(r) \/ Moved(r) \/ (MemberStep(r) /\ UNCHANGED ruleVars)
             \/ (RuleStep(r) /\ UNCHANGED memVars) \/ Throws(r)

LEMMA Unconcerned ==
    ASSUME FilesType, Queued, Revoking, NEW r \in Reqs, Serves(r),
           \A q \in Reqs : q # r => copy'[q] = copy[q]
    PROVE  \A q \in Reqs : q # r => Unmoved(q)
  <1>1. Stays(r) \/ Enters(r) \/ Departs(r)
    BY LockMoves DEF Serves
  <1>2. \A q \in Reqs : q # r => req'[q] = req[q]
    BY CallSteps DEF Serves
  <1>3. \A q \in Reqs : \A l \in Ids : q # r => (In(q, l)' <=> In(q, l))
    BY <1>1, OthersStay
  <1>4. QED  BY <1>2, <1>3 DEF Unmoved

(* The five steps that read or write members and settings.                 *)
LEMMA BooksRead ==
    ASSUME FilesType, DirsKnown, Queued, Books, Revoking, NEW r \in Reqs, NEW k \in Ids, Read(r, k),
           req' = [req EXCEPT ![r].pc = "save", ![r].dir = fs[k].dir], UNCHANGED ruleVars
    PROVE  Books'
  <1>1. /\ At(r, "locked") /\ In(r, k) /\ UNCHANGED <<fs, book, mixed, spoiled, lock>>
        /\ fs[k].members # Torn /\ copy' = [copy EXCEPT ![r] = Change(req[r].task, Members(k))]
    <2>1. At(r, "locked") /\ req'[r].pc = "save"
      BY DEF Read, FilesType, Requests
    <2>2. ASSUME NEW p \in {"walk", "done", "failed"}, Goto(r, p)  PROVE FALSE
      BY ZenonT(30), <2>1, <2>2, GotoMoves DEF Moves, Steps
    <2>3. ~Goto(r, After(r, fs[k].members # Torn))
      BY <2>2, AfterType
    <2>4. QED  BY <2>1, <2>3 DEF Read, First
  <1>2. \A q \in Reqs : q # r => Unmoved(q)
    <2>1. Serves(r)
      BY DEF Serves, MemberStep
    <2>2. QED  BY <1>1, <2>1, Unconcerned DEF FilesType
  <1>3. req'[r].pc = "save" /\ req'[r].task = req[r].task
    BY DEF FilesType, Requests
  <1>4. \A q \in Reqs : \A l \in Ids : In(q, l)' <=> In(q, l)
    BY <1>1 DEF In
  <1>5. \A l \in Ids : l # k => ~In(r, l)'
    BY <1>1, <1>4 DEF Queued
  <1>6. \A l \in Ids : ~Tearing(r, l) /\ ~Filling(r, l)' /\ ~Drafting(r, l)'
    BY <1>1, <1>3 DEF Tearing, Filling, Drafting, At
  <1>7. Members(k)' = Members(k)
    BY <1>1 DEF Members
  <1>8. ASSUME NEW q \in Reqs, q # r  PROVE CopyFits(q, k)'
    <2>1. Unmoved(q) /\ CopyFits(q, k)
      BY <1>2, <1>8 DEF Books
    <2>2. QED  BY <1>1, <1>7, <2>1 DEF CopyFits, Unmoved, Same, At
  <1>9. CopyFits(r, k)'
    <2>1. copy'[r] = Change(req'[r].task, Members(k)')
      BY <1>1, <1>3, <1>7 DEF FilesType
    <2>2. QED  BY <1>1, <1>3, <2>1 DEF CopyFits, At
  <1>10. BookFits(k)'
    BY <1>1, <1>7 DEF BookFits, Books
  <1>11. TornFits(k)'
    <2>1. \A q \in Reqs : (Filling(q, k)' <=> Filling(q, k)) /\ (Drafting(q, k)' <=> Drafting(q, k))
      BY <1>1, <1>2, <1>6, UnmovedKeeps DEF Tearing
    <2>2. QED  BY <1>1, <2>1, MembersKept, SettingsKept DEF TornFits, Books
  <1>12. QED  BY <1>1, <1>2, <1>5, <1>6, <1>8, <1>9, <1>10, <1>11, BooksAt

LEMMA BooksTruncate ==
    ASSUME FilesType, DirsKnown, Queued, Books, Revoking, NEW r \in Reqs, NEW k \in Ids, Truncate(r, k),
           fs[k].dir # NoDir, UNCHANGED ruleVars
    PROVE  Books'
  <1>1. /\ At(r, "save") /\ In(r, k) /\ UNCHANGED <<book, spoiled, lock, copy>>
        /\ fs' = [fs EXCEPT ![k].members = Torn]
        /\ mixed' = IF fs[k].dir = req[r].dir THEN mixed ELSE mixed \cup {fs[k].dir}
        /\ req' = [req EXCEPT ![r].pc = "fill", ![r].dir = fs[k].dir]
    BY DEF Truncate
  <1>2. \A q \in Reqs : q # r => Unmoved(q)
    <2>1. Serves(r)
      BY DEF Serves, MemberStep
    <2>2. QED  BY <1>1, <2>1, Unconcerned
  <1>3. /\ req'[r].pc = "fill" /\ req'[r].task = req[r].task /\ req'[r].dir = fs[k].dir
        /\ fs'[k].dir = fs[k].dir /\ fs'[k].members = Torn /\ fs'[k].ns = fs[k].ns
        /\ \A l \in Ids : l # k => fs'[l] = fs[l]
    BY <1>1 DEF FilesType, Requests, Directories
  <1>4. \A q \in Reqs : \A l \in Ids : In(q, l)' <=> In(q, l)
    BY <1>1 DEF In
  <1>5. \A l \in Ids : l # k => ~In(r, l)'
    BY <1>1, <1>4 DEF Queued
  <1>6. \A l \in Ids : ~Tearing(r, l) /\ ~Drafting(r, l)'
    BY <1>1, <1>3 DEF Tearing, Filling, Drafting, At
  <1>8. ASSUME NEW q \in Reqs, q # r  PROVE CopyFits(q, k)'
    <2>1. In(q, k) => At(q, "locked")
      <3>1. Head(lock[k]) = r
        BY <1>1 DEF Queued, At
      <3>2. QED  BY <1>8, <3>1 DEF Queued, At
    <2>2. QED  BY <1>2, <1>8, <2>1 DEF CopyFits, Unmoved, At
  <1>9. CopyFits(r, k)'
    <2>1. SUFFICES ASSUME fs[k].dir \notin mixed'  PROVE copy'[r] = Change(req'[r].task, book'[k])
      BY <1>3 DEF CopyFits, At
    <2>2. fs[k].dir = req[r].dir /\ fs[k].dir \notin mixed
      BY <1>1, <2>1
    <2>3. fs[k].members # Torn /\ copy[r] = Change(req[r].task, Members(k))
      BY <1>1, <2>2 DEF Books, CopyFits, Same
    <2>4. Members(k) = book[k]
      BY <2>2, <2>3 DEF Books, BookFits
    <2>5. QED  BY <1>1, <1>3, <2>3, <2>4
  <1>10. BookFits(k)'
    BY <1>3 DEF BookFits
  <1>11. TornFits(k)'
    <2>1. Filling(r, k)'
      BY <1>1, <1>3, <1>4 DEF Filling, At, Same
    <2>2. \A q \in Reqs : Drafting(q, k)' <=> Drafting(q, k)
      BY <1>2, <1>3, <1>6, UnmovedKeeps DEF Tearing
    <2>3. SettingsFit(k)'
      BY <1>1, <1>3, <2>2, SettingsKept DEF TornFits, Books
    <2>4. QED  BY <2>1, <2>3 DEF TornFits, MembersFit
  <1>12. mixed \subseteq mixed'
    BY <1>1
  <1>13. QED  BY <1>1, <1>2, <1>3, <1>5, <1>6, <1>8, <1>9, <1>10, <1>11, <1>12, BooksAt

LEMMA BooksFill ==
    ASSUME FilesType, DirsKnown, Queued, Books, Revoking, NEW r \in Reqs, NEW k \in Ids, Fill(r, k),
           fs[k].dir = req[r].dir, UNCHANGED ruleVars
    PROVE  Books'
  <1>1. /\ At(r, "fill") /\ In(r, k) /\ UNCHANGED <<copy, mixed, spoiled>>
        /\ fs' = [fs EXCEPT ![k].members = copy[r]]
        /\ book' = [book EXCEPT ![k] = Change(req[r].task, @)]
        /\ Leave(k)
    BY DEF Fill
  <1>2. \A q \in Reqs : q # r => Unmoved(q)
    <2>1. Serves(r)
      BY DEF Serves, MemberStep
    <2>2. QED  BY <1>1, <2>1, Unconcerned
  <1>3. /\ fs'[k].dir = fs[k].dir /\ fs'[k].members = copy[r] /\ fs'[k].ns = fs[k].ns
        /\ book'[k] = Change(req[r].task, book[k])
        /\ \A l \in Ids : l # k => fs'[l] = fs[l] /\ book'[l] = book[l]
    BY <1>1 DEF FilesType, Directories
  <1>4. First(r, k)
    BY <1>1 DEF Queued, First, At
  <1>5. \A l \in Ids : ~In(r, l)' /\ (l # k => ~In(r, l))
    <2>1. \A l \in Ids : ~In(r, l)'
      BY <1>1, <1>4, LeaveIn
    <2>2. QED  BY <1>1, <2>1 DEF Queued
  <1>6. \A l \in Ids : (l # k => ~Tearing(r, l)) /\ ~Drafting(r, l) /\ ~Drafting(r, l)'
    <2>1. req'[r].pc # "draft"
      <3>1. PICK p \in Steps \ {"draft"} : Goto(r, p)
        BY AfterType DEF Fill, Steps
      <3>2. QED  BY <3>1, GotoMoves DEF Moves
    <2>2. QED  BY <1>1, <1>5, <2>1 DEF Tearing, Filling, Drafting, At
  <1>7. copy[r] # Absent /\ copy[r] # Torn
    BY DirectoryAssumption DEF FilesType
  <1>8. ASSUME NEW q \in Reqs, q # r  PROVE CopyFits(q, k)'
    <2>1. In(q, k) => At(q, "locked")
      BY <1>4, <1>8 DEF Queued, At, First
    <2>2. QED  BY <1>2, <1>8, <2>1 DEF CopyFits, Unmoved, At
  <1>9. CopyFits(r, k)'
    BY <1>5 DEF CopyFits
  <1>10. BookFits(k)'
    <2>1. SUFFICES ASSUME fs[k].dir \notin mixed  PROVE Members(k)' = book'[k]
      BY <1>1, <1>3 DEF BookFits
    <2>2. fs[k].dir # NoDir
      BY <1>1 DEF DirsKnown, Holding, At
    <2>3. copy[r] = Change(req[r].task, book[k])
      BY <1>1, <2>1, <2>2 DEF Books, CopyFits, Same
    <2>4. QED  BY <1>3, <1>7, <2>3 DEF Members
  <1>11. TornFits(k)'
    <2>1. \A q \in Reqs : Drafting(q, k)' <=> Drafting(q, k)
      BY <1>2, <1>3, <1>6, UnmovedKeeps
    <2>2. SettingsFit(k)'
      BY <1>1, <1>3, <2>1, SettingsKept DEF TornFits, Books
    <2>3. QED  BY <1>3, <1>7, <2>2 DEF TornFits, MembersFit
  <1>12. \A l \in Ids : l # k => fs'[l] = fs[l] /\ book'[l] = book[l] /\ ~In(r, l)' /\ ~Tearing(r, l)
                              /\ ~Drafting(r, l)'
    BY <1>3, <1>5, <1>6
  <1>13. \A q \in Reqs : CopyFits(q, k)'
    BY <1>8, <1>9
  <1>14. QED  BY <1>1, <1>2, <1>10, <1>11, <1>12, <1>13, BooksAt

LEMMA BooksSettings ==
    ASSUME FilesType, DirsKnown, Queued, Books, Revoking, NEW r \in Reqs, UNCHANGED ruleVars,
           \/ TruncateSettings(r) /\ Here(r).dir # NoDir
           \/ FillSettings(r) /\ Here(r).dir = req[r].dir
    PROVE  Books'
  <1>0. PICK k \in Ids : k = Id(r)
    BY TaskType
  <1>1. /\ UNCHANGED <<book, copy, lock>> /\ mixed \subseteq mixed' /\ spoiled \subseteq spoiled'
        /\ req[r].pc \in {"settings", "draft"}
    BY DEF TruncateSettings, FillSettings, memVars, At
  <1>2. \A q \in Reqs : q # r => Unmoved(q)
    <2>1. Serves(r)
      BY DEF Serves, MemberStep
    <2>2. QED  BY <1>1, <2>1, Unconcerned
  <1>3. /\ fs'[k].dir = fs[k].dir /\ fs'[k].members = fs[k].members
        /\ \A l \in Ids : l # k => fs'[l] = fs[l]
    <2>1. CASE TruncateSettings(r)
      BY <1>0, <2>1 DEF TruncateSettings, FilesType, Directories, Here
    <2>2. CASE FillSettings(r)
      BY <1>0, <2>2 DEF FillSettings, FilesType, Directories, Here
    <2>3. QED  BY <2>1, <2>2
  <1>4. \A q \in Reqs : \A l \in Ids : (In(q, l)' <=> In(q, l)) /\ ~In(r, l)
    BY <1>1 DEF In, Queued, Inside
  <1>5. \A l \in Ids : l # k => ~Tearing(r, l) /\ ~Drafting(r, l)'
    <2>1. req'[r].task = req[r].task
      BY DEF TruncateSettings, FillSettings, Goto, FilesType, Requests
    <2>2. QED  BY <1>0, <1>1, <2>1 DEF Tearing, Filling, Drafting, At, Id
  <1>6. Members(k)' = Members(k)
    BY <1>3 DEF Members
  <1>7. ASSUME NEW q \in Reqs  PROVE CopyFits(q, k)'
    <2>1. CASE q = r
      BY <1>4, <2>1 DEF CopyFits
    <2>2. CASE q # r
      <3>1. Unmoved(q) /\ CopyFits(q, k)
        BY <1>2, <2>2 DEF Books
      <3>2. QED  BY <1>1, <1>3, <1>6, <3>1 DEF CopyFits, Unmoved, Same, At
    <2>3. QED  BY <2>1, <2>2
  <1>8. BookFits(k)'
    BY <1>1, <1>3, <1>6 DEF Books, BookFits
  <1>9. TornFits(k)'
    <2>1. \A q \in Reqs : q # r => (Filling(q, k)' <=> Filling(q, k)) /\ (Drafting(q, k)' <=> Drafting(q, k))
      BY <1>2, <1>3, UnmovedKeeps
    <2>2. MembersFit(k)'
      <3>1. ~Filling(r, k)
        BY <1>1 DEF Filling, At
      <3>2. QED  BY <1>1, <1>3, <2>1, <3>1, MembersKept DEF TornFits, Books
    <2>3. CASE TruncateSettings(r) /\ Here(r).dir # NoDir
      <3>1. req'[r].pc = "draft" /\ Id(r)' = k /\ req'[r].dir = fs[k].dir /\ fs[k].dir # NoDir
        <4>1. req' = [req EXCEPT ![r].pc = "draft", ![r].dir = fs[k].dir] /\ fs[k].dir # NoDir
          BY <1>0, <2>3 DEF TruncateSettings, Here
        <4>2. req \in [Reqs -> Requests]
          BY DEF FilesType
        <4>3. QED  BY <1>0, <4>1, <4>2 DEF Requests, Id
      <3>2. Drafting(r, k)'
        BY <1>3, <3>1 DEF Drafting, Same, At
      <3>3. fs'[k].ns = Torn
        BY <1>0, <2>3 DEF TruncateSettings, FilesType, Directories
      <3>4. ASSUME <<fs[k].dir, "ns">> \notin spoiled', NEW q \in Reqs, Drafting(q, k)'
            PROVE  q = r
        <4>1. ~Updating(fs[k].dir)
          BY <1>0, <2>3, <3>4 DEF TruncateSettings, Here
        <4>2. ~Drafting(q, k)
          BY <4>1 DEF Updating, Halfway, Drafting, Same, At
        <4>3. QED  BY <2>1, <3>4, <4>2
      <3>5. SettingsFit(k)'
        BY <1>3, <3>2, <3>3, <3>4, DirectoryAssumption DEF SettingsFit
      <3>6. QED  BY <2>2, <3>5 DEF TornFits
    <2>4. CASE FillSettings(r) /\ Here(r).dir = req[r].dir
      <3>1. spoiled' = spoiled /\ req'[r].pc = "done"
        BY <2>4, GotoMoves DEF FillSettings, memVars, Moves, Steps
      <3>2. SUFFICES ASSUME <<fs[k].dir, "ns">> \notin spoiled  PROVE SettingsFit(k)'
        BY <1>3, <2>2, <3>1 DEF TornFits, SettingsFit
      <3>3. fs[k].dir # NoDir
        BY <1>0, <2>4 DEF FillSettings, DirsKnown, Holding, At, Here
      <3>4. Drafting(r, k)
        BY <1>0, <2>4, <3>3 DEF FillSettings, Drafting, Same, Here
      <3>5. fs[k].ns = Torn /\ \A q \in Reqs : Drafting(q, k) => q = r
        BY <3>2, <3>4 DEF Books, TornFits, SettingsFit
      <3>6. fs'[k].ns = draft[r]
        BY <1>0, <2>4, <3>5 DEF FillSettings, Filled, FilesType, Directories, Here
      <3>7. draft[r] \notin {Torn, Garbled}
        BY DirectoryAssumption DEF FilesType
      <3>8. \A q \in Reqs : ~Drafting(q, k)'
        BY <2>1, <3>1, <3>5 DEF Drafting, At
      <3>9. QED  BY <3>6, <3>7, <3>8 DEF SettingsFit
    <2>5. QED  BY <2>3, <2>4
  <1>10. \A l \in Ids : l # k => fs'[l] = fs[l] /\ book'[l] = book[l] /\ ~In(r, l)' /\ ~Tearing(r, l)
                              /\ ~Drafting(r, l)'
    BY <1>1, <1>3, <1>4, <1>5
  <1>11. QED  BY <1>1, <1>2, <1>7, <1>8, <1>9, <1>10, BooksAt

LEMMA BooksStep ==
    ASSUME FilesType, DirsKnown, Queued, Books, Revoking, [FilesNext]_filesVars
    PROVE  Books'
  <1>1. CASE Crash
    <2>1. \A q \in Reqs : \/ Unmoved(q)
                          \/ /\ req'[q].pc \notin {"save", "fill", "draft"}
                             /\ Spoiling(q)
      <3>1. ASSUME NEW q \in Reqs
            PROVE  /\ req'[q].pc \notin {"save", "fill", "draft"}
                   /\ req[q].pc = "fill" => <<req[q].dir, "members">> \in spoiled'
                   /\ req[q].pc = "draft" => <<req[q].dir, "ns">> \in spoiled'
        BY <1>1 DEF Crash, FilesType, Requests, Over, Spoils, Halfway
      <3>2. QED  BY <3>1 DEF Spoiling, Filling, Drafting, At, Same
    <2>2. QED  BY <1>1, <2>1, BooksQuiet DEF Crash, Untouched
  <1>2. CASE UNCHANGED <<dirVars, lock, copy, book, mixed, spoiled>>
    BY <1>2, BooksQuiet DEF dirVars, Unmoved, Untouched, In
  <1>3. ASSUME NEW r \in Reqs, Serves(r), UNCHANGED copy, mixed \subseteq mixed', spoiled \subseteq spoiled',
               \A k \in Ids : Untouched(k) \/ Replaced(k),
               req'[r].pc \notin {"save", "fill", "draft"},
               Spoiling(r)
        PROVE  Books'
    BY <1>3, Unconcerned, BooksQuiet
  <1>4. ASSUME NEW r \in Reqs, Serves(r), UNCHANGED <<copy, mixed, spoiled>>,
               \A k \in Ids : Untouched(k) \/ Replaced(k),
               req[r].pc \notin {"locked", "save", "fill", "settings", "draft"}
        PROVE  Books'
    <2>1. req'[r].pc \notin {"save", "fill", "draft"}
      <3>1. Goes(r)
        BY <1>4, CallSteps DEF Serves
      <3>2. \A t \in Tasks : FirstStep(t) \notin {"save", "fill", "draft"}
        BY DirectoryAssumption DEF FirstStep, Ops
      <3>3. QED  BY <1>4, <3>1, <3>2 DEF Goes, Arrow
    <2>2. QED  BY <1>3, <1>4, <2>1 DEF Spoiling, Filling, Drafting, At
  <1>5. ASSUME NEW r \in Reqs, Directory(r)  PROVE Books'
    <2>1. Serves(r) /\ UNCHANGED memVars /\ UNCHANGED fs
      BY <1>5 DEF Serves, Directory, Arrive, Authorize, Look, Exists
    <2>2. req[r].pc \notin {"locked", "save", "fill", "settings", "draft"}
      BY <1>5 DEF Directory, Arrive, Authorize, Look, Exists, At
    <2>3. QED  BY <1>4, <2>1, <2>2 DEF memVars, Untouched
  <1>6. ASSUME NEW r \in Reqs, Founded(r)  PROVE Books'
    <2>1. PICK k \in Ids, a \in Agents : k = Id(r) /\ a = Who(r)
      BY TaskType
    <2>2. At(r, "create") /\ UNCHANGED <<copy, mixed, spoiled>>
      BY <1>6 DEF Founded, CreateSkeleton
    <2>3. /\ fs' = [fs EXCEPT ![k] = Skeleton(Made(r), a)]
          /\ book' = [book EXCEPT ![k] = OnlyOwner(a)]
      BY <1>6, <2>1 DEF Founded, CreateSkeleton
    <2>4. /\ fs'[k] = Skeleton(Made(r), a) /\ book'[k] = OnlyOwner(a)
          /\ \A l \in Ids : l # k => fs'[l] = fs[l] /\ book'[l] = book[l]
      BY <2>3 DEF FilesType
    <2>5. Replaced(k)
      <3>1. OnlyOwner(a) \notin {Absent, Torn} /\ ~Broken([owner |-> a, changes |-> {}])
        BY OnlyOwnerType, DirectoryAssumption DEF Settings, Broken
      <3>2. \A q \in Reqs : req[q].dir # Made(r)
        BY <2>2, FreshEverywhere DEF At
      <3>3. QED  BY <2>4, <3>1, <3>2 DEF Replaced, Skeleton, Members
    <2>6. QED  BY <1>4, <1>6, <2>2, <2>4, <2>5 DEF Serves, Untouched, At
  <1>7. ASSUME NEW r \in Reqs, Moved(r)  PROVE Books'
    <2>1. PICK k \in Ids : k = Id(r)
      BY TaskType
    <2>2. At(r, "delete") /\ UNCHANGED <<copy, mixed, spoiled>>
      BY <1>7 DEF Moved, SoftDelete
    <2>3. \A l \in Ids : l # k => fs'[l] = fs[l] /\ book'[l] = book[l]
      BY <1>7, <2>1 DEF Moved, SoftDelete, FilesType
    <2>4. CASE fs'[k] = Nothing
      <3>1. book'[k] = Nobody
        BY <1>7, <2>1, <2>4 DEF Moved, Nobody, FilesType
      <3>2. Replaced(k)
        BY <2>4, <3>1, DirectoryAssumption DEF Replaced, Nothing, Members, Nobody, Broken
      <3>3. QED  BY <1>4, <1>7, <2>2, <2>3, <3>2 DEF Serves, Untouched, At
    <2>5. CASE fs'[k] # Nothing
      <3>1. fs'[k] = fs[k]
        BY <1>7, <2>1, <2>5 DEF Moved, SoftDelete, FilesType
      <3>2. book'[k] = book[k]
        BY <1>7, <2>1, <2>5 DEF Moved, FilesType
      <3>3. QED  BY <1>4, <1>7, <2>2, <2>3, <3>1, <3>2 DEF Serves, Untouched, At
    <2>6. QED  BY <2>4, <2>5
  <1>8. ASSUME NEW r \in Reqs, MemberStep(r), UNCHANGED ruleVars  PROVE Books'
    <2> Serves(r)
      BY <1>8 DEF Serves
    <2>1. CASE Load(r) \/ Revoke(r) \/ CheckLast(r) \/ List(r) \/ Walk(r)
      <3>1. UNCHANGED <<fs, book, copy, mixed, spoiled>>
        BY <2>1 DEF Load, Revoke, CheckLast, List, Walk
      <3>2. req[r].pc \notin {"locked", "save", "fill", "settings", "draft"}
        BY <2>1 DEF Load, Revoke, CheckLast, List, Walk, At
      <3>3. QED  BY <1>4, <3>1, <3>2 DEF Untouched
    <2>2. ASSUME NEW p \in Steps, Goto(r, p), p \notin {"save", "fill", "draft"}
          PROVE  req'[r].pc \notin {"save", "fill", "draft"}
      BY <2>2, GotoMoves DEF Moves
    <2>3. ASSUME NEW k \in Ids, Read(r, k)  PROVE Books'
      <3>1. CASE req' = [req EXCEPT ![r].pc = "save", ![r].dir = fs[k].dir]
        BY <1>8, <2>3, <3>1, BooksRead
      <3>2. CASE Goto(r, After(r, fs[k].members # Torn)) /\ UNCHANGED copy
        <4>1. After(r, fs[k].members # Torn) \in Steps \ {"save", "fill", "draft"}
          BY AfterType DEF Steps
        <4>2. req'[r].pc \notin {"save", "fill", "draft"}
          BY <2>2, <3>2, <4>1
        <4>3. QED  BY <1>3, <2>3, <3>2, <4>2 DEF Read, Untouched, Spoiling, Filling, Drafting, At
      <3>3. QED  BY <2>3, <3>1, <3>2 DEF Read
    <2>4. ASSUME NEW k \in Ids, Truncate(r, k)  PROVE Books'
      <3>1. CASE fs[k].dir # NoDir
        BY <1>8, <2>4, <3>1, BooksTruncate
      <3>2. CASE fs[k].dir = NoDir
        <4>1. Goto(r, "failed") /\ UNCHANGED <<fs, book, mixed, copy, spoiled>> /\ At(r, "save")
          BY <2>4, <3>2 DEF Truncate, Fail
        <4>2. QED  BY <1>3, <2>2, <4>1 DEF Untouched, Spoiling, Filling, Drafting, At, Steps
      <3>3. QED  BY <3>1, <3>2
    <2>5. ASSUME NEW k \in Ids, Fill(r, k)  PROVE Books'
      <3>1. CASE fs[k].dir = req[r].dir
        BY <1>8, <2>5, <3>1, BooksFill
      <3>2. CASE fs[k].dir # req[r].dir
        <4>1. UNCHANGED <<fs, book, mixed, copy, spoiled>> /\ At(r, "fill") /\ In(r, k)
          BY <2>5, <3>2 DEF Fill
        <4>2. PICK p \in Steps \ {"save", "fill", "draft"} : Goto(r, p)
          BY <2>5, AfterType DEF Fill, Steps
        <4>3. Spoiling(r)
          BY <3>2, <4>1 DEF Queued, Spoiling, Filling, Drafting, Same, At
        <4>4. QED  BY <1>3, <2>2, <4>1, <4>2, <4>3 DEF Untouched
      <3>3. QED  BY <3>1, <3>2
    <2>6. CASE TruncateSettings(r)
      <3>1. CASE Here(r).dir # NoDir
        BY <1>8, <2>6, <3>1, BooksSettings
      <3>2. CASE Here(r).dir = NoDir
        <4>1. Goto(r, "failed") /\ UNCHANGED <<fs, book, mixed, copy, spoiled>> /\ At(r, "settings")
          BY <2>6, <3>2 DEF TruncateSettings, Fail
        <4>2. QED  BY <1>3, <2>2, <4>1 DEF Untouched, Spoiling, Filling, Drafting, At, Steps
      <3>3. QED  BY <3>1, <3>2
    <2>7. CASE FillSettings(r)
      <3>1. CASE Here(r).dir = req[r].dir
        BY <1>8, <2>7, <3>1, BooksSettings
      <3>2. CASE Here(r).dir # req[r].dir
        <4>1. Goto(r, "done") /\ UNCHANGED <<fs, book, mixed, copy, spoiled>> /\ At(r, "draft")
          BY <2>7, <3>2 DEF FillSettings, memVars
        <4>2. Spoiling(r)
          BY <3>2, <4>1 DEF Spoiling, Filling, Drafting, Same, At, Here
        <4>3. QED  BY <1>3, <2>2, <4>1, <4>2 DEF Untouched, Steps
      <3>3. QED  BY <3>1, <3>2
    <2>8. QED  BY <1>8, <2>1, <2>3, <2>4, <2>5, <2>6, <2>7 DEF MemberStep
  <1>9. ASSUME NEW r \in Reqs, RuleStep(r), UNCHANGED memVars  PROVE Books'
    <2>1. Serves(r) /\ UNCHANGED <<book, copy, mixed, spoiled>>
      BY <1>9 DEF Serves, memVars
    <2>2. req[r].pc \notin {"locked", "save", "fill", "settings", "draft"}
      BY <1>9 DEF RuleStep, EnterRules, Prepare, Rename, Unlink, Relist, WriteIndex, At
    <2>3. PICK k \in Ids : k = Id(r)
      BY TaskType
    <2>4. \/ fs' = fs
          \/ fs' = [fs EXCEPT ![k] = Bare(r)] /\ fs[k].dir = NoDir /\ req[r].pc \in {"prepare", "relist"}
          \/ \E s : fs' = [fs EXCEPT ![k].rules = s]
          \/ \E s : fs' = [fs EXCEPT ![k].index = s]
      <3>1. CASE EnterRules(r)
        BY <3>1 DEF EnterRules
      <3>2. CASE Prepare(r) \/ Relist(r)
        BY <2>3, <3>2 DEF Prepare, Relist, Here, At
      <3>3. CASE Rename(r)
        BY <2>3, <3>3 DEF Rename
      <3>4. CASE Unlink(r)
        BY <2>3, <3>4 DEF Unlink
      <3>5. CASE WriteIndex(r)
        BY <2>3, <3>5 DEF WriteIndex
      <3>6. QED  BY <1>9, <3>1, <3>2, <3>3, <3>4, <3>5 DEF RuleStep
    <2>5. CASE fs' = [fs EXCEPT ![k] = Bare(r)] /\ fs[k].dir = NoDir /\ req[r].pc \in {"prepare", "relist"}
      <3>1. fs'[k] = Bare(r) /\ \A l \in Ids : l # k => fs'[l] = fs[l]
        BY <2>5 DEF FilesType
      <3>2. book'[k] = Nobody
        BY <2>1, <2>5 DEF DirsKnown
      <3>3. \A q \in Reqs : req[q].dir # Made(r)
        BY <2>5, FreshEverywhere
      <3>4. Replaced(k)
        BY <3>1, <3>2, <3>3, DirectoryAssumption DEF Replaced, Bare, Nothing, Members, Nobody, Broken
      <3>5. QED  BY <1>4, <2>1, <2>2, <3>1, <3>4 DEF Untouched
    <2>6. ASSUME NEW s, fs' = [fs EXCEPT ![k].rules = s] \/ fs' = [fs EXCEPT ![k].index = s]
          PROVE  Books'
      <3>1. ASSUME NEW l \in Ids  PROVE Untouched(l)
        <4>1. fs \in [Ids -> Directories]
          BY DEF FilesType
        <4>2. CASE fs' = [fs EXCEPT ![k].rules = s]
          BY <2>1, <4>1, <4>2 DEF Untouched, Directories
        <4>3. CASE fs' = [fs EXCEPT ![k].index = s]
          BY <2>1, <4>1, <4>3 DEF Untouched, Directories
        <4>4. QED  BY <2>6, <4>2, <4>3
      <3>2. QED  BY <1>4, <2>1, <2>2, <3>1
    <2>7. CASE fs' = fs
      BY <1>4, <2>1, <2>2, <2>7 DEF Untouched
    <2>8. QED  BY <2>4, <2>5, <2>6, <2>7
  <1>10. ASSUME NEW r \in Reqs, Throws(r)  PROVE Books'
    <2>1. req'[r].pc = "failed"
      BY <1>10, GotoMoves DEF Throws, Fail, Moves, Steps
    <2>2. Spoiling(r)
      BY <1>10 DEF Throws, Spoils, Halfway, Spoiling, Filling, Drafting, At, Same
    <2>3. Serves(r) /\ UNCHANGED <<fs, book, copy, mixed>> /\ spoiled \subseteq spoiled'
      BY <1>10 DEF Serves, Throws
    <2>4. QED  BY <1>3, <2>1, <2>2, <2>3 DEF Untouched
  <1>11. QED
    BY <1>1, <1>2, <1>5, <1>6, <1>7, <1>8, <1>9, <1>10
       DEF FilesNext, filesVars, dirVars, memVars, Mint

LEMMA BooksAgree ==
    ASSUME FilesType, Books
    PROVE  MembersAsBooked
  <1>1. ASSUME NEW k \in Ids, Whole(fs[k].members), fs[k].dir \notin mixed  PROVE fs[k].members = book[k]
    BY <1>1 DEF Books, BookFits, Members, Whole, Broken
  <1>2. ASSUME NEW k \in Ids
        PROVE  /\ Broken(fs[k].members) /\ <<fs[k].dir, "members">> \notin spoiled =>
                      \E r \in Halfway({"fill"}) : req[r].dir = fs[k].dir
               /\ Broken(fs[k].ns) /\ <<fs[k].dir, "ns">> \notin spoiled => Updating(fs[k].dir)
    <2>1. fs[k].members # Garbled
      BY DirectoryAssumption DEF FilesType, Directories
    <2>2. QED
      BY <2>1 DEF Broken, Books, TornFits, MembersFit, SettingsFit, Filling, Drafting, Same, At,
         Halfway, Updating
  <1>3. QED  BY <1>1, <1>2 DEF MembersAsBooked

-----------------------------------------------------------------------------
(* The prunes.  From its check on, the agent of a prune is without tokens, *)
(* or was reborn; and a namespace that is due is still to come on its way, *)
(* is the one it is at, or is rid of the agent.                            *)
Pruning == {"list", "walk", "locked", "save", "fill"}

(* The prune that follows a revocation asks nobody.                        *)
Unasked == \A r \in Reqs : Doing(r, {"revoke"}) => req[r].pc \notin {"authorize", "load"}

Orphans ==
    \A r \in Reqs : Doing(r, {"revoke"}) /\ req[r].pc \in Pruning => tokens[Who(r)] = 0 \/ r \in reborn

Cleared(a, k) == fs[k].dir \in mixed \/ book[k][a] = "none"

Coming(r, k) == In(r, k) /\ (At(r, "fill") => Same(r, k))

PrunesOf(r) ==
    Doing(r, {"revoke"}) =>
       /\ At(r, "list") => \A k \in due[r] : k \in Listed \/ Cleared(Who(r), k)
       /\ req[r].pc \in Pruning \ {"list"} =>
             \A k \in due[r] : k \in walk[r] \/ Coming(r, k) \/ Cleared(Who(r), k)
       /\ At(r, "pruned") => \A k \in due[r] : Cleared(Who(r), k)

Prunes == \A r \in Reqs : PrunesOf(r)

LEMMA PrunesInit == FilesInit => Unasked /\ Orphans /\ Prunes
  <1> SUFFICES ASSUME FilesInit PROVE Unasked /\ Orphans /\ Prunes
    OBVIOUS
  <1>1. \A r \in Reqs : req[r].pc = "idle"
    BY DEF FilesInit, DirInit
  <1>2. QED  BY <1>1 DEF Unasked, Orphans, Prunes, PrunesOf, Pruning, At

LEMMA UnaskedStep ==
    ASSUME FilesType, Unasked, [FilesNext]_filesVars
    PROVE  Unasked'
  <1> SUFFICES ASSUME NEW q \in Reqs, req'[q].task.op = "revoke"
               PROVE  req'[q].pc \notin {"authorize", "load"}
    BY DEF Unasked, Doing
  <1>1. Goes(q)
    BY Transitions
  <1>2. CASE req'[q] = req[q]
    BY <1>2 DEF Unasked, Doing
  <1>3. CASE req'[q].pc = FirstStep(req'[q].task)
    BY <1>3 DEF FirstStep
  <1>4. CASE req'[q].task = req[q].task /\ Arrow(req[q].pc, req'[q].pc)
    BY <1>4 DEF Unasked, Doing, Arrow
  <1>5. QED  BY <1>1, <1>2, <1>3, <1>4 DEF Goes

(* Where a call was before it came to a step of a prune.                   *)
LEMMA CameFrom ==
    ASSUME FilesType, Unasked, NEW r \in Reqs, Goes(r), req'[r] # req[r],
           req'[r].task.op = "revoke", req'[r].pc \in Pruning \cup {"pruned"}
    PROVE  /\ req[r].pc \in Pruning \cup {"check"} /\ req'[r].task = req[r].task
           /\ Arrow(req[r].pc, req'[r].pc)
  <1>1. req'[r].pc # FirstStep(req'[r].task)
    BY DEF FirstStep, Pruning
  <1>2. req'[r].task = req[r].task /\ Arrow(req[r].pc, req'[r].pc)
    BY <1>1 DEF Goes
  <1>3. req[r].pc \notin {"authorize", "load"}
    BY <1>2 DEF Unasked, Doing
  <1>4. QED  BY <1>2, <1>3 DEF Arrow, Pruning

(* Which steps those are.                                                  *)
LEMMA PruneSteps ==
    ASSUME FilesType, NEW r \in Reqs, Serves(r), req[r].pc \in Pruning \cup {"check"}, req'[r].pc # "failed"
    PROVE  /\ CheckLast(r) \/ List(r) \/ Walk(r) \/ \E k \in Ids : Read(r, k) \/ Truncate(r, k) \/ Fill(r, k)
           /\ UNCHANGED ruleVars
  <1>1. ~Throws(r)
    BY GotoMoves DEF Throws, Fail, Moves, Steps
  <1>2. ~Directory(r) /\ ~Founded(r) /\ ~Moved(r) /\ ~RuleStep(r)
    BY DEF Directory, Arrive, Authorize, Look, Exists, Founded, CreateSkeleton, Moved, SoftDelete,
       RuleStep, EnterRules, Prepare, Rename, Unlink, Relist, WriteIndex, At, Pruning
  <1>3. ~Load(r) /\ ~TruncateSettings(r) /\ ~FillSettings(r) /\ ~Revoke(r)
    BY DEF Load, TruncateSettings, FillSettings, Revoke, At, Pruning
  <1>4. QED  BY <1>1, <1>2, <1>3 DEF Serves, MemberStep

LEMMA OrphansStep ==
    ASSUME FilesType, Unasked, Orphans, [FilesNext]_filesVars
    PROVE  Orphans'
  <1> SUFFICES ASSUME NEW q \in Reqs, req'[q].task.op = "revoke", req'[q].pc \in Pruning
               PROVE  tokens'[req'[q].task.who] = 0 \/ q \in reborn'
    BY DEF Orphans, Doing, Who
  <1>0. tokens \in [Holders -> Nat]
    BY DEF FilesType
  <1>1. CASE Crash
    BY <1>1 DEF Crash, FilesType, Requests, Over, Pruning
  <1>2. CASE UNCHANGED <<req, tokens, reborn>>
    BY <1>2 DEF Orphans, Doing, Who
  <1>3. ASSUME NEW a \in Holders, Mint(a)  PROVE tokens'[req'[q].task.who] = 0 \/ q \in reborn'
    <2>1. req' = req /\ (tokens[Who(q)] = 0 \/ q \in reborn)
      BY <1>3 DEF Mint, dirVars, Orphans, Doing
    <2>2. CASE Who(q) = a
      BY <1>3, <2>1, <2>2 DEF Mint
    <2>3. CASE Who(q) # a
      <3>1. Who(q) \in Holders
        BY <2>1, TaskType DEF Doing
      <3>2. tokens'[Who(q)] = tokens[Who(q)]
        BY <1>0, <1>3, <2>3, <3>1 DEF Mint
      <3>3. QED  BY <1>3, <2>1, <3>2 DEF Mint, Who
    <2>4. QED  BY <2>2, <2>3
  <1>4. ASSUME NEW r \in Reqs, Serves(r)  PROVE tokens'[req'[q].task.who] = 0 \/ q \in reborn'
    <2>1. Goes(r) /\ \A p \in Reqs : p # r => req'[p] = req[p]
      BY <1>4, CallSteps DEF Serves
    <2>2. CASE UNCHANGED <<tokens, reborn>>
      <3>1. req[q].pc # "check" => tokens[Who(q)] = 0 \/ q \in reborn
        BY <2>1, CameFrom DEF Orphans, Doing
      <3>2. req[q].pc # "check" => req'[q].task = req[q].task
        BY <2>1, CameFrom
      <3>3. ASSUME req[q].pc = "check"  PROVE NoneLeft(Who(q)) /\ Who(q) = req'[q].task.who
        <4>1. q = r /\ req'[r].pc # "failed" /\ req'[q].task = req[q].task
          BY <2>1, <3>3, CameFrom DEF Pruning
        <4>2. CheckLast(r)
          <5>1. req[r].pc \in Pruning \cup {"check"}
            BY <3>3, <4>1
          <5>2. CheckLast(r) \/ List(r) \/ Walk(r) \/ \E k \in Ids : Read(r, k) \/ Truncate(r, k) \/ Fill(r, k)
            BY <1>4, <4>1, <5>1, PruneSteps
          <5>3. QED  BY <3>3, <4>1, <5>2 DEF List, Walk, Read, Truncate, Fill, At
        <4>3. ~Goto(r, "done")
          BY <4>1, GotoMoves DEF Moves, Steps, Pruning
        <4>4. QED  BY <4>1, <4>2, <4>3 DEF CheckLast, Who
      <3>4. QED  BY <2>2, <3>1, <3>2, <3>3 DEF NoneLeft, Who
    <2>3. CASE Revoke(r)
      <3>1. q # r
        <4>1. Moves(r, "check", req[r].dir)
          BY <2>3, GotoMoves DEF Revoke, Steps
        <4>2. QED  BY <4>1 DEF Moves, Pruning
      <3>2. tokens[Who(q)] = 0 \/ q \in reborn
        BY <2>1, <3>1 DEF Orphans, Doing
      <3>3. Who(q) \in Holders
        BY <2>1, <3>1, TaskType DEF Doing
      <3>4. tokens[Who(q)] = 0 => tokens'[Who(q)] = 0
        BY <1>0, <2>3, <3>3 DEF Revoke
      <3>5. QED  BY <2>1, <2>3, <3>1, <3>2, <3>4 DEF Revoke, Who
    <2>4. CASE CheckLast(r)
      <3>1. CASE q # r
        BY <2>1, <2>4, <3>1 DEF Orphans, Doing, CheckLast, Who
      <3>2. CASE q = r
        <4>1. ~Goto(r, "done")
          BY <3>2, GotoMoves DEF Moves, Steps, Pruning
        <4>2. Goto(r, "list") /\ NoneLeft(Who(r)) /\ UNCHANGED tokens
          BY <2>4, <4>1 DEF CheckLast
        <4>3. req'[r].task = req[r].task
          BY <4>2, GotoMoves DEF Moves, Steps
        <4>4. QED  BY <3>2, <4>2, <4>3 DEF NoneLeft, Who
      <3>3. QED  BY <3>1, <3>2
    <2>5. UNCHANGED <<tokens, reborn>> \/ Revoke(r) \/ CheckLast(r)
      <3>1. CASE Directory(r) \/ Founded(r) \/ Moved(r) \/ Throws(r) \/ (RuleStep(r) /\ UNCHANGED memVars)
        BY <3>1 DEF Directory, Founded, Moved, Throws, memVars
      <3>2. CASE MemberStep(r)
        BY <3>2 DEF MemberStep, Load, TruncateSettings, FillSettings, List, Walk, Read, Truncate, Fill, memVars
      <3>3. QED  BY <1>4, <3>1, <3>2 DEF Serves
    <2>6. QED  BY <2>2, <2>3, <2>4, <2>5
  <1>5. QED
    BY <1>1, <1>2, <1>3, <1>4 DEF FilesNext, filesVars, dirVars, memVars, Serves

(* What a step must not take from a namespace that is due.                 *)
Keeps(a, k) ==
    /\ Cleared(a, k) => Cleared(a, k)'
    /\ k \in Listed => k \in Listed' \/ Cleared(a, k)'
    /\ fs[k].dir # NoDir => fs'[k].dir = fs[k].dir \/ Cleared(a, k)'

LEMMA KeepsStep ==
    ASSUME FilesType, DirsKnown, NEW r \in Reqs, Serves(r),
           NEW q \in Reqs, Doing(q, {"revoke"}), NEW a \in Agents, a = Who(q), NEW k \in Ids, k \in due'[q]
    PROVE  Keeps(a, k)
  <1>0. fs \in [Ids -> Directories] /\ book \in [Ids -> MemberMaps]
    BY DEF FilesType
  <1>1. ASSUME fs'[k].dir = fs[k].dir, fs[k].ns = Absent \/ fs'[k].ns # Absent, book'[k] = book[k], mixed \subseteq mixed'
        PROVE  Keeps(a, k)
    BY <1>1 DEF Keeps, Cleared, Listed
  <1>2. ASSUME book'[k] = Nobody  PROVE Keeps(a, k)
    BY <1>2 DEF Keeps, Cleared, Nobody
  <1>3. ASSUME NEW i \in Ids, \A l \in Ids : l # i => fs'[l] = fs[l] /\ book'[l] = book[l], mixed \subseteq mixed', k # i
        PROVE  Keeps(a, k)
    BY <1>1, <1>3
  <1>4. CASE Directory(r) \/ Throws(r)
    BY <1>1, <1>4 DEF Directory, Arrive, Authorize, Look, Exists, Throws, memVars
  <1>5. CASE Founded(r)
    <2>1. k # Id(r)
      BY <1>5 DEF Founded
    <2>2. \A l \in Ids : l # Id(r) => fs'[l] = fs[l] /\ book'[l] = book[l]
      BY <1>5 DEF Founded, CreateSkeleton, FilesType
    <2>3. QED  BY <1>3, <1>5, <2>1, <2>2, TaskType DEF Founded
  <1>6. CASE Moved(r)
    <2>1. mixed' = mixed /\ \A l \in Ids : l # Id(r) => fs'[l] = fs[l] /\ book'[l] = book[l]
      BY <1>6 DEF Moved, SoftDelete, FilesType
    <2>2. CASE k # Id(r)
      BY <1>3, <2>1, <2>2, TaskType
    <2>3. CASE k = Id(r) /\ fs'[k] = Nothing
      <3>1. book'[k] = Nobody
        BY <1>6, <2>3, TaskType DEF Moved, Nobody, FilesType
      <3>2. QED  BY <1>2, <3>1
    <2>4. CASE k = Id(r) /\ fs'[k] # Nothing
      <3>1. fs'[k] = fs[k]
        BY <1>0, <1>6, <2>4 DEF Moved, SoftDelete
      <3>2. book'[k] = book[k]
        BY <1>0, <1>6, <2>4 DEF Moved
      <3>3. QED  BY <1>1, <2>1, <3>1, <3>2
    <2>5. QED  BY <2>2, <2>3, <2>4
  <1>7. CASE Load(r) \/ Revoke(r) \/ CheckLast(r) \/ List(r) \/ Walk(r) \/ \E i \in Ids : Read(r, i)
    BY <1>1, <1>7 DEF Load, Revoke, CheckLast, List, Walk, Read
  <1>8. ASSUME NEW i \in Ids, Truncate(r, i)  PROVE Keeps(a, k)
    <2>1. fs'[k].dir = fs[k].dir /\ fs'[k].ns = fs[k].ns
      BY <1>0, <1>8 DEF Truncate, Directories
    <2>2. book' = book /\ mixed \subseteq mixed'
      BY <1>8 DEF Truncate
    <2>3. QED  BY <1>1, <2>1, <2>2
  <1>9. ASSUME NEW i \in Ids, Fill(r, i)  PROVE Keeps(a, k)
    <2>1. CASE fs[i].dir # req[r].dir
      BY <1>1, <1>9, <2>1 DEF Fill
    <2>2. CASE fs[i].dir = req[r].dir
      <3>1. fs'[k].dir = fs[k].dir /\ fs'[k].ns = fs[k].ns /\ mixed' = mixed
        BY <1>0, <1>9, <2>2 DEF Fill, Directories
      <3>2. CASE k # i
        BY <1>0, <1>1, <1>9, <2>2, <3>1, <3>2 DEF Fill
      <3>3. CASE k = i
        <4>1. book'[k] = Change(req[r].task, book[k])
          BY <1>0, <1>9, <2>2, <3>3 DEF Fill
        <4>2. req[r].task \in Tasks /\ book[k] \in MemberMaps
          BY <1>0, TaskType
        <4>3. CASE Who(r) # a
          <5>1. book'[k][a] = book[k][a]
            BY <4>1, <4>2, <4>3, ChangeType DEF Who
          <5>2. QED  BY <3>1, <5>1 DEF Keeps, Cleared, Listed
        <4>4. CASE Who(r) = a
          <5>1. ~Doing(r, {"add", "share"})
            BY <1>9, <2>2, <3>3, <4>4 DEF Fill, Noted, Doing
          <5>2. book'[k][a] = "none"
            BY <4>1, <4>2, <4>4, <5>1, ChangeType DEF Who, Doing
          <5>3. QED  BY <5>2 DEF Keeps, Cleared
        <4>5. QED  BY <4>3, <4>4
      <3>4. QED  BY <3>2, <3>3
    <2>3. QED  BY <2>1, <2>2
  <1>10. CASE TruncateSettings(r) \/ FillSettings(r)
    <2>1. fs'[k].dir = fs[k].dir
      BY <1>0, <1>10 DEF TruncateSettings, FillSettings, Directories
    <2>2. fs[k].ns = Absent \/ fs'[k].ns # Absent
      <3>1. draft[r] # Absent
        BY DirectoryAssumption DEF FilesType
      <3>2. CASE TruncateSettings(r)
        BY <1>0, <3>2, DirectoryAssumption DEF TruncateSettings, Directories
      <3>3. CASE FillSettings(r)
        <4>1. fs' = fs \/ \E f \in Filled(r) : fs' = [fs EXCEPT ![Id(r)].ns = f]
          BY <3>3 DEF FillSettings
        <4>2. \A f \in Filled(r) : f # Absent
          BY <3>1, DirectoryAssumption DEF Filled
        <4>3. QED  BY <1>0, <4>1, <4>2 DEF Directories
      <3>4. QED  BY <1>10, <3>2, <3>3
    <2>3. book' = book /\ mixed \subseteq mixed'
      BY <1>10 DEF TruncateSettings, FillSettings, memVars
    <2>4. QED  BY <1>1, <2>1, <2>2, <2>3
  <1>11. CASE RuleStep(r) /\ UNCHANGED memVars
    <2>1. book' = book /\ mixed' = mixed
      BY <1>11 DEF memVars
    <2>2. CASE EnterRules(r) \/ Rename(r) \/ Unlink(r) \/ WriteIndex(r)
      <3>1. fs'[k].dir = fs[k].dir /\ fs'[k].ns = fs[k].ns
        <4>1. CASE fs' = fs
          BY <4>1
        <4>2. CASE \E s : fs' = [fs EXCEPT ![Id(r)].rules = s]
          BY <1>0, <4>2 DEF Directories
        <4>3. CASE \E s : fs' = [fs EXCEPT ![Id(r)].index = s]
          BY <1>0, <4>3 DEF Directories
        <4>4. QED  BY <2>2, <4>1, <4>2, <4>3 DEF EnterRules, Rename, Unlink, WriteIndex
      <3>2. QED  BY <1>1, <2>1, <3>1
    <2>3. CASE Prepare(r) \/ Relist(r)
      <3>1. fs'[k] = fs[k] \/ fs[k].dir = NoDir
        BY <1>0, <2>3 DEF Prepare, Relist, Here
      <3>2. CASE fs'[k] = fs[k]
        BY <1>1, <2>1, <3>2
      <3>3. CASE fs[k].dir = NoDir
        BY <1>2, <2>1, <3>3 DEF DirsKnown
      <3>4. QED  BY <3>1, <3>2, <3>3
    <2>4. QED  BY <1>11, <2>2, <2>3 DEF RuleStep
  <1>12. QED
    BY <1>4, <1>5, <1>6, <1>7, <1>8, <1>9, <1>10, <1>11 DEF Serves, MemberStep

(* A prune that does not move.                                             *)
LEMMA PruneStays ==
    ASSUME FilesType, NEW q \in Reqs, PrunesOf(q), req'[q] = req[q], walk'[q] = walk[q],
           due'[q] \subseteq due[q], \A l \in Ids : In(q, l) => In(q, l)',
           NEW a \in Agents, a = Who(q),
           Doing(q, {"revoke"}) => \A k \in due'[q] : Keeps(a, k)
    PROVE  PrunesOf(q)'
  <1> SUFFICES ASSUME Doing(q, {"revoke"})  PROVE PrunesOf(q)'
    BY DEF PrunesOf, Doing
  <1>0. a = Who(q)' /\ due[q] \subseteq Ids
    BY DEF Who, FilesType
  <1>1. ASSUME At(q, "list"), NEW k \in due'[q]  PROVE k \in Listed' \/ Cleared(a, k)'
    BY <1>1 DEF PrunesOf, Keeps
  <1>2. ASSUME req[q].pc \in Pruning \ {"list"}, NEW k \in due'[q]
        PROVE  k \in walk'[q] \/ Coming(q, k)' \/ Cleared(a, k)'
    <2>1. k \in walk[q] \/ Coming(q, k) \/ Cleared(a, k)
      BY <1>2 DEF PrunesOf
    <2>2. Keeps(a, k) /\ k \in Ids
      BY <1>0, <1>2
    <2>3. CASE Coming(q, k)
      BY <2>2, <2>3 DEF Coming, Keeps, Same, At
    <2>4. QED  BY <2>1, <2>2, <2>3 DEF Keeps
  <1>3. ASSUME At(q, "pruned"), NEW k \in due'[q]  PROVE Cleared(a, k)'
    BY <1>3 DEF PrunesOf, Keeps
  <1>4. QED  BY <1>0, <1>1, <1>2, <1>3 DEF PrunesOf, At

(* A prune that moves.                                                     *)
LEMMA PruneMoves ==
    ASSUME FilesType, DirsKnown, Queued, Books, Revoking, Unasked, NEW r \in Reqs, PrunesOf(r), Serves(r)
    PROVE  PrunesOf(r)'
  <1> SUFFICES ASSUME Doing(r, {"revoke"})', req'[r].pc \in Pruning \cup {"pruned"}
               PROVE  PrunesOf(r)'
    BY DEF PrunesOf, Pruning, At
  <1>1. Goes(r)
    BY CallSteps DEF Serves
  <1>2. req[r].pc # "pruned"
    BY DEF Serves, Directory, Arrive, Authorize, Look, Exists, Founded, CreateSkeleton, Moved, SoftDelete,
       RuleStep, EnterRules, Prepare, Rename, Unlink, Relist, WriteIndex, MemberStep, Load, TruncateSettings,
       FillSettings, Revoke, CheckLast, List, Walk, Read, Truncate, Fill, Throws, At
  <1>3. req[r].pc \in Pruning \cup {"check"} /\ req'[r].task = req[r].task
    BY <1>1, <1>2, CameFrom DEF Doing
  <1>4. /\ CheckLast(r) \/ List(r) \/ Walk(r) \/ \E k \in Ids : Read(r, k) \/ Truncate(r, k) \/ Fill(r, k)
        /\ UNCHANGED ruleVars
    BY <1>3, PruneSteps DEF Pruning
  <1>5. PICK a \in Agents : a = Who(r) /\ a = Who(r)' /\ Doing(r, {"revoke"})
    BY <1>3, TaskType DEF Who, Doing
  <1>6. ASSUME At(r, "list")', \A k \in due'[r] : k \in Listed' \/ Cleared(a, k)'  PROVE PrunesOf(r)'
    BY <1>5, <1>6 DEF PrunesOf, At
  <1>7. ASSUME req'[r].pc \in Pruning \ {"list"},
               \A k \in due'[r] : k \in walk'[r] \/ Coming(r, k)' \/ Cleared(a, k)'
        PROVE  PrunesOf(r)'
    BY <1>5, <1>7 DEF PrunesOf, At, Pruning
  <1>8. ASSUME At(r, "pruned")', \A k \in due'[r] : Cleared(a, k)'  PROVE PrunesOf(r)'
    BY <1>5, <1>8 DEF PrunesOf, At, Pruning
  <1>9. \A p \in Steps : Goto(r, p) => req'[r].pc = p
    BY GotoMoves DEF Moves
  <1>10. due[r] \subseteq Ids /\ due \in [Reqs -> SUBSET Ids] /\ walk \in [Reqs -> SUBSET Ids]
    BY DEF FilesType
  <1>11. ASSUME req[r].pc \in Pruning \ {"list"}, NEW k \in due[r]
         PROVE  k \in walk[r] \/ Coming(r, k) \/ Cleared(a, k)
    BY <1>5, <1>11 DEF PrunesOf
  <1>12. CASE CheckLast(r)
    <2>1. Goto(r, "list") /\ due' = [due EXCEPT ![r] = Listed] /\ fs' = fs
      BY <1>9, <1>12 DEF CheckLast, Steps, Pruning
    <2>2. req'[r].pc = "list" /\ due'[r] = Listed /\ Listed' = Listed
      BY <1>9, <1>10, <2>1 DEF Steps, Listed
    <2>3. QED  BY <1>6, <2>2 DEF At
  <1>13. CASE List(r)
    <2>1. At(r, "list") /\ req'[r].pc = "walk" /\ walk'[r] = Listed /\ UNCHANGED <<fs, due, mixed, book>>
      BY <1>9, <1>10, <1>13 DEF List, Steps
    <2>2. \A k \in due[r] : k \in Listed \/ Cleared(a, k)
      BY <1>5, <2>1 DEF PrunesOf
    <2>3. QED  BY <1>7, <2>1, <2>2 DEF Pruning, Cleared
  <1>14. CASE Walk(r)
    <2>0. At(r, "walk") /\ UNCHANGED <<fs, due, mixed, book>>
      BY <1>14 DEF Walk
    <2>1. \A k \in Ids : ~In(r, k)
      BY <2>0 DEF Queued, Inside, At
    <2>2. \A k \in due[r] : k \in walk[r] \/ Cleared(a, k)
      BY <1>10, <1>11, <2>0, <2>1 DEF Pruning, Coming, At
    <2>3. CASE walk[r] = {}
      <3>1. req'[r].pc = "pruned"
        BY <1>9, <1>14, <2>3 DEF Walk, Steps
      <3>2. QED  BY <1>8, <2>0, <2>2, <2>3, <3>1 DEF At, Cleared
    <2>4. CASE walk[r] # {}
      <3>1. PICK k \in walk[r] : walk' = [walk EXCEPT ![r] = @ \ {k}] /\ Enter(r, k) /\ Goto(r, "locked")
        BY <1>14, <2>4 DEF Walk
      <3>2. k \in Ids /\ req'[r].pc = "locked" /\ walk'[r] = walk[r] \ {k}
        BY <1>9, <1>10, <3>1 DEF Steps
      <3>3. In(r, k)'
        BY <3>1, <3>2, EnterIn
      <3>4. QED  BY <1>7, <2>0, <2>2, <3>2, <3>3 DEF Pruning, Coming, Cleared, At
    <2>5. QED  BY <2>3, <2>4
  <1>15. ASSUME NEW k \in Ids, Read(r, k)  PROVE PrunesOf(r)'
    <2>1. At(r, "locked") /\ In(r, k) /\ UNCHANGED <<fs, due, mixed, book, walk>>
      BY <1>15 DEF Read, First
    <2>2. \A l \in Ids : In(r, l) => l = k
      BY <2>1 DEF Queued
    <2>3. CASE req' = [req EXCEPT ![r].pc = "save", ![r].dir = fs[k].dir] /\ UNCHANGED lock
      <3>1. req'[r].pc = "save"
        BY <2>3 DEF FilesType, Requests
      <3>2. \A l \in Ids : In(r, l) => Coming(r, l)'
        BY <2>3, <3>1 DEF In, Coming, At
      <3>3. QED  BY <1>7, <1>10, <1>11, <2>1, <3>1, <3>2 DEF Pruning, Coming, Cleared, At
    <2>4. CASE /\ Goto(r, After(r, fs[k].members # Torn))
               /\ fs[k].members = Torn \/ Change(req[r].task, Members(k)) = Members(k)
      <3>1. PICK p \in {"walk", "done", "failed"} : p = After(r, fs[k].members # Torn)
        BY AfterType
      <3>2. fs[k].members # Torn /\ req'[r].pc = "walk"
        BY <1>9, <2>4, <3>1 DEF After, Pruning, Steps
      <3>3. Cleared(a, k)
        <4>1. Members(k) \in MemberMaps /\ req[r].task \in Tasks
          BY <3>2, MembersType, TaskType
        <4>2. Members(k)[a] = "none"
          BY <1>5, <2>4, <3>2, <4>1, ChangeType DEF Doing, Who
        <4>3. QED  BY <3>2, <4>2 DEF Books, BookFits, Cleared
      <3>4. \A l \in due[r] : l \in walk[r] \/ Cleared(a, l)
        BY <1>10, <1>11, <2>1, <2>2, <3>3 DEF Pruning, Coming, At
      <3>5. QED  BY <1>7, <2>1, <3>2, <3>4 DEF Pruning, Cleared
    <2>5. QED  BY <1>15, <2>3, <2>4 DEF Read
  <1>16. ASSUME NEW k \in Ids, Truncate(r, k)  PROVE PrunesOf(r)'
    <2>1. At(r, "save") /\ In(r, k) /\ UNCHANGED <<due, book, walk>> /\ mixed \subseteq mixed'
      BY <1>16 DEF Truncate
    <2>2. \A l \in Ids : In(r, l) => l = k
      BY <2>1 DEF Queued
    <2>3. /\ fs[k].dir # NoDir /\ fs' = [fs EXCEPT ![k].members = Torn] /\ UNCHANGED lock
          /\ req' = [req EXCEPT ![r].pc = "fill", ![r].dir = fs[k].dir]
      BY <1>9, <1>16 DEF Truncate, Fail, Pruning, Steps
    <2>4. req'[r].pc = "fill" /\ req'[r].dir = fs[k].dir /\ \A l \in Ids : fs'[l].dir = fs[l].dir
      BY <2>3 DEF FilesType, Requests, Directories
    <2>5. In(r, k)' /\ Coming(r, k)'
      BY <2>1, <2>3, <2>4 DEF In, Coming, Same
    <2>6. \A l \in due[r] : l \in walk[r] \/ l = k \/ Cleared(a, l)
      BY <1>10, <1>11, <2>1, <2>2 DEF Pruning, Coming, At
    <2>7. \A l \in Ids : Cleared(a, l) => Cleared(a, l)'
      BY <2>1, <2>4 DEF Cleared
    <2>8. QED  BY <1>7, <1>10, <2>1, <2>4, <2>5, <2>6, <2>7 DEF Pruning
  <1>17. ASSUME NEW k \in Ids, Fill(r, k)  PROVE PrunesOf(r)'
    <2>1. At(r, "fill") /\ In(r, k) /\ UNCHANGED <<due, walk, mixed>>
      <3>1. ~Doing(r, {"add", "share"})
        BY <1>5 DEF Doing
      <3>2. QED  BY <1>17, <3>1 DEF Fill
    <2>2. \A l \in Ids : In(r, l) => l = k
      BY <2>1 DEF Queued
    <2>3. req'[r].pc = "walk"
      <3>1. PICK p \in {"walk", "done", "failed"} : p = After(r, TRUE)
        BY AfterType
      <3>2. QED  BY <1>9, <1>17, <3>1 DEF Fill, Pruning, Steps
    <2>4. \A l \in due[r] : Cleared(a, l) => Cleared(a, l)'
      <3>1. \A l \in due'[r] : Keeps(a, l)
        BY <1>5, <1>10, <2>1, KeepsStep
      <3>2. QED  BY <2>1, <3>1 DEF Keeps
    <2>5. Coming(r, k) => Cleared(a, k)'
      <3>1. SUFFICES ASSUME fs[k].dir = req[r].dir  PROVE Cleared(a, k)'
        BY <2>1 DEF Coming, Same
      <3>2. book'[k] = Change(req[r].task, book[k])
        BY <1>17, <3>1 DEF Fill, FilesType
      <3>3. book[k] \in MemberMaps /\ req[r].task \in Tasks
        BY TaskType DEF FilesType
      <3>4. book'[k][a] = "none"
        BY <1>5, <3>2, <3>3, ChangeType DEF Doing, Who
      <3>5. QED  BY <3>4 DEF Cleared
    <2>6. \A l \in due[r] : l \in walk[r] \/ Cleared(a, l)'
      BY <1>10, <1>11, <2>1, <2>2, <2>4, <2>5 DEF Pruning, Coming, At
    <2>7. QED  BY <1>7, <2>1, <2>3, <2>6 DEF Pruning
  <1>18. QED  BY <1>4, <1>12, <1>13, <1>14, <1>15, <1>16, <1>17

LEMMA PrunesStep ==
    ASSUME FilesType, DirsKnown, Queued, Books, Revoking, Unasked, Prunes, [FilesNext]_filesVars
    PROVE  Prunes'
  <1> SUFFICES ASSUME NEW q \in Reqs PROVE PrunesOf(q)'
    BY DEF Prunes
  <1>0. PrunesOf(q)
    BY DEF Prunes
  <1>1. CASE Crash
    <2>1. CASE At(q, "pruned")
      <3>1. req'[q] = req[q]
        BY <1>1, <2>1 DEF Crash, At, FilesType
      <3>2. QED  BY <1>0, <1>1, <2>1, <3>1 DEF Crash, PrunesOf, Doing, Who, At, Cleared, Pruning
    <2>2. CASE ~At(q, "pruned")
      <3>1. req'[q].pc \notin Pruning \cup {"pruned"}
        BY <1>1, <2>2 DEF Crash, At, FilesType, Requests, Over, Pruning
      <3>2. QED  BY <3>1 DEF PrunesOf, At, Pruning
    <2>3. QED  BY <2>1, <2>2
  <1>2. CASE UNCHANGED <<fs, req, lock, walk, due, mixed, book>>
    BY <1>0, <1>2 DEF PrunesOf, Doing, Who, At, Cleared, Coming, In, Same, Listed
  <1>3. ASSUME NEW r \in Reqs, Serves(r)  PROVE PrunesOf(q)'
    <2>1. CASE q = r
      BY <1>0, <1>3, <2>1, PruneMoves
    <2>2. CASE q # r
      <3>1. req'[q] = req[q]
        BY <1>3, <2>2, CallSteps DEF Serves
      <3>2. \A l \in Ids : In(q, l)' <=> In(q, l)
        <4>1. Stays(r) \/ Enters(r) \/ Departs(r)
          BY <1>3, LockMoves DEF Serves
        <4>2. QED  BY <2>2, <4>1, OthersStay
      <3>3. due'[q] \subseteq due[q] /\ walk'[q] = walk[q]
        <4>0. due \in [Reqs -> SUBSET Ids] /\ walk \in [Reqs -> SUBSET Ids]
          BY DEF FilesType
        <4>1. CASE Directory(r) \/ Throws(r) \/ Moved(r) \/ (RuleStep(r) /\ UNCHANGED memVars)
          BY <4>1 DEF Directory, Throws, Moved, memVars
        <4>2. CASE Founded(r)
          BY <4>0, <4>2 DEF Founded
        <4>3. CASE MemberStep(r)
          <5>1. CASE Load(r) \/ TruncateSettings(r) \/ FillSettings(r) \/ Revoke(r)
                     \/ \E k \in Ids : Read(r, k) \/ Truncate(r, k)
            BY <5>1 DEF Load, TruncateSettings, FillSettings, Revoke, Read, Truncate, memVars
          <5>2. CASE CheckLast(r)
            BY <2>2, <4>0, <5>2 DEF CheckLast
          <5>3. CASE List(r) \/ Walk(r)
            BY <2>2, <4>0, <5>3 DEF List, Walk
          <5>4. ASSUME NEW k \in Ids, Fill(r, k)  PROVE due'[q] \subseteq due[q] /\ walk'[q] = walk[q]
            <6>1. CASE due' = due
              BY <5>4, <6>1 DEF Fill
            <6>2. CASE Noted(k, Who(r))
              BY <4>0, <5>4, <6>2 DEF Fill, Noted
            <6>3. QED  BY <5>4, <6>1, <6>2 DEF Fill
          <5>5. QED  BY <4>3, <5>1, <5>2, <5>3, <5>4 DEF MemberStep
        <4>4. QED  BY <1>3, <4>1, <4>2, <4>3 DEF Serves
      <3>4. PICK a \in Agents : a = Who(q)
        BY TaskType
      <3>5. due[q] \subseteq Ids
        BY DEF FilesType
      <3>6. Doing(q, {"revoke"}) => \A k \in due'[q] : Keeps(a, k)
        BY <1>3, <3>3, <3>4, <3>5, KeepsStep
      <3>7. QED  BY <1>0, <3>1, <3>2, <3>3, <3>4, <3>6, PruneStays
    <2>3. QED  BY <2>1, <2>2
  <1>4. QED
    BY <1>1, <1>2, <1>3 DEF FilesNext, filesVars, dirVars, memVars, Mint, Serves

LEMMA PrunesClear ==
    ASSUME FilesType, Books, Orphans, Prunes
    PROVE  PruneExact
  <1> SUFFICES ASSUME NEW r \in Reqs, Doing(r, {"revoke"})
               PROVE  /\ req[r].pc \in {"walk", "locked", "save", "fill"} => tokens[Who(r)] = 0 \/ r \in reborn
                      /\ req[r].pc = "pruned" =>
                            \A i \in due[r] : Whole(fs[i].members) /\ fs[i].dir \notin mixed =>
                               fs[i].members[Who(r)] = "none"
    BY DEF PruneExact
  <1>1. req[r].pc \in {"walk", "locked", "save", "fill"} => tokens[Who(r)] = 0 \/ r \in reborn
    BY DEF Orphans, Pruning
  <1>2. ASSUME req[r].pc = "pruned", NEW i \in due[r], Whole(fs[i].members), fs[i].dir \notin mixed
        PROVE  fs[i].members[Who(r)] = "none"
    <2>1. i \in Ids
      BY DEF FilesType
    <2>2. Cleared(Who(r), i)
      BY <1>2 DEF Prunes, PrunesOf, At
    <2>3. fs[i].members = book[i]
      BY <1>2, <2>1 DEF Books, BookFits, Members, Whole, Broken
    <2>4. QED  BY <1>2, <2>2, <2>3 DEF Cleared
  <1>3. QED  BY <1>1, <1>2

-----------------------------------------------------------------------------
(* Together.                                                               *)
FilesInv ==
    /\ FilesType /\ WritersFirst /\ Revoking /\ Unasked
    /\ DirsKnown /\ Queued /\ Books /\ Indexed
    /\ Orphans /\ Prunes

LEMMA FilesInvariance == FilesSpec => []FilesInv
  <1>1. FilesInit => FilesInv
    <2>1. FilesInit => WritersFirst /\ Revoking
      BY DEF FilesInit, DirInit, WritersFirst, Revoking
    <2>2. QED
      BY <2>1, TypeInit, DirsInit, QueuedInit, BooksInit, IndexedInit, PrunesInit DEF FilesInv
  <1>2. FilesInv /\ [FilesNext]_filesVars => FilesInv'
    BY TypeStep, WritersStep, RevokingStep, UnaskedStep, DirsKnownStep, QueuedStep, BooksStep, IndexedStep,
       OrphansStep, PrunesStep DEF FilesInv
  <1>3. QED  BY <1>1, <1>2, PTL DEF FilesSpec

(* INDEX.md lists the rules there are, but for the writers on their way.   *)
THEOREM Indexes == FilesSpec => []IndexCurrent
  <1>1. FilesInv => IndexCurrent
    BY DEF FilesInv, Indexed, IndexCurrent, Behind, Writes, Halfway
  <1>2. QED  BY <1>1, FilesInvariance, PTL

(* No change of the members is lost.  No file is torn without a writer or  *)
(* a call that was cut off, nor the settings without two that overlapped   *)
(* (store.ts, withMembersLock, saveNamespace).                             *)
THEOREM Booked == FilesSpec => []MembersAsBooked
  <1>1. FilesInv => MembersAsBooked
    BY BooksAgree DEF FilesInv
  <1>2. QED  BY <1>1, FilesInvariance, PTL

(* A prune takes the memberships of agents without a token, and all.       *)
THEOREM Pruned == FilesSpec => []PruneExact
  <1>1. FilesInv => PruneExact
    BY PrunesClear DEF FilesInv
  <1>2. QED  BY <1>1, FilesInvariance, PTL
=============================================================================
