--------------------------- MODULE Namespaces_proofs ---------------------------
(***************************************************************************)
(* Proofs about Namespaces for any ids, calls and number of crashes.       *)
(***************************************************************************)
EXTENDS Namespaces, TLAPS

(* What a call that has got to a phase is, and what it carries.            *)
Creating == {"clean", "check", "write", "rename"}
Removing == {"purge", "verify", "remove"}
OpOfPhase ==
    \A r \in Reqs :
        /\ req[r].pc \in Creating => req[r].op = "create"
        /\ req[r].pc \in {"move", "cascade"} => req[r].op = "delete"
        /\ req[r].pc \in Removing => req[r].op = "hard"
        /\ req[r].pc = "upsert" => req[r].op = "store" /\ req[r].life \in Lives
        /\ req[r].pc = "append" => req[r].op = "append"

(* A vector belongs to a store that is over.                               *)
PointsStored ==
    \A s \in points :
        req[s].op = "store" /\ req[s].pc = "done" /\ req[s].life \in Lives

(* A life that anything mentions has begun: its call succeeded, so that    *)
(* the life a later call begins is mentioned nowhere.                      *)
Begun(l) == l \in Reqs => req[l].pc = "done"
LivesBegun ==
    /\ \A i \in Ids : live[i] # NoLife => Begun(live[i])
    /\ \A i \in Ids, l \in Lives : <<i, l>> \in trash => Begun(l)
    /\ \A r \in Reqs : req[r].op = "hard" => \A l \in req[r].dirs : Begun(l)
    /\ \A r \in Reqs : req[r].op = "delete" /\ req[r].life # NoLife => Begun(req[r].life)

(* A life that was deleted does not come back.                             *)
DeadStay ==
    /\ \A i \in Ids, l \in Lives : <<i, l>> \in trash => live[i] # l
    /\ \A r \in Reqs : req[r].op = "hard" => live[req[r].id] \notin req[r].dirs
    /\ \A r \in Reqs : req[r].op = "delete" /\ req[r].life # NoLife =>
           live[req[r].id] # req[r].life

(* Only a creation that has not renamed, or never will, has a temporary    *)
(* directory: a life that has begun loses no file.                         *)
TmpUnbegun == \A t \in tmp : req[t].pc \in {"rename", "failed"}

(* A store was let into a namespace that could be loaded, and such a one   *)
(* keeps its settings: its directory is no empty one to rename over.       *)
Furnished ==
    \A r \in Reqs : req[r].op = "store" /\ req[r].life \in Lives =>
        Begun(req[r].life) /\ "settings" \in files[req[r].life]

(* Whoever is about to purge an id works on one that was deleted.          *)
Mourned ==
    /\ \A i \in Ids, l \in Lives : <<i, l>> \in trash => i \in mourned
    /\ \A r \in Reqs : req[r].pc \in {"cascade", "purge"} => req[r].id \in mourned

(* The strengthening of OrphansReachable: the directory is the one of the  *)
(* vector's own life, not just of its id.                                  *)
Traced(s) == live[req[s].id] = req[s].life \/ <<req[s].id, req[s].life>> \in trash
PointsTraced == \A s \in points \ late : Traced(s)

(* Past its verification a hard delete removes no directory of a life that *)
(* a vector still needs.                                                   *)
RemovalSafe ==
    \A r \in Reqs : req[r].pc = "remove" =>
        \A s \in points \ late : req[s].id = req[r].id => req[s].life \notin req[r].dirs

IInv == /\ TypeOK
        /\ OpOfPhase
        /\ PointsStored
        /\ LivesBegun
        /\ DeadStay
        /\ TmpUnbegun
        /\ Furnished
        /\ Mourned
        /\ PointsTraced
        /\ RemovalSafe
        /\ DeleteReportTruthful

-----------------------------------------------------------------------------
(* Each action keeps the types.                                            *)
LEMMA Typing ==
    ASSUME TypeOK, [Next]_vars
    PROVE  TypeOK'
<1> USE NamesAssumption
<1>t. /\ \A r \in Reqs : req[r] \in Request
      /\ \A i \in Ids : live[i] \in Lives \cup {NoLife}
  BY DEF TypeOK
<1>p. /\ {} \in SUBSET Lives
      /\ \A r \in Reqs : /\ req[r].dirs \in SUBSET Lives
                          /\ \A l : req[r].dirs \ {l} \in SUBSET Lives
  BY <1>t DEF Request
<1>s. ASSUME NEW r \in Reqs, NEW p \in Phases, NEW l \in Lives \cup {NoLife},
             NEW d \in SUBSET Lives, Step(r, p, l, d)
      PROVE  req' \in [Reqs -> Request]
  BY <1>s, <1>t DEF Step, TypeOK, Request
<1>g. ASSUME NEW r \in Reqs, NEW p \in Phases, Goto(r, p)
      PROVE  req' \in [Reqs -> Request]
  BY <1>g, <1>s, <1>t DEF Goto, Request
<1>1. CASE UNCHANGED vars
  BY <1>1 DEF TypeOK, vars
<1>2. ASSUME NEW r \in Reqs, Begin(r) PROVE TypeOK'
  <2>1. PICK i \in Ids, o \in Ops, p \in Phases, l \in Lives \cup {NoLife}, d \in SUBSET Lives :
            req' = [req EXCEPT ![r] = [pc |-> p, op |-> o, id |-> i, life |-> l, dirs |-> d]]
    BY <1>2, <1>t, ZenonT(30) DEF Begin, Phases, DeletedDirs
  <2>2. req' \in [Reqs -> Request]
    BY <2>1 DEF TypeOK, Request
  <2> QED BY <2>2, <1>2 DEF Begin, TypeOK
<1>3. ASSUME NEW r \in Reqs, CallFails(r) PROVE TypeOK'
  <2>1. req' \in [Reqs -> Request] BY <1>3, <1>g DEF CallFails, Phases
  <2> QED BY <2>1, <1>3 DEF CallFails, TypeOK
<1>4. ASSUME NEW r \in Reqs, Clean(r) PROVE TypeOK'
  <2>1. Stale(r) \subseteq Lives BY DEF Stale, TypeOK, Lives
  <2>2. req' \in [Reqs -> Request] BY <1>4, <1>s, <2>1 DEF Clean, Phases
  <2> QED BY <2>2, <1>4 DEF Clean, TypeOK
<1>5. ASSUME NEW r \in Reqs, Empty(r) PROVE TypeOK'
  <2>1. files' \in [Lives -> SUBSET Skeleton]
    <3>1. PICK t, f : files' = [files EXCEPT ![t] = @ \ {f}] BY <1>5 DEF Empty
    <3>2. \A l \in Lives : files[l] \ {f} \in SUBSET Skeleton BY DEF TypeOK
    <3> QED BY <3>1, <3>2 DEF TypeOK
  <2> QED BY <2>1, <1>5 DEF Empty, TypeOK
<1>6. ASSUME NEW r \in Reqs, Unlink(r) PROVE TypeOK'
  <2>1. PICK t \in req[r].dirs :
            tmp' = tmp \ {t} /\ Step(r, "check", NoLife, req[r].dirs \ {t})
    BY <1>6 DEF Unlink
  <2>2. req' \in [Reqs -> Request]
    <3>1. req[r].dirs \ {t} \in SUBSET Lives BY <1>p
    <3> QED BY <2>1, <3>1, <1>s DEF Phases
  <2> QED BY <2>1, <2>2, <1>6 DEF Unlink, TypeOK
<1>7. ASSUME NEW r \in Reqs, CleanGivesUp(r) PROVE TypeOK'
  <2>1. req' \in [Reqs -> Request] BY <1>7, <1>s, <1>p DEF CleanGivesUp, Phases
  <2> QED BY <2>1, <1>7 DEF CleanGivesUp, TypeOK
<1>8. ASSUME NEW r \in Reqs, Check(r) PROVE TypeOK'
  <2>1. req' \in [Reqs -> Request] BY <1>8, <1>g DEF Check, Phases
  <2> QED BY <2>1, <1>8 DEF Check, TypeOK
<1>9. ASSUME NEW r \in Reqs, Write(r) PROVE TypeOK'
  <2>1. req' \in [Reqs -> Request] BY <1>9, <1>g DEF Write, Phases
  <2>2. files' \in [Lives -> SUBSET Skeleton] BY <1>9 DEF Write, TypeOK
  <2> QED BY <2>1, <2>2, <1>9 DEF Write, TypeOK, Lives
<1>10. ASSUME NEW r \in Reqs, Rename(r) PROVE TypeOK'
  <2>1. req' \in [Reqs -> Request] BY <1>10, <1>g DEF Rename, Phases
  <2> QED BY <2>1, <1>10 DEF Rename, TypeOK, Lives
<1>11. ASSUME NEW r \in Reqs, Move(r) PROVE TypeOK'
  <2>1. req[r].id \in Ids /\ live[req[r].id] \in Lives
    BY <1>11, <1>t DEF Move, Request
  <2>2. req' \in [Reqs -> Request] BY ZenonT(30), <1>11, <2>1, <1>s, <1>p DEF Move, MoveTo, Phases
  <2> QED BY <2>1, <2>2, <1>11 DEF Move, MoveTo, TypeOK
<1>12. ASSUME NEW r \in Reqs, MoveRefused(r) PROVE TypeOK'
  <2>1. req' \in [Reqs -> Request] BY <1>12, <1>g DEF MoveRefused, Phases
  <2> QED BY <2>1, <1>12 DEF MoveRefused, TypeOK
<1>13. ASSUME NEW r \in Reqs, Cascade(r) \/ CascadeFails(r) PROVE TypeOK'
  <2>1. req' \in [Reqs -> Request] BY <1>13, <1>g DEF Cascade, CascadeFails, Phases
  <2> QED BY <2>1, <1>13 DEF Cascade, CascadeFails, TypeOK
<1>14. ASSUME NEW r \in Reqs, HardPurge(r) \/ HardPurgeFails(r) \/ HardVerify(r) PROVE TypeOK'
  <2>1. req' \in [Reqs -> Request]
    BY <1>14, <1>g DEF HardPurge, HardPurgeFails, HardVerify, Phases
  <2> QED BY <2>1, <1>14 DEF HardPurge, HardPurgeFails, HardVerify, TypeOK
<1>15. ASSUME NEW r \in Reqs, HardRemove(r) PROVE TypeOK'
  <2>1. req' \in [Reqs -> Request]
    <3>1. CASE \E l \in req[r].dirs : Step(r, "remove", req[r].life, req[r].dirs \ {l})
      <4>1. PICK l \in req[r].dirs : Step(r, "remove", req[r].life, req[r].dirs \ {l})
        BY <3>1
      <4>2. req[r].dirs \ {l} \in SUBSET Lives /\ req[r].life \in Lives \cup {NoLife}
        BY <1>p, <1>t DEF Request
      <4>3. "remove" \in Phases BY DEF Phases
      <4> QED BY <4>1, <4>2, <4>3, <1>s
    <3>2. CASE Goto(r, "purged")
      BY <3>2, <1>g DEF Phases
    <3> QED BY <3>1, <3>2, <1>15 DEF HardRemove
  <2>2. trash' \subseteq trash BY <1>15 DEF HardRemove
  <2> QED BY <2>1, <2>2, <1>15 DEF HardRemove, TypeOK
<1>16. ASSUME NEW r \in Reqs, Upsert(r) PROVE TypeOK'
  <2>1. req' \in [Reqs -> Request] BY <1>16, <1>g DEF Upsert, Phases
  <2> QED BY <2>1, <1>16 DEF Upsert, TypeOK
<1>17. ASSUME NEW r \in Reqs, Append(r) PROVE TypeOK'
  <2>1. req' \in [Reqs -> Request] BY <1>17, <1>g DEF Append, Phases
  <2> DEFINE l == IF live[req[r].id] = NoLife THEN r ELSE live[req[r].id]
  <2>2. req[r].id \in Ids /\ l \in Lives BY <1>t DEF Request, Lives
  <2>3. live' = [live EXCEPT ![req[r].id] = l] /\ files' = [files EXCEPT ![l] = @ \cup {"other"}]
    BY <1>17 DEF Append
  <2> HIDE DEF l
  <2>4. live' \in [Ids -> Lives \cup {NoLife}] BY <2>2, <2>3 DEF TypeOK
  <2>5. files' \in [Lives -> SUBSET Skeleton]
    <3>1. files[l] \cup {"other"} \in SUBSET Skeleton BY <2>2 DEF TypeOK, Skeleton
    <3> QED BY <2>3, <3>1 DEF TypeOK
  <2> QED BY <2>1, <2>4, <2>5, <1>17 DEF Append, TypeOK
<1>18. CASE Crash
  <2>1. req' \in [Reqs -> Request] BY <1>18, <1>t DEF Crash, Request, Phases
  <2>2. crashes' \in Nat BY <1>18 DEF Crash, TypeOK
  <2>3. up' \in BOOLEAN BY <1>18 DEF Crash
  <2> QED BY <2>1, <2>2, <2>3, <1>18 DEF Crash, TypeOK
<1>19. CASE Boot
  BY <1>19 DEF Boot, TypeOK
<1> QED
  BY <1>1, <1>2, <1>3, <1>4, <1>5, <1>6, <1>7, <1>8, <1>9, <1>10, <1>11, <1>12,
     <1>13, <1>14, <1>15, <1>16, <1>17, <1>18, <1>19
     DEF Next, Create, Delete, Hard

(* It holds initially.                                                     *)
LEMMA Start == Init => IInv
<1> SUFFICES ASSUME Init PROVE IInv OBVIOUS
<1> USE NamesAssumption
<1>i. (CHOOSE i \in Ids : TRUE) \in Ids OBVIOUS
<1>1. TypeOK
  <2>1. req \in [Reqs -> Request] BY <1>i DEF Init, Request, Phases
  <2>2. live \in [Ids -> Lives \cup {NoLife}] BY DEF Init, Lives
  <2> QED BY <2>1, <2>2 DEF Init, TypeOK, Lives
<1>2. \A r \in Reqs : /\ req[r].pc = "idle" /\ req[r].op = "none"
                      /\ req[r].life = NoLife /\ req[r].dirs = {}
  BY DEF Init
<1>3. \A i \in Ids : live[i] # NoLife => Begun(live[i])
  BY DEF Init, Begun
<1> QED
  BY <1>1, <1>2, <1>3
     DEF Init, IInv, OpOfPhase, Creating, Removing, PointsStored, LivesBegun, DeadStay,
         Mourned, PointsTraced, RemovalSafe, DeleteReportTruthful, TmpUnbegun, Furnished

-----------------------------------------------------------------------------
(* A life that has begun stays begun and loses no file: only a temporary   *)
(* directory is ever emptied.                                              *)
LEMMA Furnishing ==
    ASSUME IInv, [Next]_vars
    PROVE  TmpUnbegun' /\ Furnished'
<1> USE DEF IInv
<1>t. /\ req \in [Reqs -> Request] /\ tmp \subseteq Reqs /\ files \in [Lives -> SUBSET Skeleton]
      /\ live \in [Ids -> Lives \cup {NoLife}] /\ \A q \in Reqs : req[q] \in Request
  BY DEF TypeOK
<1>x. \A l : l \in tmp => ~ Begun(l)
  BY <1>t DEF TmpUnbegun, Begun
<1>g. ASSUME \A t \in tmp' : req'[t].pc \in {"rename", "failed"},
             \A q \in Reqs : req[q].pc = "done" => req'[q].pc = "done",
             \A l \in Lives : Begun(l) => files[l] \subseteq files'[l],
             \A q \in Reqs : req'[q].op = "store" /\ req'[q].life \in Lives =>
                 \/ req[q].op = "store" /\ req[q].life = req'[q].life
                 \/ Begun(req'[q].life) /\ "settings" \in files[req'[q].life]
      PROVE  TmpUnbegun' /\ Furnished'
  <2>1. \A l : Begun(l) => Begun(l)' BY <1>g DEF Begun
  <2>2. Furnished' BY <1>g, <2>1 DEF Furnished
  <2> QED BY <1>g, <2>2 DEF TmpUnbegun
<1>1. CASE UNCHANGED vars
  BY <1>1 DEF vars, TmpUnbegun, Furnished, Begun
<1>2. ASSUME NEW r \in Reqs, Begin(r) PROVE TmpUnbegun' /\ Furnished'
  <2>1. req[r].pc = "idle" /\ tmp' = tmp /\ files' = files BY <1>2 DEF Begin, At
  <2>2. \A q \in Reqs \ {r} : req'[q] = req[q] BY <1>2, <1>t DEF Begin
  <2>3. r \notin tmp BY <2>1 DEF TmpUnbegun
  <2>4. req'[r].op = "store" =>
            \E i \in Ids : Loads(i) /\ req'[r].life = live[i]
    BY <1>2, <1>t DEF Begin
  <2>5. req'[r].op = "store" /\ req'[r].life \in Lives =>
            Begun(req'[r].life) /\ "settings" \in files[req'[r].life]
    BY <2>4 DEF Loads, LivesBegun
  <2> QED BY <1>g, <2>1, <2>2, <2>3, <2>5, <1>t DEF TmpUnbegun
(* The steps of a call that touch no directory on the way to becoming one. *)
<1>3. ASSUME NEW r \in Reqs, r \notin tmp \/ req'[r].pc = "failed" \/ r \notin tmp',
             req[r].pc # "done", tmp' \subseteq tmp \/ (tmp' = tmp \cup {r} /\ req'[r].pc = "rename"),
             \A q \in Reqs \ {r} : req'[q] = req[q],
             \A l \in Lives : Begun(l) => files[l] \subseteq files'[l], req'[r].op = req[r].op,
             req[r].op = "store" => req'[r].life \in {req[r].life, NoLife}
      PROVE  TmpUnbegun' /\ Furnished'
  BY <1>3, <1>g, <1>t, NamesAssumption DEF TmpUnbegun
<1>4. ASSUME NEW r \in Reqs, CallFails(r) PROVE TmpUnbegun' /\ Furnished'
  BY <1>4, <1>3, <1>t DEF CallFails, Goto, Step, Over
<1>5. ASSUME NEW r \in Reqs, Clean(r) \/ Unlink(r) \/ CleanGivesUp(r) \/ Check(r) PROVE TmpUnbegun' /\ Furnished'
  <2>1. /\ req[r].pc \in {"clean", "check"} /\ r \notin tmp /\ tmp' \subseteq tmp /\ files' = files
        /\ \A q \in Reqs \ {r} : req'[q] = req[q]
        /\ req'[r].op = req[r].op
    BY <1>5, <1>t DEF Clean, Unlink, CleanGivesUp, Check, At, Goto, Step, TmpUnbegun
  <2>2. req[r].op # "store" BY <2>1 DEF OpOfPhase, Creating
  <2> QED BY <2>1, <2>2, <1>3
<1>6. ASSUME NEW r \in Reqs, Empty(r) PROVE TmpUnbegun' /\ Furnished'
  <2>1. PICK t \in tmp : \E f \in files[t] : files' = [files EXCEPT ![t] = @ \ {f}]
    BY <1>6 DEF Empty
  <2>2. \A l \in Lives : Begun(l) => files'[l] = files[l] BY <2>1, <1>x, <1>t
  <2> QED BY <1>6, <1>g, <2>2, <1>t DEF Empty, TmpUnbegun
<1>7. ASSUME NEW r \in Reqs, Write(r) PROVE TmpUnbegun' /\ Furnished'
  <2>1. /\ req[r].pc = "write" /\ tmp' = tmp \cup {r} /\ req'[r].pc = "rename"
        /\ \A q \in Reqs \ {r} : req'[q] = req[q]
        /\ req'[r].op = req[r].op /\ req'[r].life = req[r].life
    BY <1>7, <1>t DEF Write, At, Goto, Step
  <2>2. \A l \in Lives : Begun(l) => files'[l] = files[l]
    BY <1>7, <2>1, <1>t DEF Write, Begun
  <2>3. r \notin tmp BY <2>1 DEF TmpUnbegun
  <2> QED BY <2>1, <2>2, <2>3, <1>3
<1>8. ASSUME NEW r \in Reqs, Rename(r) PROVE TmpUnbegun' /\ Furnished'
  <2>1. /\ req[r].pc = "rename" /\ files' = files /\ tmp' \subseteq tmp
        /\ req'[r].pc = "failed" \/ r \notin tmp'
        /\ \A q \in Reqs \ {r} : req'[q] = req[q]
        /\ req'[r].op = req[r].op /\ req[r].op # "store"
    BY <1>8, <1>t DEF Rename, At, Goto, Step, OpOfPhase, Creating
  <2> QED BY <2>1, <1>3
<1>9. ASSUME NEW r \in Reqs, Delete(r) PROVE TmpUnbegun' /\ Furnished'
  <2>1. /\ req[r].pc \in {"move", "cascade"} /\ tmp' = tmp /\ files' = files
        /\ \A q \in Reqs \ {r} : req'[q] = req[q]
        /\ req'[r].op = req[r].op
    BY <1>9, <1>t DEF Delete, Move, MoveTo, MoveRefused, Cascade, CascadeFails, At, Goto, Step
  <2>2. req[r].op # "store" /\ r \notin tmp BY <2>1 DEF OpOfPhase, TmpUnbegun
  <2> QED BY <2>1, <2>2, <1>3
<1>10. ASSUME NEW r \in Reqs, Hard(r) PROVE TmpUnbegun' /\ Furnished'
  <2>1. /\ req[r].pc \in Removing /\ tmp' = tmp /\ files' = files
        /\ \A q \in Reqs \ {r} : req'[q] = req[q]
        /\ req'[r].op = req[r].op
    BY <1>10, <1>t DEF Hard, HardPurge, HardPurgeFails, HardVerify, HardRemove, At, Goto, Step, Removing
  <2>2. req[r].op # "store" /\ r \notin tmp BY <2>1 DEF OpOfPhase, TmpUnbegun, Removing
  <2> QED BY <2>1, <2>2, <1>3 DEF Removing
<1>11. ASSUME NEW r \in Reqs, Upsert(r) PROVE TmpUnbegun' /\ Furnished'
  <2>1. /\ req[r].pc = "upsert" /\ tmp' = tmp /\ files' = files
        /\ \A q \in Reqs \ {r} : req'[q] = req[q]
        /\ req'[r].op = req[r].op /\ req'[r].life = req[r].life
    BY <1>11, <1>t DEF Upsert, At, Goto, Step
  <2>2. r \notin tmp BY <2>1 DEF TmpUnbegun
  <2> QED BY <2>1, <2>2, <1>3
<1>12. ASSUME NEW r \in Reqs, Append(r) PROVE TmpUnbegun' /\ Furnished'
  <2>1. /\ req[r].pc = "append" /\ tmp' = tmp
        /\ \A q \in Reqs \ {r} : req'[q] = req[q]
        /\ req'[r].op = req[r].op /\ req'[r].life = req[r].life
    BY <1>12, <1>t DEF Append, At, Goto, Step
  <2>2. r \notin tmp BY <2>1 DEF TmpUnbegun
  <2>3. \A l \in Lives : files[l] \subseteq files'[l]
    <3>1. PICK k : files' = [files EXCEPT ![k] = @ \cup {"other"}] BY <1>12 DEF Append
    <3> QED BY <3>1, <1>t
  <2> QED BY <2>1, <2>2, <2>3, <1>3
<1>13. CASE Crash
  <2>1. \A q \in Reqs : /\ req'[q].op = req[q].op /\ req'[q].life \in {req[q].life, NoLife}
                        /\ IF req[q].pc \in Over THEN req'[q] = req[q] ELSE req'[q].pc = "failed"
    BY <1>13 DEF Crash
  <2>2. tmp' = tmp /\ files' = files BY <1>13 DEF Crash
  <2> QED BY <2>1, <2>2, <1>g, <1>t, NamesAssumption DEF Over, TmpUnbegun
<1>14. CASE Boot
  BY <1>14 DEF Boot, TmpUnbegun, Furnished, Begun
<1> QED
  BY <1>1, <1>2, <1>4, <1>5, <1>6, <1>7, <1>8, <1>9, <1>10, <1>11, <1>12, <1>13, <1>14
     DEF Next, Create

(* The invariant but for the types and the furniture.                      *)
Safe == /\ OpOfPhase
        /\ PointsStored
        /\ LivesBegun
        /\ DeadStay
        /\ Mourned
        /\ PointsTraced
        /\ RemovalSafe
        /\ DeleteReportTruthful

(* The steps of a call that only move the call itself: it fails, it ends   *)
(* without having purged, or it is a creation that has not renamed yet.    *)
Quiet(r) ==
    /\ req[r].pc \notin Over
    /\ \A q \in Reqs \ {r} : req'[q] = req[q]
    /\ req'[r].op = req[r].op
    /\ req'[r].id = req[r].id
    /\ \/ req[r].op = "create" /\ req'[r].pc \in Creating \cup {"failed"}
       \/ /\ req'[r].pc \in {"failed", "done"}
          /\ req'[r].life \in {req[r].life, NoLife}
          /\ req'[r].dirs \subseteq req[r].dirs
    /\ UNCHANGED <<live, trash, points, late, mourned>>

LEMMA QuietActions ==
    ASSUME IInv, NEW r \in Reqs,
           \/ CallFails(r) \/ Clean(r) \/ Unlink(r) \/ CleanGivesUp(r) \/ Check(r) \/ Write(r)
           \/ MoveRefused(r) \/ CascadeFails(r) \/ HardPurgeFails(r)
    PROVE  Quiet(r)
<1>t. req \in [Reqs -> Request] BY DEF IInv, TypeOK
<1>o. req[r].pc \in Creating => req[r].op = "create" BY DEF IInv, OpOfPhase
<1>1. CASE CallFails(r)
  BY <1>1, <1>t DEF CallFails, Goto, Step, Quiet, Over
<1>2. CASE Clean(r) \/ Unlink(r) \/ CleanGivesUp(r) \/ Check(r) \/ Write(r)
  <2>1. req[r].pc \in Creating
    BY <1>2 DEF Clean, Unlink, CleanGivesUp, Check, Write, At, Creating
  <2>2. \E p \in Creating \cup {"failed"} : \E l, d : Step(r, p, l, d)
    BY <1>2 DEF Clean, Unlink, CleanGivesUp, Check, Write, Goto, Creating
  <2>3. UNCHANGED <<live, trash, points, late, mourned>>
    BY <1>2 DEF Clean, Unlink, CleanGivesUp, Check, Write
  <2> QED BY <2>1, <2>2, <2>3, <1>o, <1>t DEF Step, Quiet, Creating, Over
<1>3. CASE MoveRefused(r)
  BY <1>3, <1>t DEF MoveRefused, At, Goto, Step, Quiet, Over
<1>4. CASE CascadeFails(r)
  BY <1>4, <1>t DEF CascadeFails, At, Goto, Step, Quiet, Over
<1>5. CASE HardPurgeFails(r)
  BY <1>5, <1>t DEF HardPurgeFails, At, Goto, Step, Quiet, Over
<1> QED BY <1>1, <1>2, <1>3, <1>4, <1>5

LEMMA QuietSafe ==
    ASSUME IInv, NEW r \in Reqs, Quiet(r)
    PROVE  Safe'
<1> USE DEF IInv
<1>t. req \in [Reqs -> Request] /\ points \subseteq Reqs /\ late \subseteq Reqs
  BY DEF TypeOK
<1>q. /\ \A q \in Reqs \ {r} : req'[q] = req[q]
      /\ req'[r].op = req[r].op /\ req'[r].id = req[r].id
      /\ live' = live /\ trash' = trash /\ points' = points /\ late' = late
      /\ mourned' = mourned
  BY DEF Quiet
<1>p. req[r].pc # "done" /\ r \notin points
  BY DEF Quiet, Over, PointsStored
<1>d. \A q \in Reqs : req[q].pc = "done" => req'[q] = req[q]
  BY <1>q, <1>p
<1>1. OpOfPhase'
  BY <1>q DEF Quiet, OpOfPhase, Creating, Removing
<1>2. PointsStored'
  BY <1>q, <1>d, <1>t DEF PointsStored
<1>3. LivesBegun'
  <2>1. \A l : Begun(l) => Begun(l)' BY <1>d DEF Begun
  <2> QED BY <2>1, <1>q DEF LivesBegun, Quiet
<1>4. DeadStay'
  BY <1>q DEF DeadStay, Quiet
<1>5. Mourned'
  BY <1>q DEF Mourned, Quiet, Creating
<1>6. PointsTraced'
  BY <1>q, <1>p, <1>t DEF PointsTraced, Traced
<1>7. RemovalSafe'
  BY <1>q, <1>p, <1>t DEF RemovalSafe, Quiet, Creating
<1>8. DeleteReportTruthful'
  BY <1>q, <1>p, <1>t DEF DeleteReportTruthful, Quiet, Creating
<1> QED BY <1>1, <1>2, <1>3, <1>4, <1>5, <1>6, <1>7, <1>8 DEF Safe

(* Steps that leave every request and every directory alone.               *)
LEMMA FewerPoints ==
    ASSUME IInv, points' \subseteq points, UNCHANGED <<live, trash, req, late, mourned>>
    PROVE  Safe'
<1> USE DEF IInv
<1>1. UNCHANGED <<live, trash, req, late, mourned>> OBVIOUS
<1>2. OpOfPhase' /\ PointsStored'
  BY DEF OpOfPhase, PointsStored
<1>3. LivesBegun'
  BY DEF LivesBegun, Begun
<1>4. DeadStay' /\ Mourned'
  BY DEF DeadStay, Mourned
<1>5. PointsTraced' /\ RemovalSafe' /\ DeleteReportTruthful'
  BY DEF PointsTraced, Traced, RemovalSafe, DeleteReportTruthful
<1> QED BY <1>2, <1>3, <1>4, <1>5 DEF Safe

LEMMA BeginSafe ==
    ASSUME IInv, NEW r \in Reqs, Begin(r)
    PROVE  Safe'
<1> USE DEF IInv
<1>t. req \in [Reqs -> Request] /\ points \subseteq Reqs /\ live \in [Ids -> Lives \cup {NoLife}]
  BY DEF TypeOK
<1>i. req[r].pc = "idle" BY DEF Begin, At
<1>u. UNCHANGED <<live, trash, points, late, mourned>> BY DEF Begin
<1>q. \A q \in Reqs \ {r} : req'[q] = req[q] BY <1>t DEF Begin
<1>d. \A q \in Reqs : req[q].pc = "done" => req'[q] = req[q] /\ q # r
  BY <1>q, <1>i
<1>n. /\ req'[r].id \in Ids
      /\ \/ req'[r].op = "create" /\ req'[r].pc = "clean"
         \/ /\ req'[r].op = "store" /\ req'[r].pc = "upsert"
            /\ req'[r].life = live[req'[r].id] /\ live[req'[r].id] # NoLife
         \/ req'[r].op = "append" /\ req'[r].pc = "append"
         \/ req'[r].op = "delete" /\ req'[r].pc = "move" /\ req'[r].life = NoLife
         \/ /\ req'[r].op = "hard" /\ req'[r].pc = "purge"
            /\ req'[r].dirs = DeletedDirs(req'[r].id) /\ req'[r].dirs # {}
  BY <1>t DEF Begin, Loads
<1>1. OpOfPhase'
  <2>1. live[req'[r].id] # NoLife => live[req'[r].id] \in Lives BY <1>n, <1>t
  <2> QED BY <1>q, <1>n, <2>1 DEF OpOfPhase, Creating, Removing
<1>2. PointsStored'
  BY <1>u, <1>d, <1>t DEF PointsStored
<1>3. LivesBegun'
  <2>1. \A l : Begun(l) => Begun(l)' BY <1>d DEF Begun
  <2>2. \A l \in DeletedDirs(req'[r].id) : Begun(l) BY <1>n DEF LivesBegun, DeletedDirs
  <2> QED BY <2>1, <2>2, <1>u, <1>q, <1>n DEF LivesBegun
<1>4. DeadStay'
  <2>1. live[req'[r].id] \notin DeletedDirs(req'[r].id) BY <1>n DEF DeadStay, DeletedDirs
  <2> QED BY <2>1, <1>u, <1>q, <1>n DEF DeadStay
<1>5. Mourned'
  <2>1. DeletedDirs(req'[r].id) # {} => req'[r].id \in mourned
    BY <1>n DEF Mourned, DeletedDirs
  <2> QED BY <2>1, <1>u, <1>q, <1>n DEF Mourned
<1>6. PointsTraced' /\ RemovalSafe' /\ DeleteReportTruthful'
  <2>1. \A s \in points : req'[s] = req[s] BY <1>d, <1>t DEF PointsStored
  <2> QED BY <2>1, <1>u, <1>q, <1>n
          DEF PointsTraced, Traced, RemovalSafe, DeleteReportTruthful
<1> QED BY <1>1, <1>2, <1>3, <1>4, <1>5, <1>6 DEF Safe

(* A life begins: the rename of a creation, over nothing or over an empty  *)
(* directory, or an append that has to make one.                           *)
Births(r) ==
    /\ req[r].pc \in {"rename", "append"}
    /\ Vacant(req[r].id)
    /\ live' = [live EXCEPT ![req[r].id] = r]
    /\ Goto(r, "done")
    /\ UNCHANGED <<trash, points, late, mourned>>

LEMMA BirthSafe ==
    ASSUME IInv, NEW r \in Reqs, Births(r)
    PROVE  Safe'
<1> USE DEF IInv
<1>t. /\ req \in [Reqs -> Request] /\ live \in [Ids -> Lives \cup {NoLife}]
      /\ points \subseteq Reqs /\ trash \subseteq Ids \X Lives
      /\ \A q \in Reqs : req[q] \in Request
  BY DEF TypeOK
<1>u. UNCHANGED <<trash, points, late, mourned>> BY DEF Births
<1>q. /\ \A q \in Reqs \ {r} : req'[q] = req[q]
      /\ req'[r].op = req[r].op /\ req'[r].id = req[r].id /\ req'[r].pc = "done"
      /\ req'[r].life = req[r].life /\ req'[r].dirs \subseteq req[r].dirs
  BY <1>t DEF Births, Goto, Step, Over
<1>p. /\ req[r].pc \in {"rename", "append"} /\ req[r].op \in {"create", "append"}
      /\ ~ Begun(r)
  BY DEF Births, OpOfPhase, Creating, Begun
<1>d. \A q \in Reqs : req[q].pc = "done" => req'[q] = req[q] /\ q # r
  BY <1>q, <1>p
<1>s. \A s \in points : s \in Reqs /\ req'[s] = req[s] /\ req[s].id \in Ids /\ req[s].life \in Lives
  BY <1>d, <1>t DEF PointsStored, Request
<1>l. /\ req[r].id \in Ids
      /\ \A i \in Ids : live'[i] = IF i = req[r].id THEN r ELSE live[i]
      /\ Vacant(req[r].id)
  BY <1>t DEF Births, Request
<1>1. OpOfPhase'
  BY <1>q DEF OpOfPhase, Creating, Removing
<1>2. PointsStored'
  BY <1>u, <1>s DEF PointsStored
<1>3. LivesBegun'
  <2>1. \A l : Begun(l) => Begun(l)' BY <1>d DEF Begun
  <2>2. Begun(r)' BY <1>q DEF Begun
  <2> QED BY <2>1, <2>2, <1>u, <1>q, <1>l, <1>p DEF LivesBegun
<1>4. DeadStay'
  <2>1. \A i \in Ids, l \in Lives : <<i, l>> \in trash => l # r
    BY <1>p DEF LivesBegun
  <2>2. \A q \in Reqs : /\ req[q].op = "hard" => r \notin req[q].dirs
                        /\ req[q].op = "delete" => req[q].life # r
    BY <1>p, <1>t, NamesAssumption DEF LivesBegun, Lives
  <2>3. \A q \in Reqs : req[q].id \in Ids BY <1>t DEF Request
  <2> QED BY <2>1, <2>2, <2>3, <1>u, <1>q, <1>l, <1>p DEF DeadStay
<1>5. Mourned'
  BY <1>u, <1>q DEF Mourned
<1>6. PointsTraced'
  <2>1. \A s \in points \ late : Traced(s) => Traced(s)'
    <3>1. \A s \in points : req[s].id = req[r].id => live[req[s].id] # req[s].life
      BY <1>s, <1>l, NamesAssumption DEF Vacant, Furnished, PointsStored
    <3> QED BY <3>1, <1>s, <1>l, <1>u DEF Traced
  <2> QED BY <2>1, <1>u DEF PointsTraced
<1>7. RemovalSafe' /\ DeleteReportTruthful'
  BY <1>s, <1>u, <1>q DEF RemovalSafe, DeleteReportTruthful
<1> QED BY <1>1, <1>2, <1>3, <1>4, <1>5, <1>6, <1>7 DEF Safe

LEMMA MoveSafe ==
    ASSUME IInv, NEW r \in Reqs, Move(r)
    PROVE  Safe'
<1> USE DEF IInv
<1> DEFINE i == req[r].id
<1>t. /\ req \in [Reqs -> Request] /\ live \in [Ids -> Lives \cup {NoLife}]
      /\ points \subseteq Reqs /\ \A q \in Reqs : req[q] \in Request
  BY DEF TypeOK
<1>i. i \in Ids /\ live[i] \in Lives /\ live[i] # NoLife
  BY <1>t DEF Move, Request
<1>u. UNCHANGED <<points, late>> BY DEF Move, MoveTo
<1>q. /\ \A q \in Reqs \ {r} : req'[q] = req[q]
      /\ req'[r] = [pc |-> "cascade", op |-> req[r].op, id |-> i, life |-> live[i], dirs |-> {}]
  BY <1>t DEF Move, MoveTo, Step
<1>p. req[r].pc = "move" /\ req[r].op = "delete"
  BY DEF Move, At, OpOfPhase
<1>d. \A q \in Reqs : req[q].pc = "done" => req'[q] = req[q] /\ q # r
  BY <1>q, <1>p
<1>s. \A s \in points : s \in Reqs /\ req'[s] = req[s] /\ req[s].id \in Ids /\ req[s].life \in Lives
  BY <1>d, <1>t DEF PointsStored, Request
<1>l. /\ \A j \in Ids : live'[j] = IF j = i THEN NoLife ELSE live[j]
      /\ trash' = trash \cup {<<i, live[i]>>}
      /\ mourned' = mourned \cup {i}
  BY <1>t DEF Move, MoveTo
<1>z. \A q \in Reqs : req[q].id \in Ids /\ req[q].dirs \subseteq Lives BY <1>t DEF Request
<1> HIDE DEF i
<1>1. OpOfPhase'
  BY <1>q, <1>p DEF OpOfPhase, Creating, Removing
<1>2. PointsStored'
  BY <1>u, <1>s DEF PointsStored
<1>3. LivesBegun'
  <2>1. \A l : Begun(l) => Begun(l)' BY <1>d DEF Begun
  <2>2. Begun(live[i]) BY <1>i DEF LivesBegun
  <2> QED BY <2>1, <2>2, <1>q, <1>l, <1>p DEF LivesBegun
<1>4. DeadStay'
  BY <1>q, <1>l, <1>p, <1>z, <1>i, NamesAssumption DEF DeadStay
<1>5. Mourned'
  BY <1>q, <1>l, <1>p DEF Mourned, i
<1>6. PointsTraced'
  <2>1. \A s \in points \ late : Traced(s) => Traced(s)'
    BY <1>s, <1>l DEF Traced
  <2> QED BY <2>1, <1>u DEF PointsTraced
<1>7. RemovalSafe'
  BY <1>s, <1>u, <1>q DEF RemovalSafe
<1>8. DeleteReportTruthful'
  BY <1>s, <1>u, <1>q DEF DeleteReportTruthful
<1> QED BY <1>1, <1>2, <1>3, <1>4, <1>5, <1>6, <1>7, <1>8 DEF Safe

(* A purge takes every vector of the id.                                   *)
LEMMA PurgeSafe ==
    ASSUME IInv, NEW r \in Reqs, Cascade(r) \/ HardPurge(r)
    PROVE  Safe'
<1> USE DEF IInv
<1>t. /\ req \in [Reqs -> Request] /\ points \subseteq Reqs
  BY DEF TypeOK
<1>u. UNCHANGED <<live, trash, late, mourned>> BY DEF Cascade, HardPurge
<1>q. /\ \A q \in Reqs \ {r} : req'[q] = req[q]
      /\ req'[r].op = req[r].op /\ req'[r].id = req[r].id
      /\ req'[r].life = req[r].life /\ req'[r].dirs \subseteq req[r].dirs
      /\ \/ req[r].pc = "cascade" /\ req[r].op = "delete" /\ req'[r].pc = "purged"
         \/ req[r].pc = "purge" /\ req[r].op = "hard" /\ req'[r].pc = "verify"
  BY <1>t DEF Cascade, HardPurge, At, Goto, Step, Over, OpOfPhase, Removing
<1>d. \A q \in Reqs : req[q].pc = "done" => req'[q] = req[q] /\ q # r
  BY <1>q
<1>s. /\ points' \subseteq points
      /\ \A s \in points' : s \in Reqs /\ req'[s] = req[s] /\ req[s].id # req[r].id
  BY <1>d, <1>t DEF PointsStored, Cascade, HardPurge, PointsOf
<1>1. OpOfPhase'
  BY <1>q DEF OpOfPhase, Creating, Removing
<1>2. PointsStored'
  BY <1>s DEF PointsStored
<1>3. LivesBegun'
  <2>1. \A l : Begun(l) => Begun(l)' BY <1>d DEF Begun
  <2> QED BY <2>1, <1>u, <1>q DEF LivesBegun
<1>4. DeadStay' /\ Mourned'
  BY <1>u, <1>q DEF DeadStay, Mourned
<1>5. PointsTraced'
  BY <1>u, <1>s DEF PointsTraced, Traced
<1>6. RemovalSafe' /\ DeleteReportTruthful'
  BY <1>u, <1>s, <1>q DEF RemovalSafe, DeleteReportTruthful
<1> QED BY <1>1, <1>2, <1>3, <1>4, <1>5, <1>6 DEF Safe

(* The verified count is what makes the removals safe.                     *)
LEMMA VerifySafe ==
    ASSUME IInv, NEW r \in Reqs, HardVerify(r)
    PROVE  Safe'
<1> USE DEF IInv
<1>t. /\ req \in [Reqs -> Request] /\ points \subseteq Reqs
  BY DEF TypeOK
<1>u. UNCHANGED <<live, trash, points, late, mourned>> BY DEF HardVerify
<1>q. /\ \A q \in Reqs \ {r} : req'[q] = req[q]
      /\ req'[r].op = req[r].op /\ req'[r].id = req[r].id
      /\ req'[r].life = req[r].life /\ req'[r].dirs \subseteq req[r].dirs
      /\ req[r].pc = "verify" /\ req[r].op = "hard" /\ req'[r].pc \in {"remove", "done"}
      /\ req'[r].pc = "remove" => PointsOf(req[r].id) = {}
  BY <1>t DEF HardVerify, At, Goto, Step, Over, OpOfPhase, Removing
<1>d. \A q \in Reqs : req[q].pc = "done" => req'[q] = req[q] /\ q # r
  BY <1>q
<1>s. \A s \in points : s \in Reqs /\ req'[s] = req[s]
  BY <1>d, <1>t DEF PointsStored
<1>1. OpOfPhase' /\ PointsStored'
  BY <1>u, <1>q, <1>s DEF OpOfPhase, PointsStored, Creating, Removing
<1>2. LivesBegun'
  <2>1. \A l : Begun(l) => Begun(l)' BY <1>d DEF Begun
  <2> QED BY <2>1, <1>u, <1>q DEF LivesBegun
<1>3. DeadStay' /\ Mourned'
  BY <1>u, <1>q DEF DeadStay, Mourned
<1>4. PointsTraced' /\ DeleteReportTruthful'
  BY <1>u, <1>s, <1>q DEF PointsTraced, Traced, DeleteReportTruthful
<1>5. RemovalSafe'
  BY <1>u, <1>s, <1>q DEF RemovalSafe, PointsOf
<1> QED BY <1>1, <1>2, <1>3, <1>4, <1>5 DEF Safe

LEMMA RemoveSafe ==
    ASSUME IInv, NEW r \in Reqs, HardRemove(r)
    PROVE  Safe'
<1> USE DEF IInv
<1>t. /\ req \in [Reqs -> Request] /\ points \subseteq Reqs /\ \A q \in Reqs : req[q] \in Request
  BY DEF TypeOK
<1>u. UNCHANGED <<live, points, late, mourned>> BY DEF HardRemove
<1>q. /\ \A q \in Reqs \ {r} : req'[q] = req[q]
      /\ req'[r].op = req[r].op /\ req'[r].id = req[r].id /\ req'[r].dirs \subseteq req[r].dirs
      /\ req[r].pc = "remove" /\ req[r].op = "hard" /\ req'[r].pc \in {"remove", "purged"}
  BY <1>t DEF HardRemove, At, Goto, Step, Over, OpOfPhase, Removing
<1>r. /\ trash' \subseteq trash
      /\ \A i \in Ids, l \in Lives :
             <<i, l>> \in trash \ trash' => i = req[r].id /\ l \in req[r].dirs
  BY DEF HardRemove
<1>d. \A q \in Reqs : req[q].pc = "done" => req'[q] = req[q] /\ q # r
  BY <1>q
<1>s. \A s \in points : s \in Reqs /\ req'[s] = req[s] /\ req[s].id \in Ids /\ req[s].life \in Lives
  BY <1>d, <1>t DEF PointsStored, Request
<1>1. OpOfPhase' /\ PointsStored'
  BY <1>u, <1>q, <1>s DEF OpOfPhase, PointsStored, Creating, Removing
<1>2. LivesBegun'
  <2>1. \A l : Begun(l) => Begun(l)' BY <1>d DEF Begun
  <2> QED BY <2>1, <1>u, <1>q, <1>r DEF LivesBegun
<1>3. DeadStay' /\ Mourned'
  BY <1>u, <1>q, <1>r DEF DeadStay, Mourned
<1>4. PointsTraced'
  BY <1>u, <1>s, <1>q, <1>r DEF PointsTraced, Traced, RemovalSafe
<1>5. RemovalSafe' /\ DeleteReportTruthful'
  BY <1>u, <1>s, <1>q DEF RemovalSafe, DeleteReportTruthful
<1> QED BY <1>1, <1>2, <1>3, <1>4, <1>5 DEF Safe

(* A vector that is not late is one of the living namespace.               *)
LEMMA UpsertSafe ==
    ASSUME IInv, NEW r \in Reqs, Upsert(r)
    PROVE  Safe'
<1> USE DEF IInv
<1>t. /\ req \in [Reqs -> Request] /\ points \subseteq Reqs /\ r \notin points
  BY DEF TypeOK, PointsStored, Upsert, At
<1>u. UNCHANGED <<live, trash, mourned>> BY DEF Upsert
<1>q. /\ \A q \in Reqs \ {r} : req'[q] = req[q]
      /\ req'[r].op = req[r].op /\ req'[r].id = req[r].id /\ req'[r].pc = "done"
      /\ req'[r].life = req[r].life /\ req'[r].dirs \subseteq req[r].dirs
      /\ req[r].pc = "upsert" /\ req[r].op = "store" /\ req[r].life \in Lives
  BY <1>t DEF Upsert, At, Goto, Step, OpOfPhase
<1>d. \A q \in Reqs : req[q].pc = "done" => req'[q] = req[q] /\ q # r
  BY <1>q
<1>s. \A s \in points : s \in Reqs /\ req'[s] = req[s] /\ s # r
  BY <1>d, <1>t DEF PointsStored
<1>l. /\ points' = points \cup {r} /\ late \subseteq late'
      /\ r \notin late' => live[req[r].id] = req[r].life
  BY DEF Upsert
<1>1. OpOfPhase' /\ PointsStored'
  BY <1>l, <1>q, <1>s DEF OpOfPhase, PointsStored, Creating, Removing
<1>2. LivesBegun'
  <2>1. \A l : Begun(l) => Begun(l)' BY <1>d DEF Begun
  <2> QED BY <2>1, <1>u, <1>q DEF LivesBegun
<1>3. DeadStay' /\ Mourned'
  BY <1>u, <1>q DEF DeadStay, Mourned
<1>4. PointsTraced'
  BY <1>u, <1>s, <1>q, <1>l DEF PointsTraced, Traced
<1>5. RemovalSafe'
  <2>1. \A q \in Reqs : req[q].pc = "remove" => req[q].op = "hard"
    BY DEF OpOfPhase, Removing
  <2>2. \A q \in Reqs : req[q].pc = "remove" /\ req[q].id = req[r].id /\ r \notin late' =>
            req[r].life \notin req[q].dirs
    BY <2>1, <1>l DEF DeadStay
  <2> QED BY <2>2, <1>s, <1>q, <1>l DEF RemovalSafe
<1>6. DeleteReportTruthful'
  <2>1. \A q \in Reqs :
            req[q].op = "delete" /\ req[q].id = req[r].id /\ req[q].life = req[r].life =>
                r \in late'
    BY <1>l, <1>q, NamesAssumption DEF DeadStay
  <2> QED BY <2>1, <1>s, <1>q, <1>l DEF DeleteReportTruthful
<1> QED BY <1>1, <1>2, <1>3, <1>4, <1>5, <1>6 DEF Safe

LEMMA CrashSafe ==
    ASSUME IInv, Crash
    PROVE  Safe'
<1> USE DEF IInv
<1>t. points \subseteq Reqs BY DEF TypeOK
<1>u. UNCHANGED <<live, trash, points, late, mourned>> BY DEF Crash
<1>q. \A q \in Reqs :
      /\ req'[q].op = req[q].op /\ req'[q].id = req[q].id
      /\ req'[q].life \in {req[q].life, NoLife} /\ req'[q].dirs \subseteq req[q].dirs
      /\ IF req[q].pc \in Over THEN req'[q] = req[q] ELSE req'[q].pc = "failed"
  BY DEF Crash
<1>s. \A s \in points : s \in Reqs /\ req'[s] = req[s] BY <1>q, <1>t DEF PointsStored, Over
<1>1. OpOfPhase'
  BY <1>q DEF OpOfPhase, Over, Creating, Removing
<1>2. PointsStored'
  BY <1>u, <1>q, <1>t DEF PointsStored, Over
<1>3. LivesBegun'
  <2>1. \A l : Begun(l) => Begun(l)' BY <1>q DEF Begun, Over
  <2> QED BY <2>1, <1>u, <1>q DEF LivesBegun
<1>4. DeadStay'
  BY <1>u, <1>q DEF DeadStay
<1>5. Mourned'
  BY <1>u, <1>q DEF Mourned, Over
<1>6. PointsTraced'
  BY <1>u, <1>s DEF PointsTraced, Traced
<1>7. RemovalSafe' /\ DeleteReportTruthful'
  BY <1>u, <1>s, <1>q DEF RemovalSafe, DeleteReportTruthful, Over
<1> QED BY <1>1, <1>2, <1>3, <1>4, <1>5, <1>6, <1>7 DEF Safe

-----------------------------------------------------------------------------
LEMMA Inductive ==
    ASSUME IInv, [Next]_vars
    PROVE  IInv'
<1>1. TypeOK' BY Typing DEF IInv
<1>2. Safe'
  <2>1. CASE UNCHANGED vars
    BY <2>1, FewerPoints DEF vars
  <2>2. ASSUME NEW r \in Reqs, Begin(r) PROVE Safe'
    BY <2>2, BeginSafe
  <2>3. ASSUME NEW r \in Reqs,
               \/ CallFails(r) \/ Clean(r) \/ Unlink(r) \/ CleanGivesUp(r) \/ Check(r)
               \/ Write(r) \/ MoveRefused(r) \/ CascadeFails(r) \/ HardPurgeFails(r)
        PROVE  Safe'
    BY <2>3, QuietActions, QuietSafe
  <2>4. ASSUME NEW r \in Reqs, Empty(r) PROVE Safe'
    BY <2>4, FewerPoints DEF Empty
  <2>5. ASSUME NEW r \in Reqs, Rename(r) PROVE Safe'
    <3>1. CASE RenameSucceeds(r)
      <4>1. Births(r) BY <2>5, <3>1 DEF Rename, RenameSucceeds, Births, At
      <4> QED BY <4>1, BirthSafe
    <3>2. CASE ~ RenameSucceeds(r)
      <4>1. Quiet(r)
        BY <2>5, <3>2 DEF Rename, At, Goto, Step, Quiet, Over, Creating, IInv, TypeOK, OpOfPhase
      <4> QED BY <4>1, QuietSafe
    <3> QED BY <3>1, <3>2
  <2>6. ASSUME NEW r \in Reqs, Move(r) PROVE Safe'
    BY <2>6, MoveSafe
  <2>7. ASSUME NEW r \in Reqs, Cascade(r) \/ HardPurge(r) PROVE Safe'
    BY <2>7, PurgeSafe
  <2>8. ASSUME NEW r \in Reqs, HardVerify(r) PROVE Safe'
    BY <2>8, VerifySafe
  <2>9. ASSUME NEW r \in Reqs, HardRemove(r) PROVE Safe'
    BY <2>9, RemoveSafe
  <2>10. ASSUME NEW r \in Reqs, Upsert(r) PROVE Safe'
    BY <2>10, UpsertSafe
  <2>11. ASSUME NEW r \in Reqs, Append(r) PROVE Safe'
    <3>1. CASE live[req[r].id] = NoLife
      <4>1. Births(r) BY <2>11, <3>1 DEF Append, Births, Vacant, At
      <4> QED BY <4>1, BirthSafe
    <3>2. CASE live[req[r].id] # NoLife
      <4>1. live' = live BY <2>11, <3>2 DEF Append, IInv, TypeOK
      <4>2. Quiet(r)
        BY <2>11, <4>1 DEF Append, At, Goto, Step, Quiet, Over, IInv, TypeOK
      <4> QED BY <4>2, QuietSafe
    <3> QED BY <3>1, <3>2
  <2>12. CASE Crash
    BY <2>12, CrashSafe
  <2>13. CASE Boot
    <3>1. points' \subseteq points BY <2>13 DEF Boot
    <3> QED BY <3>1, <2>13, FewerPoints DEF Boot
  <2> QED
    BY <2>1, <2>2, <2>3, <2>4, <2>5, <2>6, <2>7, <2>8, <2>9, <2>10, <2>11, <2>12, <2>13
       DEF Next, Create, Delete, Hard
<1>3. TmpUnbegun' /\ Furnished' BY Furnishing
<1> QED BY <1>1, <1>2, <1>3 DEF IInv, Safe

LEMMA Invariance == Spec => []IInv
<1>1. Init => IInv BY Start
<1>2. IInv /\ [Next]_vars => IInv' BY Inductive
<1> QED BY <1>1, <1>2, PTL DEF Spec

(* Calls, directories and vectors keep their shapes.                       *)
THEOREM TypeCorrect == Spec => []TypeOK
<1>1. IInv => TypeOK BY DEF IInv
<1> QED BY <1>1, Invariance, PTL

(* A vector without a living namespace can be found by the next sweep.     *)
THEOREM Orphans == Spec => []OrphansReachable
<1>1. IInv => OrphansReachable
  <2> SUFFICES ASSUME IInv, NEW s \in points
               PROVE  live[req[s].id] = req[s].life \/ req[s].id \in TrashedIds \/ s \in late
    BY DEF OrphansReachable
  <2>1. req[s].id \in Ids /\ req[s].life \in Lives
    BY DEF IInv, TypeOK, PointsStored, Request
  <2>2. CASE s \notin late /\ <<req[s].id, req[s].life>> \in trash
    BY <2>1, <2>2 DEF TrashedIds, DeletedDirs
  <2> QED BY <2>2 DEF IInv, PointsTraced, Traced
<1> QED BY <1>1, Invariance, PTL

(* "vectors_purged" in the answer of a delete is never more than was done. *)
THEOREM Reports == Spec => []DeleteReportTruthful
<1>1. IInv => DeleteReportTruthful BY DEF IInv
<1> QED BY <1>1, Invariance, PTL

(* Only the vectors of ids that were soft-deleted are ever purged.         *)
THEOREM OnlyDeletedPurged == Spec => NeverDeletedNeverPurged
<1>1. ASSUME IInv, [Next]_vars
      PROVE  [\A s \in points : s \notin points' => req[s].id \in mourned]_vars
  <2>1. ASSUME NEW r \in Reqs, Cascade(r) \/ HardPurge(r), NEW s \in points, s \notin points'
        PROVE  req[s].id \in mourned
    BY <1>1, <2>1 DEF Cascade, HardPurge, At, PointsOf, IInv, Mourned
  <2>2. ASSUME Boot, NEW s \in points, s \notin points' PROVE req[s].id \in mourned
    <3>1. req[s].id \in TrashedIds BY <2>2 DEF Boot, Swept, PointsOf
    <3> QED BY <1>1, <3>1 DEF TrashedIds, DeletedDirs, IInv, Mourned
  <2>3. ASSUME points \subseteq points' PROVE \A s \in points : s \in points'
    BY <2>3
  <2>4. \/ \E r \in Reqs : Cascade(r) \/ HardPurge(r)
        \/ Boot
        \/ points \subseteq points'
    BY <1>1 DEF Next, Begin, CallFails, Create, Clean, Empty, Unlink, CleanGivesUp, Check, Write,
       Rename, Delete, Move, MoveTo, MoveRefused, CascadeFails, Hard, HardPurgeFails, HardVerify,
       HardRemove, Upsert, Append, Crash, vars
  <2> QED BY <2>1, <2>2, <2>3, <2>4
<1> QED BY <1>1, Invariance, PTL DEF Spec, NeverDeletedNeverPurged

(* A namespace that can be loaded is moved, never replaced: a rename finds *)
(* its place free or an empty directory there.                             *)
THEOREM Takeover == Spec => NoTakeover
<1>1. ASSUME IInv, [Next]_vars
      PROVE  [\A i \in Ids : Loads(i) /\ live'[i] # live[i] =>
                  live'[i] = NoLife /\ <<i, live[i]>> \in trash']_vars
  <2>t. live \in [Ids -> Lives \cup {NoLife}] BY <1>1 DEF IInv, TypeOK
  <2>1. ASSUME NEW r \in Reqs, Rename(r) \/ Move(r) \/ Append(r), NEW i \in Ids,
               Loads(i), live'[i] # live[i]
        PROVE  live'[i] = NoLife /\ <<i, live[i]>> \in trash'
    BY <2>1, <2>t DEF Rename, RenameSucceeds, Vacant, Loads, Move, MoveTo, Append
  <2>2. \/ \E r \in Reqs : Rename(r) \/ Move(r) \/ Append(r)
        \/ live' = live
    BY <1>1 DEF Next, Begin, CallFails, Create, Clean, Empty, Unlink, CleanGivesUp, Check, Write,
       Delete, Cascade, MoveRefused, CascadeFails, Hard, HardPurge, HardPurgeFails, HardVerify,
       HardRemove, Upsert, Crash, Boot, vars
  <2> QED BY <2>1, <2>2
<1> QED BY <1>1, Invariance, PTL DEF Spec, NoTakeover
=============================================================================
