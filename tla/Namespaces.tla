------------------------------ MODULE Namespaces ------------------------------
(***************************************************************************)
(* The life of a namespace: its directory (src/namespaces/store.ts), its   *)
(* vectors in Qdrant (vector-cascade.ts), the namespace_create and         *)
(* namespace_delete tools (tools.ts), the operator's hard delete           *)
(* (hard-delete.ts) and the sweep a transport runs when it starts.  A      *)
(* memory_store is in the picture as the call that, once authorized, adds  *)
(* a vector later.                                                         *)
(*                                                                         *)
(* An id may live several times: a life is the call that made it.          *)
(* namespaces/<id> is live[id]; _deleted/<id>-<ms> is a member of trash.   *)
(* A directory may hold its settings (_namespace.json), without which a    *)
(* namespace cannot be loaded, and other files.                            *)
(***************************************************************************)
EXTENDS Naturals, FiniteSets

CONSTANTS
    Ids,
    Protected,      \* the bootstrap namespace
    Extends,        \* pairs <<i, j>>: the name of j is that of i, "-", and more
    Reqs,           \* calls, each made at most once
    Ops,            \* what they may be
    Genesis,        \* the life of the namespaces that exist at the start
    NoLife,
    MaxCrashes

Lives == Reqs \cup {Genesis}

ASSUME NamesAssumption ==
    /\ Ids # {} /\ Protected \subseteq Ids
    /\ Extends \subseteq Ids \X Ids
    /\ NoLife \notin Lives
    /\ Genesis \notin Reqs
    /\ Ops \subseteq {"create", "delete", "hard", "store", "append"}
    /\ MaxCrashes \in Nat

VARIABLES
    up,
    live,           \* [Ids -> the life in namespaces/<id>, or NoLife]
    trash,          \* the <<id, life>> with a directory in _deleted
    tmp,            \* create calls whose temporary directory exists
    files,          \* [Lives -> what the directory of that life holds]
    points,         \* store calls whose vector is in Qdrant
    req,            \* [Reqs -> Request]
    crashes,
    late,           \* history: stores that wrote after their namespace had moved
    mourned         \* history: ids that were soft-deleted at some time

vars == <<up, live, trash, tmp, files, points, req, crashes, late, mourned>>

Skeleton == {"settings", "other"}
Phases  == {"idle", "clean", "check", "write", "rename", "move", "cascade",
            "purge", "verify", "remove", "upsert", "append",
            "done", "purged", "failed"}
Over    == {"idle", "done", "purged", "failed"}
Request == [pc : Phases, op : Ops \cup {"none"}, id : Ids,
            life : Lives \cup {NoLife}, dirs : SUBSET Lives]

Init ==
    /\ up = TRUE
    /\ live \in [Ids -> {Genesis, NoLife}]
    /\ \A i \in Protected : live[i] = Genesis
    /\ trash = {}
    /\ tmp = {}
    /\ files = [l \in Lives |-> IF l = Genesis THEN Skeleton ELSE {}]
    /\ points = {}
    /\ req = [r \in Reqs |-> [pc |-> "idle", op |-> "none", id |-> CHOOSE i \in Ids : TRUE,
                              life |-> NoLife, dirs |-> {}]]
    /\ crashes = 0
    /\ late = {}
    /\ mourned = {}

At(r, p) == up /\ req[r].pc = p
Step(r, p, life, dirs) ==
    req' = [req EXCEPT ![r] = [pc |-> p, op |-> req[r].op, id |-> req[r].id,
                               life |-> life, dirs |-> dirs]]
Goto(r, p) ==       \* a call that is over lists nothing, one that failed keeps nothing
    Step(r, p, IF p = "failed" THEN NoLife ELSE req[r].life,
               IF p \in Over THEN {} ELSE req[r].dirs)

(* The vectors of an id, whatever life wrote them: the filter of count and *)
(* delete is the payload field namespace.                                  *)
PointsOf_Prefix(i) ==                                           \* mutant
    {s \in points : req[s].id = i \/ <<i, req[s].id>> \in Extends}
PointsOf(i) == {s \in points : req[s].id = i}

Loads(i)       == live[i] # NoLife /\ "settings" \in files[live[i]]
DeletedDirs(i) == {l \in Lives : <<i, l>> \in trash}
TrashedIds     == {i \in Ids : DeletedDirs(i) # {}}

-----------------------------------------------------------------------------
(* A handler starts, past its confirmation where it has one.  A store, and *)
(* a call that appends to a file under the directory (a rule, a line of    *)
(* the lifecycle log), is authorized against the live namespace; a delete  *)
(* loads it; a hard delete lists the directories.  A call that is refused  *)
(* here changes nothing and is no step.                                    *)
Begin(r) ==
    /\ At(r, "idle")
    /\ \E i \in Ids, o \in Ops :
          LET start(p, l, d) == req' = [req EXCEPT ![r] =
                  [pc |-> p, op |-> o, id |-> i, life |-> l, dirs |-> d]]
          IN  \/ o = "create" /\ start("clean", NoLife, {})
              \/ /\ o = "store" /\ Loads(i)
                 /\ start("upsert", live[i], {})
              \/ /\ o = "append" /\ Loads(i)
                 /\ start("append", NoLife, {})
              \/ /\ o = "delete" /\ i \notin Protected /\ Loads(i)
                 /\ start("move", NoLife, {})
              \/ /\ o = "hard" /\ i \notin Protected /\ DeletedDirs(i) # {}
                 /\ start("purge", NoLife, DeletedDirs(i))
    /\ UNCHANGED <<up, live, trash, tmp, files, points, crashes, late, mourned>>

(* An await throws out of the handler.  The cascade of a delete and the    *)
(* purge of a hard delete catch theirs.                                    *)
CallFails(r) ==
    /\ up /\ req[r].pc \notin Over \cup {"cascade", "purge"}
    /\ Goto(r, "failed")
    /\ UNCHANGED <<up, live, trash, tmp, files, points, crashes, late, mourned>>

-----------------------------------------------------------------------------
(* createNamespaceSkeleton.  The clean-up lists the directories whose name *)
(* starts with .tmp-<id>-, which a concurrent call may be filling and the  *)
(* ids that extend this one may own, and removes them: each loses its      *)
(* files first and itself then.  It goes by path, so a directory that was  *)
(* renamed in between is left as it is.                                    *)
Stale(r) ==
    {t \in tmp : req[t].id = req[r].id \/ <<req[r].id, req[t].id>> \in Extends}
Clean(r) ==
    /\ At(r, "clean")
    /\ Step(r, "check", NoLife, Stale(r))
    /\ UNCHANGED <<up, live, trash, tmp, files, points, crashes, late, mourned>>
Empty(r) ==
    /\ At(r, "check")
    /\ \E t \in req[r].dirs \cap tmp : \E f \in files[t] :
          files' = [files EXCEPT ![t] = @ \ {f}]
    /\ UNCHANGED <<up, live, trash, tmp, points, req, crashes, late, mourned>>
Unlink(r) ==
    /\ At(r, "check")
    /\ \E t \in req[r].dirs :
          /\ t \in tmp => files[t] = {}
          /\ tmp' = tmp \ {t}
          /\ Step(r, "check", NoLife, req[r].dirs \ {t})
    /\ UNCHANGED <<up, live, trash, files, points, crashes, late, mourned>>

CleanGivesUp(r) ==      \* a removal throws, which is caught
    /\ At(r, "check")
    /\ req[r].dirs # {}
    /\ Step(r, "check", NoLife, {})
    /\ UNCHANGED <<up, live, trash, tmp, files, points, crashes, late, mourned>>

Check(r) ==
    /\ At(r, "check")
    /\ req[r].dirs = {}
    /\ Goto(r, IF live[req[r].id] = NoLife THEN "write" ELSE "failed")
    /\ UNCHANGED <<up, live, trash, tmp, files, points, crashes, late, mourned>>

Write(r) ==
    /\ At(r, "write")
    /\ tmp' = tmp \cup {r}
    /\ files' = [files EXCEPT ![r] = Skeleton]
    /\ Goto(r, "rename")
    /\ UNCHANGED <<up, live, trash, points, crashes, late, mourned>>

(* rename(2) fails without its source and on a directory with content, and *)
(* replaces an empty one, as the comment on it says.                       *)
Vacant(i) == live[i] = NoLife \/ files[live[i]] = {}
RenameSucceeds_Replaces(r) == r \in tmp                         \* mutant
RenameSucceeds(r) == r \in tmp /\ Vacant(req[r].id)
Rename(r) ==
    /\ At(r, "rename")
    /\ IF RenameSucceeds(r)
       THEN /\ live' = [live EXCEPT ![req[r].id] = r]
            /\ tmp' = tmp \ {r}
            /\ Goto(r, "done")
       ELSE Goto(r, "failed") /\ UNCHANGED <<live, tmp>>
    /\ UNCHANGED <<up, trash, files, points, crashes, late, mourned>>

-----------------------------------------------------------------------------
(* softDeleteNamespace moves whatever is live by then.                     *)
MoveTo(r, l) ==
    /\ trash' = trash \cup {<<req[r].id, l>>}
    /\ live' = [live EXCEPT ![req[r].id] = NoLife]
    /\ mourned' = mourned \cup {req[r].id}
    /\ Step(r, "cascade", l, {})
    /\ UNCHANGED <<up, tmp, files, points, crashes, late>>
Move_Unchecked(r) == At(r, "move") /\ MoveTo(r, live[req[r].id])    \* mutant
Move(r) ==
    /\ At(r, "move")
    /\ live[req[r].id] # NoLife
    /\ MoveTo(r, live[req[r].id])
MoveRefused(r) ==
    /\ At(r, "move")
    /\ live[req[r].id] = NoLife
    /\ Goto(r, "failed")
    /\ UNCHANGED <<up, live, trash, tmp, files, points, crashes, late, mourned>>

(* The cascade, and the flag vectors_purged of the answer.                 *)
CascadeFails_Unreported(r) ==                                   \* mutant
    /\ At(r, "cascade")
    /\ Goto(r, "purged")
    /\ UNCHANGED <<up, live, trash, tmp, files, points, crashes, late, mourned>>
CascadeFails(r) ==
    /\ At(r, "cascade")
    /\ Goto(r, "done")
    /\ UNCHANGED <<up, live, trash, tmp, files, points, crashes, late, mourned>>
Cascade(r) ==
    /\ At(r, "cascade")
    /\ points' = points \ PointsOf(req[r].id)
    /\ Goto(r, "purged")
    /\ UNCHANGED <<up, live, trash, tmp, files, crashes, late, mourned>>

-----------------------------------------------------------------------------
(* hardDeleteNamespace: purge, count, and only then remove, one by one,    *)
(* the directories listed at the start.                                    *)
HardPurge(r) ==
    /\ At(r, "purge")
    /\ points' = points \ PointsOf(req[r].id)
    /\ Goto(r, "verify")
    /\ UNCHANGED <<up, live, trash, tmp, files, crashes, late, mourned>>
HardPurgeFails_GoesOn(r) ==                                     \* mutant
    /\ At(r, "purge")
    /\ Goto(r, "remove")
    /\ UNCHANGED <<up, live, trash, tmp, files, points, crashes, late, mourned>>
HardPurgeFails(r) ==
    /\ At(r, "purge")
    /\ Goto(r, "done")
    /\ UNCHANGED <<up, live, trash, tmp, files, points, crashes, late, mourned>>
HardVerify(r) ==
    /\ At(r, "verify")
    /\ Goto(r, IF PointsOf(req[r].id) = {} THEN "remove" ELSE "done")
    /\ UNCHANGED <<up, live, trash, tmp, files, points, crashes, late, mourned>>
HardRemove(r) ==
    /\ At(r, "remove")
    /\ \/ \E l \in req[r].dirs :
             /\ trash' = trash \ {<<req[r].id, l>>}
             /\ Step(r, "remove", req[r].life, req[r].dirs \ {l})
       \/ /\ req[r].dirs = {}
          /\ Goto(r, "purged")
          /\ UNCHANGED trash
    /\ UNCHANGED <<up, live, tmp, files, points, crashes, late, mourned>>

-----------------------------------------------------------------------------
(* The upsert of an authorized store does not look at the namespace again. *)
Upsert(r) ==
    /\ At(r, "upsert")
    /\ points' = points \cup {r}
    /\ late' = IF live[req[r].id] = req[r].life THEN late ELSE late \cup {r}
    /\ Goto(r, "done")
    /\ UNCHANGED <<up, live, trash, tmp, files, crashes, mourned>>

(* The append makes the missing directories first (rules/store.ts,         *)
(* memory/service.ts, decay.ts): after a delete that is a bare one.        *)
Append(r) ==
    /\ At(r, "append")
    /\ LET i == req[r].id
           l == IF live[i] = NoLife THEN r ELSE live[i]
       IN  /\ live' = [live EXCEPT ![i] = l]
           /\ files' = [files EXCEPT ![l] = @ \cup {"other"}]
    /\ Goto(r, "done")
    /\ UNCHANGED <<up, trash, tmp, points, crashes, late, mourned>>

Crash ==
    /\ up
    /\ crashes < MaxCrashes
    /\ crashes' = crashes + 1
    /\ up' = FALSE
    /\ req' = [r \in Reqs |->
           IF req[r].pc \in Over THEN req[r]
           ELSE [pc |-> "failed", op |-> req[r].op, id |-> req[r].id,
                 life |-> NoLife, dirs |-> {}]]
    /\ UNCHANGED <<live, trash, tmp, files, points, late, mourned>>

(* The transport sweeps before it serves: id after id, up to the first     *)
(* purge that throws, which does not keep it from starting.                *)
Swept(S) == UNION {PointsOf(i) : i \in S}
Boot ==
    /\ ~ up
    /\ up' = TRUE
    /\ \E S \in SUBSET TrashedIds : points' = points \ Swept(S)
    /\ UNCHANGED <<live, trash, tmp, files, req, crashes, late, mourned>>

Create(r) ==
    \/ Clean(r) \/ Empty(r) \/ Unlink(r) \/ CleanGivesUp(r)
    \/ Check(r) \/ Write(r) \/ Rename(r)
Delete(r) == Move(r) \/ MoveRefused(r) \/ Cascade(r) \/ CascadeFails(r)
Hard(r)   == HardPurge(r) \/ HardPurgeFails(r) \/ HardVerify(r) \/ HardRemove(r)

Next ==
    \/ \E r \in Reqs : Begin(r) \/ CallFails(r) \/ Create(r) \/ Delete(r) \/ Hard(r) \/ Upsert(r) \/ Append(r)
    \/ Crash \/ Boot

Spec == Init /\ [][Next]_vars

-----------------------------------------------------------------------------
TypeOK ==
    /\ up \in BOOLEAN
    /\ live \in [Ids -> Lives \cup {NoLife}]
    /\ trash \subseteq Ids \X Lives
    /\ tmp \subseteq Reqs
    /\ files \in [Lives -> SUBSET Skeleton]
    /\ points \subseteq Reqs
    /\ req \in [Reqs -> Request]
    /\ crashes \in Nat
    /\ late \subseteq Reqs
    /\ mourned \subseteq Ids

(* No purge, of a cascade, a hard delete or a sweep, ever takes a vector   *)
(* of an id that was never deleted: not one whose name extends a deleted   *)
(* one (vector-cascade.ts), and never one of the protected namespace.      *)
NeverDeletedNeverPurged ==
    [][\A s \in points : s \notin points' => req[s].id \in mourned]_vars

(* A vector without a living namespace has a directory in _deleted, so the *)
(* sweep of the next start finds it: hard-delete.ts removes directories    *)
(* only after a verified purge.  Stores that wrote after their namespace   *)
(* had moved are the exception.                                            *)
OrphansReachable ==
    \A s \in points :
        \/ live[req[s].id] = req[s].life
        \/ req[s].id \in TrashedIds
        \/ s \in late

(* A namespace that can be loaded is never replaced under its users' feet: *)
(* it leaves its place for _deleted only, whatever creations saw the id    *)
(* free, removed each other's temporary directories and rename now         *)
(* (store.ts, createNamespaceSkeleton).                                    *)
NoTakeover ==
    [][\A i \in Ids : Loads(i) /\ live'[i] # live[i] =>
          live'[i] = NoLife /\ <<i, live[i]>> \in trash']_vars

(* A delete that answers vectors_purged left no vector of the life it      *)
(* moved, but for stores that wrote after the move (tools.ts: "We never    *)
(* report vectors gone unless they are").                                  *)
DeleteReportTruthful ==
    \A r \in Reqs : req[r].op = "delete" /\ req[r].pc = "purged" =>
        \A s \in points : req[s].id = req[r].id /\ req[s].life = req[r].life => s \in late

(* The sweep of a start is for orphans (vector-cascade.ts:118-123): it     *)
(* should take no vector of a living namespace.  It knows ids and not      *)
(* lives, so it does when the id was deleted and created again.            *)
SweepSparesTheLiving ==
    [][~ up /\ up' =>
          \A s \in points \ points' : live[req[s].id] # req[s].life]_vars

(* store.ts:84 says a skeleton is created atomically: a create call that   *)
(* succeeded made a namespace with all its files.  It does not when the    *)
(* clean-up of another create empties the directory before the rename.     *)
SkeletonWhole ==
    \A r \in Reqs : req[r].op = "create" /\ req[r].pc = "done" => files[r] = Skeleton
=============================================================================
