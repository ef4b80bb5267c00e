------------------------------ MODULE NsDirectory ------------------------------
(***************************************************************************)
(* What lies under data/namespaces/<id> and how the handlers of tools and  *)
(* console get to it (src/src/namespaces/store.ts, auth/resolve-request.ts)*)
(* NsMembers and NsRules add what they do there; NsFiles puts them         *)
(* together.  Namespaces models the creation and deletion of a directory   *)
(* step by step; here each is one step.                                    *)
(*                                                                         *)
(* Every call is made once and goes by the path.  fs[i].dir says which     *)
(* directory the path leads to: the one that was there at the start        *)
(* (<<i, "start">>), or the one that call r made at one of its steps       *)
(* (<<r, step>>), a skeleton or the bare one of mkdir for the rules.  A    *)
(* file is written by truncating and filling it, so that it is Torn in     *)
(* between; what is filled after the directory moved goes with it.  One    *)
(* that two calls filled may be Garbled: a text with the other's tail.     *)
(***************************************************************************)
EXTENDS Naturals, Sequences

CONSTANTS Ids,
          Agents,
          RuleIds,
          Reqs,        \* calls, each made at most once
          Tasks,       \* what they may be: [op, id, who, by, rule]
          NoDir,       \* of a path that leads nowhere
          Founder,     \* owner of the namespaces that exist at the start
          Absent, Torn, Garbled     \* states of a file

Levels == {"none", "use", "admin"}      \* scopes of a member
Ops    == {"create", "delete", "look", "revoke", "add", "remove", "share", "unshare",
           "update", "put", "drop", "post"}
Over   == {"idle", "done", "failed"}

MemberMaps == [Agents -> Levels]
Settings   == [owner : Agents, changes : SUBSET Reqs]

ASSUME DirectoryAssumption ==
    /\ Founder \in Agents
    /\ Absent # Torn /\ Absent # Garbled /\ Torn # Garbled
    /\ {Absent, Torn, Garbled} \cap (MemberMaps \cup Settings) = {}
    /\ NoDir \notin (Ids \X {"start"}) \cup (Reqs \X {"create", "prepare", "relist"})
    /\ Tasks # {}
    /\ Tasks \subseteq [op : Ops, id : Ids, who : Agents, by : Agents, rule : RuleIds]

VARIABLES fs,        \* [Ids -> [dir, ns, members, rules, index]]
          req,       \* [Reqs -> [pc, task, dir]]
          crashed    \* whether the process has died once

dirVars == <<fs, req, crashed>>

Nothing == [dir |-> NoDir, ns |-> Absent, members |-> Absent, rules |-> {}, index |-> {}]

Made(r) == <<r, req[r].pc>>        \* the directory call r makes at this step

Bare(r) == [Nothing EXCEPT !.dir = Made(r)]

OnlyOwner(a) == [b \in Agents |-> IF b = a THEN "admin" ELSE "none"]

\* createNamespaceSkeleton: changes is the set of the updates a settings
\* file holds.
Skeleton(d, a) ==
    [dir |-> d, ns |-> [owner |-> a, changes |-> {}], members |-> OnlyOwner(a),
     rules |-> {}, index |-> {}]

At(r, p) == req[r].pc = p
Doing(r, ops) == req[r].task.op \in ops
Id(r)  == req[r].task.id
Who(r) == req[r].task.who
Here(r) == fs[Id(r)]

Goto(r, p) == req' = [req EXCEPT ![r].pc = p]
Fail(r) == Goto(r, "failed")

Broken(f) == f \in {Torn, Garbled}
Whole(f)  == f # Absent /\ ~Broken(f)

\* loadNamespace and loadMembers: an absent file is null, a broken one throws.
Members(i) == IF fs[i].members = Absent THEN [a \in Agents |-> "none"] ELSE fs[i].members

\* authorizeNamespaceAccess; the tools of the members want namespace:admin,
\* those of the rules any membership.  The owner needs no entry.
Granted(i, a) ==
    IF Members(i)[a] # "none" THEN Members(i)[a]
    ELSE IF a = fs[i].ns.owner THEN "admin" ELSE "none"

\* listNamespaceIds looks for the file, not at it.
Listed == {i \in Ids : fs[i].ns # Absent}

DirInit ==
    /\ fs = [i \in Ids |-> Skeleton(<<i, "start">>, Founder)]
    /\ req = [r \in Reqs |-> [pc |-> "idle", task |-> CHOOSE t \in Tasks : TRUE, dir |-> NoDir]]
    /\ crashed = FALSE

\* Tools authorize first, the console only loads the namespace.
FirstStep(t) ==
    CASE t.op \in {"create", "delete", "look"} -> t.op
      [] t.op = "revoke" -> "revoke"
      [] t.op \in {"add", "remove", "update", "put", "drop"} -> "authorize"
      [] OTHER -> "load"      \* share, unshare, post

Arrive(r) ==
    /\ At(r, "idle")
    /\ \E t \in Tasks :
          req' = [req EXCEPT ![r] = [pc |-> FirstStep(t), task |-> t, dir |-> NoDir]]
    /\ UNCHANGED <<fs, crashed>>

\* Who may call is settled here, and not looked at again.
Authorize(r) ==
    /\ At(r, "authorize")
    /\ LET rule == Doing(r, {"put", "drop"})
           may == /\ Whole(Here(r).ns)
                  /\ Here(r).members # Torn
                  /\ Granted(Id(r), req[r].task.by) \in {"admin"} \cup IF rule THEN {"use"} ELSE {}
       IN Goto(r, IF ~may THEN "failed" ELSE IF rule THEN "rule" ELSE "load")
    /\ UNCHANGED <<fs, crashed>>

\* namespace_list, the reading routes of the console and the readers of
\* rules: they answer from files another call may be writing, and throw on
\* one that is broken.
Look(r) ==
    /\ At(r, "look")
    /\ Goto(r, IF \E i \in Listed : Broken(fs[i].ns) \/ Broken(fs[i].members) THEN "failed" ELSE "done")
    /\ UNCHANGED <<fs, crashed>>

CreateSkeleton(r) ==
    /\ At(r, "create")
    /\ Here(r).dir = NoDir
    /\ fs' = [fs EXCEPT ![Id(r)] = Skeleton(Made(r), Who(r))]
    /\ Goto(r, "done")
    /\ UNCHANGED crashed

Exists(r) ==        \* a bare directory is enough
    /\ At(r, "create")
    /\ Here(r).dir # NoDir
    /\ Fail(r)
    /\ UNCHANGED <<fs, crashed>>

SoftDelete(r) ==
    /\ At(r, "delete")
    /\ IF Whole(Here(r).ns)
       THEN fs' = [fs EXCEPT ![Id(r)] = Nothing] /\ Goto(r, "done")
       ELSE Fail(r) /\ UNCHANGED fs
    /\ UNCHANGED crashed
================================================================================
