------------------------------- MODULE NsFiles -------------------------------
(***************************************************************************)
(* Members, settings and rules of the namespaces together, while           *)
(* directories are deleted and made anew, awaits throw and the process     *)
(* dies.                                                                   *)
(***************************************************************************)
EXTENDS NsMembers, NsRules

filesVars == <<dirVars, memVars, ruleVars>>

FilesInit == DirInit /\ MemInit /\ RuleInit

\* A creation starts the account of the members anew; to a prune that was
\* checked before, the namespace is a new one.
Founded(r) ==
    /\ CreateSkeleton(r)
    /\ book' = [book EXCEPT ![Id(r)] = OnlyOwner(Who(r))]
    /\ due' = [q \in Reqs |-> due[q] \ {Id(r)}]
    /\ UNCHANGED <<tokens, lock, copy, draft, walk, mixed, spoiled, reborn, ruleVars>>

Moved(r) ==
    /\ SoftDelete(r)
    /\ book' = [book EXCEPT ![Id(r)] = IF fs'[Id(r)] = Nothing THEN [a \in Agents |-> "none"] ELSE @]
    /\ UNCHANGED <<tokens, lock, copy, draft, walk, mixed, spoiled, due, reborn, ruleVars>>

\* What a call that ends in the middle leaves behind it.
Spoils(R)  == {<<req[r].dir, "members">> : r \in R \cap Halfway({"fill"})}
              \cup {<<req[r].dir, "ns">> : r \in R \cap Halfway({"draft"})}
Unlists(R) == {req[r].dir : r \in R \cap Halfway({"relist", "index"})}

\* Waiting for a lock does not throw: what the calls before threw is caught.
Waits(r) ==
    \/ At(r, "locked") /\ \E i \in Ids : In(r, i) /\ ~First(r, i)
    \/ (At(r, "prepare") \/ At(r, "unlink")) /\ ~FirstWriter(r)

\* Another await throws: the locks' finally clauses let the next call in.
Without(queue, r) == IF queue # << >> /\ Head(queue) = r THEN Tail(queue) ELSE queue

Throws(r) ==
    /\ req[r].pc \notin Over \cup {"pruned"}
    /\ ~Waits(r)
    /\ Fail(r)
    /\ lock' = [i \in Ids |-> Without(lock[i], r)]
    /\ ruleLock' = [i \in Ids |-> Without(ruleLock[i], r)]
    /\ spoiled' = spoiled \cup Spoils({r})
    /\ unlisted' = unlisted \cup Unlists({r})
    /\ UNCHANGED <<fs, crashed, tokens, copy, draft, walk, book, mixed, due, reborn, seen>>

\* The process dies, and starts again with the files as they are.
Crash ==
    /\ ~crashed
    /\ crashed' = TRUE
    /\ req' = [r \in Reqs |-> IF req[r].pc \in Over \cup {"pruned"} THEN req[r] ELSE [req[r] EXCEPT !.pc = "failed"]]
    /\ lock' = [i \in Ids |-> << >>]
    /\ ruleLock' = [i \in Ids |-> << >>]
    /\ spoiled' = spoiled \cup Spoils(Reqs)
    /\ unlisted' = unlisted \cup Unlists(Reqs)
    /\ UNCHANGED <<fs, tokens, copy, draft, walk, book, mixed, due, reborn, seen>>

Directory(r) ==
    (Arrive(r) \/ Authorize(r) \/ Look(r) \/ Exists(r)) /\ UNCHANGED <<memVars, ruleVars>>

FilesNext ==
    \/ \E r \in Reqs :
          \/ Directory(r)
          \/ Founded(r)
          \/ Moved(r)
          \/ MemberStep(r) /\ UNCHANGED ruleVars
          \/ RuleStep(r) /\ UNCHANGED memVars
          \/ Throws(r)
    \/ (\E a \in Holders : Mint(a)) /\ UNCHANGED ruleVars
    \/ Crash

FilesSpec == FilesInit /\ [][FilesNext]_filesVars

-----------------------------------------------------------------------------
\* No change of the members is lost, whichever tools, console requests and
\* prunes make them (namespaces/store.ts:228, "can't clobber each other"): a
\* whole file holds what the changes say that were saved, one after another,
\* unless one of its writers had read another directory's file.  And a file
\* is torn only while it is being written, or after a call was cut off there;
\* the settings, which no lock guards, also after two updates overlapped
\* (store.ts:295-301).
MembersAsBooked ==
    \A i \in Ids : fs[i].dir # NoDir =>
        /\ Whole(fs[i].members) /\ fs[i].dir \notin mixed => fs[i].members = book[i]
        /\ Broken(fs[i].members) /\ <<fs[i].dir, "members">> \notin spoiled =>
              \E r \in Halfway({"fill"}) : req[r].dir = fs[i].dir
        /\ Broken(fs[i].ns) /\ <<fs[i].dir, "ns">> \notin spoiled => Updating(fs[i].dir)

\* A prune takes memberships only of an agent that was without a token when
\* it looked, and one that finishes leaves none that stood then
\* (namespaces/tools.ts:163-188): what is there was granted since, or stands
\* in a directory that was made since, or in a file that cannot be trusted.
PruneExact ==
    \A r \in Reqs : Doing(r, {"revoke"}) =>
        /\ req[r].pc \in {"walk", "locked", "save", "fill"} =>
              tokens[Who(r)] = 0 \/ r \in reborn
        /\ req[r].pc = "pruned" =>
              \A i \in due[r] :
                 Whole(fs[i].members) /\ fs[i].dir \notin mixed =>
                    fs[i].members[Who(r)] = "none"

\* INDEX.md lists the rules there are whenever no write is on its way
\* (rules/store.ts:204-221), also after writes from tools and console met:
\* only where a write was cut off before its index, or regenerated it from
\* another directory, it waits for the next write.
IndexCurrent ==
    \A i \in Ids :
        fs[i].dir # NoDir /\ fs[i].dir \notin unlisted =>
            \/ fs[i].index = fs[i].rules
            \/ \E r \in Halfway({"relist", "index"}) : Id(r) = i
=============================================================================
