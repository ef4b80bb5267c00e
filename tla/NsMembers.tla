------------------------------ MODULE NsMembers ------------------------------
(***************************************************************************)
(* The members and the settings of a namespace: the tools                  *)
(* namespace_add_member, namespace_remove_member and namespace_update, the *)
(* console's share and unshare, and the prune that follows the revocation  *)
(* of an agent's last token (src/src/namespaces/store.ts, tools.ts,        *)
(* admin/api/routes/namespaces.ts).                                        *)
(*                                                                         *)
(* Changes of the members queue for a lock, one per namespace, which is    *)
(* taken by name and outlives the directory; namespace_update takes none.  *)
(***************************************************************************)
EXTENDS NsDirectory

CONSTANTS Holders,     \* agents whose tokens come and go
          MaxTokens    \* bound on their tokens

ASSUME MembersAssumption ==
    /\ Holders \subseteq Agents /\ MaxTokens \in Nat \ {0}
    /\ \A t \in Tasks : t.op = "revoke" => t.who \in Holders

VARIABLES tokens,     \* live tokens of each holder
          lock,       \* withMembersLock: the calls that have entered, in order
          copy,       \* per call: the members it is about to save
          draft,      \* per call: the settings it is about to save
          walk,       \* per prune: the namespaces still to come
          book,       \* history: the members by the changes that were saved
          mixed,      \* history: directories with a file that holds another's
          spoiled,    \* history: the files (<<directory, file>>) of which a write was
                      \* cut off, or that two calls were writing at once
          due,        \* history: the namespaces a prune must have cleared
          reborn      \* history: prunes whose agent got a token after the check

memVars == <<tokens, lock, copy, draft, walk, book, mixed, spoiled, due, reborn>>

LockOps == {"add", "remove", "share", "unshare", "revoke"}

\* upsertMember and removeMember; the console cannot share namespace:admin.
Change(t, m) ==
    CASE t.op = "add"   -> [m EXCEPT ![t.who] = "admin"]
      [] t.op = "share" -> [m EXCEPT ![t.who] = "use"]
      [] OTHER          -> [m EXCEPT ![t.who] = "none"]

Enter(r, i) == lock' = [lock EXCEPT ![i] = Append(@, r)]
Leave(i)    == lock' = [lock EXCEPT ![i] = Tail(@)]     \* only its head runs

\* The namespace whose lock a call waits for or holds.
In(r, i) == \E k \in DOMAIN lock[i] : lock[i][k] = r

First_Barging(r, i) == In(r, i)     \* mutant
First(r, i) == In(r, i) /\ Head(lock[i]) = r

MemInit ==
    /\ tokens = [a \in Holders |-> 1]
    /\ lock = [i \in Ids |-> << >>]
    /\ copy = [r \in Reqs |-> OnlyOwner(Founder)]
    /\ draft = [r \in Reqs |-> [owner |-> Founder, changes |-> {}]]
    /\ walk = [r \in Reqs |-> {}]
    /\ book = [i \in Ids |-> OnlyOwner(Founder)]
    /\ mixed = {}
    /\ spoiled = {}
    /\ due = [r \in Reqs |-> {}]
    /\ reborn = {}

-----------------------------------------------------------------------------
\* The handler's own loadNamespace.  The console looks at the owner here,
\* before it asks for the lock.
Load(r) ==
    /\ At(r, "load")
    /\ IF \/ ~Whole(Here(r).ns)
          \/ Doing(r, {"share", "unshare"}) /\ Who(r) = Here(r).ns.owner
       THEN Fail(r) /\ UNCHANGED <<lock, draft>>
       ELSE \/ /\ Doing(r, LockOps)
               /\ Goto(r, "locked")
               /\ Enter(r, Id(r))
               /\ UNCHANGED draft
            \/ /\ Doing(r, {"update"})
               /\ draft' = [draft EXCEPT ![r] = [Here(r).ns EXCEPT !.changes = @ \cup {r}]]
               /\ req' = [req EXCEPT ![r].pc = "settings", ![r].dir = Here(r).dir]
               /\ UNCHANGED lock
            \/ /\ Doing(r, {"post"})
               /\ Goto(r, "rule")
               /\ UNCHANGED <<lock, draft>>
    /\ UNCHANGED <<fs, crashed, tokens, copy, walk, book, mixed, spoiled, due, reborn>>

\* What becomes of a call when it leaves the lock: a prune goes on.
After(r, ok) == IF ok /\ Doing(r, {"revoke"}) THEN "walk" ELSE IF ok THEN "done" ELSE "failed"

\* Under the lock: loadMembers, which throws on a torn file; a removal that
\* finds nobody saves nothing.
Read(r, i) ==
    /\ At(r, "locked")
    /\ First(r, i)
    /\ LET next == Change(req[r].task, Members(i))
           idle == Doing(r, LockOps \ {"add", "share"}) /\ next = Members(i)
       IN IF fs[i].members = Torn \/ idle
          THEN Goto(r, After(r, fs[i].members # Torn)) /\ Leave(i) /\ UNCHANGED copy
          ELSE /\ copy' = [copy EXCEPT ![r] = next]
               /\ req' = [req EXCEPT ![r].pc = "save", ![r].dir = fs[i].dir]
               /\ UNCHANGED lock
    /\ UNCHANGED <<fs, crashed, tokens, draft, walk, book, mixed, spoiled, due, reborn>>

\* saveMembers: the open truncates the file, in whatever directory is at the
\* path by now.
Truncate(r, i) ==
    /\ At(r, "save")
    /\ In(r, i)
    /\ IF fs[i].dir = NoDir
       THEN Fail(r) /\ Leave(i) /\ UNCHANGED <<fs, mixed>>
       ELSE /\ fs' = [fs EXCEPT ![i].members = Torn]
            /\ mixed' = IF fs[i].dir = req[r].dir THEN mixed ELSE mixed \cup {fs[i].dir}
            /\ req' = [req EXCEPT ![r].pc = "fill", ![r].dir = fs[i].dir]
            /\ UNCHANGED lock
    /\ UNCHANGED <<crashed, tokens, copy, draft, walk, book, spoiled, due, reborn>>

\* A prune is told of the memberships that come after its check.
Noted(i, a) ==
    due' = [q \in Reqs |-> IF req[q].task.op = "revoke" /\ Who(q) = a THEN due[q] \ {i} ELSE due[q]]

Fill(r, i) ==
    /\ At(r, "fill")
    /\ In(r, i)
    /\ IF fs[i].dir = req[r].dir
       THEN /\ fs' = [fs EXCEPT ![i].members = copy[r]]
            /\ book' = [book EXCEPT ![i] = Change(req[r].task, @)]
            /\ IF Doing(r, {"add", "share"}) THEN Noted(i, Who(r)) ELSE UNCHANGED due
       ELSE UNCHANGED <<fs, book, due>>
    /\ Goto(r, After(r, TRUE))
    /\ Leave(i)
    /\ UNCHANGED <<crashed, tokens, copy, draft, walk, mixed, spoiled, reborn>>

-----------------------------------------------------------------------------
\* namespace_update writes its draft over whatever is there by then, without
\* a lock.
Halfway(pcs) == {r \in Reqs : req[r].pc \in pcs}
Updating(d)  == \E q \in Halfway({"draft"}) : req[q].dir = d

TruncateSettings(r) ==
    /\ At(r, "settings")
    /\ IF Here(r).dir = NoDir
       THEN Fail(r) /\ UNCHANGED <<fs, mixed, spoiled>>
       ELSE /\ fs' = [fs EXCEPT ![Id(r)].ns = Torn]
            /\ mixed' = IF Here(r).dir = req[r].dir THEN mixed ELSE mixed \cup {Here(r).dir}
            /\ spoiled' = IF Updating(Here(r).dir) THEN spoiled \cup {<<Here(r).dir, "ns">>} ELSE spoiled
            /\ req' = [req EXCEPT ![r].pc = "draft", ![r].dir = Here(r).dir]
    /\ UNCHANGED <<crashed, tokens, lock, copy, draft, walk, book, due, reborn>>

\* Each call writes from the beginning of the file, with a descriptor of its
\* own: what another has filled in since both truncated it stays behind where
\* it was longer.
Filled(r) == {draft[r]} \cup IF Here(r).ns = Torn THEN {} ELSE {Garbled}

FillSettings(r) ==
    /\ At(r, "draft")
    /\ IF Here(r).dir = req[r].dir
       THEN \E f \in Filled(r) : fs' = [fs EXCEPT ![Id(r)].ns = f]
       ELSE UNCHANGED fs
    /\ Goto(r, "done")
    /\ UNCHANGED <<crashed, memVars>>

-----------------------------------------------------------------------------
\* pat_revoke and the console's revoke: the store commits, or finds the token
\* revoked already, and the callback looks for what is left of the agent's.
Revoke(r) ==
    /\ At(r, "revoke")
    /\ \/ tokens[Who(r)] > 0 /\ tokens' = [tokens EXCEPT ![Who(r)] = @ - 1]
       \/ UNCHANGED tokens
    /\ Goto(r, "check")
    /\ UNCHANGED <<fs, crashed, lock, copy, draft, walk, book, mixed, spoiled, due, reborn>>

NoneLeft_ButOne(a) == tokens[a] <= 1     \* mutant
NoneLeft(a) == tokens[a] = 0

CheckLast(r) ==
    /\ At(r, "check")
    /\ IF NoneLeft(Who(r))
       THEN Goto(r, "list") /\ due' = [due EXCEPT ![r] = Listed] /\ reborn' = reborn \ {r}
       ELSE Goto(r, "done") /\ UNCHANGED <<due, reborn>>
    /\ UNCHANGED <<fs, crashed, tokens, lock, copy, draft, walk, book, mixed, spoiled>>

\* pruneOrphanedMembers.
List(r) ==
    /\ At(r, "list")
    /\ walk' = [walk EXCEPT ![r] = Listed]
    /\ Goto(r, "walk")
    /\ UNCHANGED <<fs, crashed, tokens, lock, copy, draft, book, mixed, spoiled, due, reborn>>

Walk(r) ==
    /\ At(r, "walk")
    /\ IF walk[r] = {}
       THEN Goto(r, "pruned") /\ UNCHANGED <<lock, walk>>
       ELSE \E i \in walk[r] :
               /\ walk' = [walk EXCEPT ![r] = @ \ {i}]
               /\ Enter(r, i)
               /\ Goto(r, "locked")
    /\ UNCHANGED <<fs, crashed, tokens, copy, draft, book, mixed, spoiled, due, reborn>>

\* A token that is issued or rotated in, by the console or a tool.
Mint(a) ==
    /\ tokens[a] < MaxTokens
    /\ tokens' = [tokens EXCEPT ![a] = @ + 1]
    /\ reborn' = reborn \cup {r \in Reqs : req[r].task.op = "revoke" /\ Who(r) = a}
    /\ UNCHANGED <<dirVars, lock, copy, draft, walk, book, mixed, spoiled, due>>

MemberStep(r) ==
    \/ Load(r) \/ TruncateSettings(r) \/ FillSettings(r)
    \/ Revoke(r) \/ CheckLast(r) \/ List(r) \/ Walk(r)
    \/ \E i \in Ids : Read(r, i) \/ Truncate(r, i) \/ Fill(r, i)
=============================================================================
