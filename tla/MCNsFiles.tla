------------------------------ MODULE MCNsFiles ------------------------------
EXTENDS NsFiles, TLC
CONSTANTS i, j, a, b, x, r1, r2, r3
Task(op, id, who, rule) == [op |-> op, id |-> id, who |-> who, by |-> a, rule |-> rule]
MCTasks ==
    {Task(op, i, b, x) : op \in {"add", "share", "unshare", "update", "revoke", "create",
                                 "put", "drop", "post", "delete", "look"}}
    \cup {Task("remove", i, a, x), Task("add", j, b, x)}
Perms == Permutations(Reqs)
==============================================================================
