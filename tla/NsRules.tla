------------------------------- MODULE NsRules -------------------------------
(***************************************************************************)
(* The rules of a namespace (src/src/rules/store.ts): a file per rule,     *)
(* written beside its name and renamed onto it, and INDEX.md, which every  *)
(* write regenerates from a listing.  Writes of one namespace are served   *)
(* one after another; the lock is taken by name.  The directory is made if *)
(* it is missing, so that a write which was authorized before a delete     *)
(* leaves a bare one.                                                      *)
(***************************************************************************)
EXTENDS NsDirectory

VARIABLES ruleLock,   \* withNamespaceLock: the calls that have entered
          seen,       \* per call: the rules it listed for the index
          unlisted    \* history: directories where a write ended before its index

ruleVars == <<ruleLock, seen, unlisted>>

RuleId(r) == req[r].task.rule

FirstWriter_Barging(r) == \E k \in DOMAIN ruleLock[Id(r)] : ruleLock[Id(r)][k] = r   \* mutant
FirstWriter(r) == ruleLock[Id(r)] # << >> /\ Head(ruleLock[Id(r)]) = r

Released(r) == ruleLock' = [ruleLock EXCEPT ![Id(r)] = Tail(@)]     \* only its head runs

RuleInit ==
    /\ ruleLock = [i \in Ids |-> << >>]
    /\ seen = [r \in Reqs |-> {}]
    /\ unlisted = {}

EnterRules(r) ==
    /\ At(r, "rule")
    /\ ruleLock' = [ruleLock EXCEPT ![Id(r)] = Append(@, r)]
    /\ Goto(r, IF Doing(r, {"drop"}) THEN "unlink" ELSE "prepare")
    /\ UNCHANGED <<fs, crashed, seen, unlisted>>

\* upsertRule up to its fsync: the directory, the rule that is there, and
\* the temporary file in it.
Prepare(r) ==
    /\ At(r, "prepare")
    /\ FirstWriter(r)
    /\ fs' = IF Here(r).dir = NoDir THEN [fs EXCEPT ![Id(r)] = Bare(r)] ELSE fs
    /\ req' = [req EXCEPT ![r].pc = "rename", ![r].dir = fs'[Id(r)].dir]
    /\ UNCHANGED <<crashed, ruleVars>>

\* Without its temporary file, which goes with the directory, it fails.
Rename(r) ==
    /\ At(r, "rename")
    /\ IF Here(r).dir = req[r].dir
       THEN /\ fs' = [fs EXCEPT ![Id(r)].rules = @ \cup {RuleId(r)}]
            /\ Goto(r, "relist")
            /\ UNCHANGED ruleLock
       ELSE Fail(r) /\ Released(r) /\ UNCHANGED fs
    /\ UNCHANGED <<crashed, seen, unlisted>>

Unlink(r) ==
    /\ At(r, "unlink")
    /\ FirstWriter(r)
    /\ IF RuleId(r) \in Here(r).rules
       THEN /\ fs' = [fs EXCEPT ![Id(r)].rules = @ \ {RuleId(r)}]
            /\ req' = [req EXCEPT ![r].pc = "relist", ![r].dir = Here(r).dir]
            /\ UNCHANGED ruleLock
       ELSE Fail(r) /\ Released(r) /\ UNCHANGED fs
    /\ UNCHANGED <<crashed, seen, unlisted>>

\* regenerateIndexLocked makes the directory again, lists and writes.
Relist(r) ==
    /\ At(r, "relist")
    /\ fs' = IF Here(r).dir = NoDir THEN [fs EXCEPT ![Id(r)] = Bare(r)] ELSE fs
    /\ seen' = [seen EXCEPT ![r] = Here(r).rules]
    /\ req' = [req EXCEPT ![r].pc = "index", ![r].dir = fs'[Id(r)].dir]
    /\ UNCHANGED <<crashed, ruleLock, unlisted>>

WriteIndex(r) ==
    /\ At(r, "index")
    /\ IF Here(r).dir = NoDir
       THEN Fail(r) /\ UNCHANGED <<fs, unlisted>>
       ELSE /\ fs' = [fs EXCEPT ![Id(r)].index = seen[r]]
            /\ unlisted' = IF Here(r).dir = req[r].dir
                           THEN unlisted \ {Here(r).dir} ELSE unlisted \cup {Here(r).dir}
            /\ Goto(r, "done")
    /\ Released(r)
    /\ UNCHANGED <<crashed, seen>>

RuleStep(r) ==
    EnterRules(r) \/ Prepare(r) \/ Rename(r) \/ Unlink(r) \/ Relist(r) \/ WriteIndex(r)
=============================================================================
