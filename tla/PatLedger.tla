------------------------------ MODULE PatLedger ------------------------------
(***************************************************************************)
(* What the PAT store promises of each personal access token: it is       *)
(* minted once, may be revoked, and only once revoked may be deleted;      *)
(* rotation mints the replacement and revokes the old token in one step.   *)
(* Nothing moves a token back.  PatStore.tla is shown to implement it.     *)
(***************************************************************************)
CONSTANTS Pats

VARIABLE status     \* [Pats -> Statuses], what pats.jsonl says of each token

Statuses == {"absent", "active", "revoked", "deleted"}

Init == status \in [Pats -> {"absent", "active"}]

Mint(p) ==
    /\ status[p] = "absent"
    /\ status' = [status EXCEPT ![p] = "active"]

(* Revoking again, under another reason, changes nothing here.             *)
Revoke(p) ==
    /\ status[p] = "active"
    /\ status' = [status EXCEPT ![p] = "revoked"]

Rotate(old, new) ==
    /\ status[old] \in {"active", "revoked"}
    /\ status[new] = "absent"
    /\ status' = [status EXCEPT ![old] = "revoked", ![new] = "active"]

Delete(p) ==
    /\ status[p] = "revoked"
    /\ status' = [status EXCEPT ![p] = "deleted"]

Next ==
    \/ \E p \in Pats : Mint(p) \/ Revoke(p) \/ Delete(p)
    \/ \E old, new \in Pats : old # new /\ Rotate(old, new)

Spec == Init /\ [][Next]_status
=============================================================================
