------------------------------ MODULE Bootstrap ------------------------------
(***************************************************************************)
(* The start of the process (src/src/index.ts): the pepper                 *)
(* (auth/pepper.ts), the token store, the first token and its namespace    *)
(* (auth/bootstrap.ts), and the transport, of which stdio needs a token of *)
(* its own (transport/stdio.ts).                                           *)
(*                                                                         *)
(* Each phase is one file to write.  Nothing is written atomically: a      *)
(* crash leaves the file of its phase as it was, torn, or (then it is a    *)
(* crash of the next phase) whole.                                         *)
(***************************************************************************)
EXTENDS Naturals, FiniteSets

CONSTANTS Fresh,      \* the pepper drawn at the first start
          EnvPeppers, \* values SERVER_PEPPER may be given
          None,       \* of a file: missing; of SERVER_PEPPER: unset
          Torn,       \* of a file: cut off in its write; of SERVER_PEPPER: no pepper
          MaxCrashes

ASSUME BootAssumption ==
    /\ None # Torn
    /\ {None, Torn} \cap ({Fresh} \cup EnvPeppers) = {}
    /\ Fresh \notin EnvPeppers
    /\ MaxCrashes \in Nat

VARIABLES phase,   \* where the start is; "up", "down" or "refused"
          env,     \* SERVER_PEPPER of this start, None when unset
          pepper,  \* data/_auth/.pepper
          key,     \* the pepper the process works with
          first,   \* the first token: "none", "live", "revoked", "deleted"
          under,   \* the pepper its hash was made with
          torn,    \* pats.jsonl has a torn line
          space,   \* the bootstrap namespace: "none", "half", "whole"
          secret,  \* .bootstrap_token: None, Torn, "whole"
          marker,  \* .bootstrap_done
          cut,     \* history: a start died between the mint and the secret
          crashes  \* how often the process died (at most MaxCrashes)

bootVars == <<phase, env, pepper, key, first, under, torn, space, secret, marker, cut, crashes>>
diskVars == <<pepper, first, under, torn, space, secret, marker>>

Refuse == phase' = "refused"
Go(p)  == phase' = p

\* main(): a start, by hand or by the supervisor.
Start ==
    /\ phase \in {"down", "refused"}
    /\ Go("pepper")
    /\ env' \in EnvPeppers \cup {None, Torn}
    /\ key' = None
    /\ UNCHANGED <<diskVars, cut, crashes>>

\* The file or the environment holds no pepper, or each another one.
Contradicted ==
    \/ Torn \in {pepper, env}
    \/ pepper # None /\ env \notin {None, pepper}

\* A pepper file that is missing is written.
LoadPepper ==
    /\ phase = "pepper"
    /\ \/ Contradicted /\ Refuse /\ UNCHANGED <<pepper, key>>
       \/ /\ ~Contradicted
          /\ pepper' = IF pepper # None THEN pepper ELSE IF env # None THEN env ELSE Fresh
          /\ key' = pepper'
          /\ Go("store")
    /\ UNCHANGED <<env, first, under, torn, space, secret, marker, cut, crashes>>

\* load() throws on a line that is no JSON.
OpenStore ==
    /\ phase = "store"
    /\ IF torn THEN Refuse ELSE Go("check")
    /\ UNCHANGED <<env, diskVars, key, cut, crashes>>

\* A deleted token is none: list() does not show it.
NoTokens == first \in {"none", "deleted"}

CheckState ==
    /\ phase = "check"
    /\ IF marker /\ NoTokens THEN Refuse ELSE Go(IF NoTokens THEN "mint" ELSE "serve")
    /\ marker' = (marker \/ ~NoTokens)
    /\ UNCHANGED <<env, pepper, key, first, under, torn, space, secret, cut, crashes>>

Mint_MarksFirst ==   \* mutant
    /\ phase = "mint"
    /\ first' = IF marker THEN "live" ELSE first
    /\ under' = IF marker THEN key ELSE under
    /\ marker' = TRUE
    /\ Go(IF marker THEN "space" ELSE "mint")
    /\ UNCHANGED <<env, pepper, key, torn, space, secret, cut, crashes>>

Mint ==
    /\ phase = "mint"
    /\ first' = "live"
    /\ under' = key
    /\ Go("space")
    /\ UNCHANGED <<env, pepper, key, torn, space, secret, marker, cut, crashes>>

\* createNamespaceSkeleton refuses a directory that is there.
MakeSpace ==
    /\ phase = "space"
    /\ IF space = "none" THEN space' = "whole" /\ Go("secret") ELSE Refuse /\ UNCHANGED space
    /\ UNCHANGED <<env, pepper, key, first, under, torn, secret, marker, cut, crashes>>

WriteSecret ==
    /\ phase = "secret"
    /\ secret' = "whole"
    /\ Go("mark")
    /\ UNCHANGED <<env, pepper, key, first, under, torn, space, marker, cut, crashes>>

WriteMarker ==
    /\ phase = "mark"
    /\ marker' = TRUE
    /\ Go("serve")
    /\ UNCHANGED <<env, pepper, key, first, under, torn, space, secret, cut, crashes>>

\* The HTTP transport comes up; stdio only with a token that resolves, or
\* the process exits.
Serve ==
    /\ phase = "transport"
    /\ Go("up") \/ Go("down")
    /\ env' = None
    /\ UNCHANGED <<diskVars, key, cut, crashes>>

\* The first token is revoked, and later cleared out in the console.
RevokeFirst ==
    /\ phase = "up"
    /\ first = "live"
    /\ first' = "revoked"
    /\ UNCHANGED <<phase, env, pepper, key, under, torn, space, secret, marker, cut, crashes>>

DeleteFirst ==
    /\ phase = "up"
    /\ first = "revoked"
    /\ first' = "deleted"
    /\ UNCHANGED <<phase, env, pepper, key, under, torn, space, secret, marker, cut, crashes>>

\* The process dies.  A write of this phase may be torn.
Die ==
    /\ phase \notin {"down", "refused"}
    /\ crashes < MaxCrashes
    /\ crashes' = crashes + 1
    /\ Go("down")
    /\ env' = None
    /\ key' = None
    /\ pepper' \in {pepper} \cup (IF phase = "pepper" /\ pepper = None THEN {Torn} ELSE {})
    /\ torn' \in {torn, torn \/ phase \in {"mint", "up"}}
    /\ space' \in {space} \cup (IF phase = "space" /\ space = "none" THEN {"half"} ELSE {})
    /\ secret' \in {secret} \cup (IF phase = "secret" THEN {Torn} ELSE {})
    /\ cut' = (cut \/ phase \in {"space", "secret"})
    /\ UNCHANGED <<first, under, marker>>

BootInit ==
    /\ phase = "down"
    /\ env = None
    /\ pepper = None
    /\ key = None
    /\ first = "none"
    /\ under = None
    /\ torn = FALSE
    /\ space = "none"
    /\ secret = None
    /\ marker = FALSE
    /\ cut = FALSE
    /\ crashes = 0

BootSteps ==
    \/ Start
    \/ LoadPepper
    \/ OpenStore
    \/ CheckState
    \/ Mint
    \/ MakeSpace
    \/ WriteSecret
    \/ WriteMarker

-----------------------------------------------------------------------------
\* Crashes alone never make a start refuse for what a former one left half
\* done: it refuses a torn file, an environment that holds no pepper or
\* another one, or an empty token store after the last token was deleted
\* (bootstrap.ts:76-82); and what a torn pepper costs is nothing.
RefusesForCause ==
    /\ phase = "refused" =>
          Contradicted \/ torn \/ first = "deleted"
    /\ pepper = Torn => first = "none"

\* The process works with the pepper the token was hashed under, whatever
\* the environment says (pepper.ts:20-49).
KeepsItsPepper ==
    phase \notin {"down", "refused", "pepper"} /\ ~NoTokens => under = key

\* A token that was minted gets its namespace and its secret out, through
\* crashes before the mint and after the secret.  The exception is a start
\* that died between the two: the next one takes the token for known, and
\* what was not written never is (bootstrap.ts:84-95, 97-120).  Crash or not,
\* no secret is written before its token and its namespace are there, and
\* neither marker nor namespace before the token.
HandsSecretOut ==
    /\ first # "none" /\ ~(secret = "whole" /\ space = "whole") =>
          cut \/ phase \in {"space", "secret"}
    /\ secret # None => first # "none" /\ space = "whole"
    /\ marker \/ space # "none" => first # "none"

BootSurvives == RefusesForCause /\ KeepsItsPepper /\ HandsSecretOut
=============================================================================
