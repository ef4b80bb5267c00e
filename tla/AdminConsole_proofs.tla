------------------------- MODULE AdminConsole_proofs -------------------------
(***************************************************************************)
(* Proofs about AdminConsole for any number of crashes, requests, sessions *)
(* and would-be operators, and any peppers.                                *)
(***************************************************************************)
EXTENDS AdminConsole, FiniteSetTheorems, TLAPS

-----------------------------------------------------------------------------
(* The start.  What the files say of each other, phase by phase.           *)
Minting == {"mint", "space", "secret", "mark"}
Started == {"serve", "listening", "ensure", "transport", "up"}

BootTyped ==
    /\ phase \in {"down", "refused", "pepper", "store", "check"} \cup Minting \cup Started
    /\ first \in {"none", "live", "revoked", "deleted"}
    /\ torn \in BOOLEAN /\ marker \in BOOLEAN /\ cut \in BOOLEAN
    /\ crashes \in Nat
    /\ env \in EnvPeppers \cup {None, Torn}

(* A first token is minted once, before the marker, and where nothing is   *)
(* left of an earlier one; the marker is never without one.                *)
MintOnce ==
    /\ marker => first # "none"
    /\ phase \in Minting => ~marker
    /\ phase \in Started => marker
    /\ phase = "mint" => first = "none"
    /\ first = "none" => space = "none"
    /\ phase = "space" => space = "none" /\ first = "live"
    /\ phase \in {"secret", "mark"} => first = "live"
    /\ first \in {"revoked", "deleted"} => marker

(* The pepper file is the pepper the process works with, and was there     *)
(* before the token that was hashed under it.                              *)
Peppered ==
    /\ phase \notin {"down", "refused", "pepper"} => pepper = key /\ pepper \notin {None, Torn}
    /\ pepper \in {None, Torn} => first = "none"
    /\ first # "none" => under = pepper

(* The secret and the namespace follow the mint, but for a start that died *)
(* between them; and past each write its file is there.                    *)
HandedOut ==
    /\ HandsSecretOut
    /\ phase = "secret" => space = "whole"
    /\ phase = "mark" => space = "whole" /\ secret = "whole"

BootInv == BootTyped /\ MintOnce /\ Peppered /\ HandedOut /\ RefusesForCause

(* Neither the console nor the clock does more to the start than leave a   *)
(* phase that has no file of its own.                                      *)
BootQuiet ==
    /\ UNCHANGED <<env, pepper, key, first, under, torn, space, secret, marker, cut, crashes>>
    /\ \/ phase' = phase
       \/ /\ phase \in {"serve", "listening", "ensure", "transport"}
          /\ phase' \in {"listening", "ensure", "transport", "up", "down"}

LEMMA BootQuietKeeps ==
    ASSUME BootInv, \/ BootQuiet
                    \/ /\ phase = "transport" /\ phase' \in {"up", "down"} /\ env' = None
                       /\ UNCHANGED <<diskVars, key, cut, crashes>>
    PROVE  BootInv'
  BY DEF BootQuiet, diskVars, BootInv, BootTyped, MintOnce, Peppered, HandedOut, HandsSecretOut,
     RefusesForCause, Contradicted, Minting, Started

LEMMA StartKeeps ==
    ASSUME BootInv, Start
    PROVE  BootInv'
  BY DEF Start, Go, diskVars, BootInv, BootTyped, MintOnce, Peppered, HandedOut, HandsSecretOut,
     RefusesForCause, Minting, Started

LEMMA PepperKeeps ==
    ASSUME BootInv, LoadPepper
    PROVE  BootInv'
  <1> USE DEF BootInv, BootTyped, MintOnce, Peppered, HandedOut, HandsSecretOut, RefusesForCause, Minting, Started
  <1>1. CASE Contradicted /\ Refuse /\ UNCHANGED <<pepper, key>>
    BY <1>1 DEF LoadPepper, Refuse, Contradicted
  <1>2. CASE ~Contradicted
    <2>1. /\ phase = "pepper" /\ phase' = "store"
          /\ pepper' = IF pepper # None THEN pepper ELSE IF env # None THEN env ELSE Fresh
          /\ key' = pepper'
          /\ UNCHANGED <<env, first, under, torn, space, secret, marker, cut, crashes>>
      BY <1>2 DEF LoadPepper, Go
    <2>2. pepper' \notin {None, Torn}
      BY <1>2, <2>1, BootAssumption DEF Contradicted
    <2>3. first # "none" => pepper' = pepper
      BY <2>1
    <2>4. BootTyped' /\ MintOnce' /\ HandedOut'
      BY <2>1
    <2>5. Peppered'
      BY <2>1, <2>2, <2>3
    <2>6. QED  BY <2>1, <2>2, <2>4, <2>5
  <1>3. QED  BY <1>1, <1>2 DEF LoadPepper

LEMMA StoreKeeps ==
    ASSUME BootInv, OpenStore \/ CheckState
    PROVE  BootInv'
  <1> USE DEF BootInv, BootTyped, MintOnce, Peppered, HandedOut, HandsSecretOut, RefusesForCause, Minting, Started,
              Refuse, Go, diskVars, Contradicted
  <1>1. CASE OpenStore
    BY <1>1 DEF OpenStore
  <1>2. CASE CheckState
    <2>1. CASE marker /\ NoTokens
      BY <1>2, <2>1 DEF CheckState, NoTokens
    <2>2. CASE ~marker /\ NoTokens
      BY <1>2, <2>2 DEF CheckState, NoTokens
    <2>3. CASE ~NoTokens
      BY <1>2, <2>3 DEF CheckState, NoTokens
    <2>4. QED  BY <2>1, <2>2, <2>3
  <1>3. QED  BY <1>1, <1>2

LEMMA MintKeeps ==
    ASSUME BootInv, Mint \/ MakeSpace \/ WriteSecret \/ WriteMarker
    PROVE  BootInv'
  <1> USE DEF BootInv, BootTyped, MintOnce, Peppered, HandedOut, HandsSecretOut, RefusesForCause, Minting, Started,
              Refuse, Go, Contradicted
  <1>1. CASE Mint  BY <1>1 DEF Mint
  <1>2. CASE MakeSpace  BY <1>2 DEF MakeSpace
  <1>3. CASE WriteSecret  BY <1>3 DEF WriteSecret
  <1>4. CASE WriteMarker  BY <1>4 DEF WriteMarker
  <1>5. QED  BY <1>1, <1>2, <1>3, <1>4

LEMMA FirstKeeps ==
    ASSUME BootInv, RevokeFirst \/ DeleteFirst
    PROVE  BootInv'
  <1> USE DEF BootInv, BootTyped, MintOnce, Peppered, HandedOut, HandsSecretOut, RefusesForCause, Minting, Started,
              Contradicted
  <1>1. CASE RevokeFirst  BY <1>1 DEF RevokeFirst
  <1>2. CASE DeleteFirst  BY <1>2 DEF DeleteFirst
  <1>3. QED  BY <1>1, <1>2

LEMMA DieKeeps ==
    ASSUME BootInv, Die
    PROVE  BootInv'
  <1> USE DEF BootInv, BootTyped, MintOnce, Peppered, HandedOut, HandsSecretOut, RefusesForCause, Minting, Started,
              Contradicted
  <1>1. /\ phase \notin {"down", "refused"} /\ phase' = "down"
        /\ crashes' = crashes + 1 /\ env' = None
        /\ pepper' = pepper \/ (phase = "pepper" /\ pepper = None /\ pepper' = Torn)
        /\ torn' \in BOOLEAN
        /\ space' = space \/ (phase = "space" /\ space' = "half")
        /\ secret' = secret \/ (phase = "secret" /\ secret' = Torn)
        /\ cut' = (cut \/ phase \in {"space", "secret"})
        /\ UNCHANGED <<first, under, marker>>
    BY DEF Die, Go
  <1>2. BootTyped'
    BY <1>1
  <1>3. MintOnce'
    BY <1>1
  <1>4. Peppered'
    BY <1>1, BootAssumption
  <1>5. HandedOut'
    BY <1>1
  <1>6. RefusesForCause'
    BY <1>1
  <1>7. QED  BY <1>2, <1>3, <1>4, <1>5, <1>6

-----------------------------------------------------------------------------
(* The console.                                                            *)
RowType == [op : Operators, absolute : Nat, idle : Nat]
OnCookie == {"operator", "drop", "touch", "granted"}
JobType ==
    [pc : {"idle", "hash", "consume", "verify", "session"} \cup OnCookie,
     op : Operators \cup {Missing}, cookie : Cookies \cup {Unused}, next : Nat,
     stale : BOOLEAN]

ConsoleTyped ==
    /\ ops \in [Operators -> {"none", "active", "disabled"}]
    /\ rows \in [Cookies -> RowType \cup {Unused, Ended}]
    /\ req \in [Reqs -> JobType]
    /\ closed \subseteq Cookies

(* What a request was told is still so after the awaits that follow: its   *)
(* cookie was given out, the idle expiry it will write is within the row's *)
(* absolute one, and a request under a session that is over goes no        *)
(* further than its operator, which stays disabled.                        *)
JobFits(j) ==
    /\ j.pc \in {"hash", "consume", "verify", "session"} \cup OnCookie => j.op \in Operators
    /\ j.pc = "consume" => Existing # {}
    /\ j.pc \in OnCookie => j.cookie \in Cookies /\ rows[j.cookie] # Unused
    /\ j.pc \in {"operator", "touch"} /\ HasRow(j.cookie) => j.next <= rows[j.cookie].absolute
    /\ j.stale => \/ j.pc \notin {"operator", "touch", "granted"}
                  \/ j.pc = "operator" /\ ops[j.op] = "disabled"

JobsFit       == \A r \in Reqs : JobFits(req[r])
ClosedEnded   == \A k \in closed : rows[k] = Ended
RowsBounded   == \A k \in Cookies : HasRow(k) => rows[k].idle <= rows[k].absolute
OneOperator   == Cardinality(Existing) <= 1
SetupThere    == console /\ phase \in {"transport", "up"} /\ Existing = {} => setup # Missing

RowsFine   == ClosedEnded /\ RowsBounded
ConsoleInv == ConsoleTyped /\ JobsFit /\ RowsFine /\ OneOperator /\ SetupThere

(* Operators stay, disabled ones stay disabled; a cookie that was given    *)
(* out keeps its row and the row its absolute expiry, or loses the row for *)
(* good.                                                                   *)
Onward ==
    /\ \A o \in Operators : ops[o] = "disabled" => ops'[o] = "disabled"
    /\ Existing # {} => Existing' # {}
    /\ \A k \in Cookies : rows[k] # Unused =>
          /\ rows'[k] # Unused
          /\ HasRow(k)' => HasRow(k) /\ rows'[k].absolute = rows[k].absolute

LEMMA JobStays ==
    ASSUME Onward, NEW j \in JobType, JobFits(j)
    PROVE  JobFits(j)'
  BY DEF Onward, JobType, JobFits, OnCookie

(* One request moves on.                                                   *)
LEMMA Turned ==
    ASSUME ConsoleInv, Onward, NEW r \in Reqs, NEW j \in JobType, JobFits(j)',
           req' = [req EXCEPT ![r] = j]
    PROVE  req' \in [Reqs -> JobType] /\ JobsFit'
  <1>1. req' \in [Reqs -> JobType]
    BY DEF ConsoleInv, ConsoleTyped
  <1>2. ASSUME NEW q \in Reqs  PROVE JobFits(req[q])'
    <2>1. CASE q = r
      <3>1. req'[q] = j
        BY <2>1 DEF ConsoleInv, ConsoleTyped
      <3>2. QED  BY <3>1 DEF JobFits
    <2>2. CASE q # r
      <3>1. PICK i \in JobType : i = req[q]
        BY DEF ConsoleInv, ConsoleTyped
      <3>2. req'[q] = i /\ JobFits(i)
        BY <2>2, <3>1 DEF ConsoleInv, ConsoleTyped, JobsFit
      <3>3. JobFits(i)'
        BY <3>2, JobStays
      <3>4. QED  BY <3>2, <3>3 DEF JobFits
    <2>3. QED  BY <2>1, <2>2
  <1>3. QED  BY <1>1, <1>2 DEF JobsFit

LEMMA NoJobFits ==
    /\ NoJob \in JobType
    /\ JobFits(NoJob)'
  BY DEF NoJob, Job, JobType, JobFits, OnCookie

(* What the steps below leave to show.                                     *)
LEMMA Keeps ==
    ASSUME ConsoleInv, Onward, RowsFine', OneOperator', SetupThere',
           ops' \in [Operators -> {"none", "active", "disabled"}],
           rows' \in [Cookies -> RowType \cup {Unused, Ended}],
           closed' \subseteq Cookies,
           NEW r \in Reqs, NEW j \in JobType, JobFits(j)',
           req' = [req EXCEPT ![r] = j]
    PROVE  ConsoleInv'
  <1>1. req' \in [Reqs -> JobType] /\ JobsFit'
    BY Turned
  <1>2. QED  BY <1>1 DEF ConsoleInv, ConsoleTyped

(* Steps that leave operators and rows alone.                              *)
LEMMA KeepsStill ==
    ASSUME ConsoleInv, UNCHANGED <<ops, rows, closed, phase, console>>,
           setup' # Missing \/ setup' = setup \/ Existing # {},
           NEW r \in Reqs, NEW j \in JobType, JobFits(j),
           req' = [req EXCEPT ![r] = j]
    PROVE  ConsoleInv'
  <1>1. Onward
    BY DEF Onward, Existing, HasRow
  <1>2. JobFits(j)'
    BY <1>1, JobStays
  <1>3. RowsFine' /\ OneOperator' /\ SetupThere'
    BY DEF ConsoleInv, RowsFine, ClosedEnded, RowsBounded, HasRow, OneOperator, SetupThere,
       Existing
  <1>4. QED  BY <1>1, <1>2, <1>3, Keeps DEF ConsoleInv, ConsoleTyped

(* Steps that change one row, whose cookie was given out or is now.        *)
LEMMA KeepsRow ==
    ASSUME ConsoleInv, UNCHANGED <<ops, setup, phase, console>>,
           NEW k \in Cookies, NEW row \in RowType \cup {Ended},
           row # Ended => row.idle <= row.absolute,
           row # Ended => k \notin closed /\ closed' = closed,
           rows[k] # Unused /\ row # Ended => HasRow(k) /\ row.absolute = rows[k].absolute,
           rows' = [rows EXCEPT ![k] = row],
           closed' \subseteq closed \cup {k},
           NEW r \in Reqs, NEW j \in JobType, JobFits(j)',
           req' = [req EXCEPT ![r] = j]
    PROVE  ConsoleInv'
  <1> USE SessionAssumption
  <1>1. rows' \in [Cookies -> RowType \cup {Unused, Ended}]
    BY DEF ConsoleInv, ConsoleTyped
  <1>2. /\ row # Unused
        /\ \A i \in Cookies : rows'[i] = IF i = k THEN row ELSE rows[i]
    BY DEF ConsoleInv, ConsoleTyped, RowType
  <1>3. Onward
    BY <1>2 DEF Onward, Existing, HasRow
  <1>4. closed' \subseteq Cookies
    BY DEF ConsoleInv, ConsoleTyped
  <1>5. ClosedEnded'
    <2>1. SUFFICES ASSUME NEW i \in closed'  PROVE rows'[i] = Ended
      BY DEF ClosedEnded
    <2>2. CASE i = k
      BY <1>2, <2>1, <2>2
    <2>3. CASE i # k
      BY <1>2, <1>4, <2>1, <2>3 DEF ConsoleInv, RowsFine, ClosedEnded
    <2>4. QED  BY <2>2, <2>3
  <1>6. RowsBounded'
    BY <1>2 DEF ConsoleInv, RowsFine, RowsBounded, HasRow
  <1>7. OneOperator' /\ SetupThere'
    BY DEF ConsoleInv, OneOperator, SetupThere, Existing
  <1>8. QED  BY <1>1, <1>3, <1>4, <1>5, <1>6, <1>7, Keeps DEF ConsoleInv, ConsoleTyped, RowsFine

-----------------------------------------------------------------------------
(* One lemma per operation of the console.                                 *)
LEMMA TurnTo ==
    ASSUME ConsoleInv, NEW r \in Reqs,
           NEW pc \in {"idle", "hash", "consume", "verify", "session"} \cup OnCookie,
           Turn(r, pc)
    PROVE  \E j \in JobType :
              /\ req' = [req EXCEPT ![r] = j]
              /\ j.pc = pc /\ j.op = req[r].op /\ j.cookie = req[r].cookie
              /\ j.next = req[r].next /\ j.stale = req[r].stale
  <1> DEFINE j == [req[r] EXCEPT !.pc = pc]
  <1>1. PICK i \in JobType : i = req[r]
    BY DEF ConsoleInv, ConsoleTyped
  <1>2. j \in JobType
    BY <1>1 DEF JobType
  <1>3. j.pc = pc /\ j.op = req[r].op /\ j.cookie = req[r].cookie
        /\ j.next = req[r].next /\ j.stale = req[r].stale
    BY <1>1 DEF JobType
  <1>4. req' = [req EXCEPT ![r] = j]
    BY Zenon DEF Turn
  <1>5. QED  BY <1>2, <1>3, <1>4

LEMMA BeginKeeps ==
    ASSUME ConsoleInv, UNCHANGED <<phase, console>>, NEW r \in Reqs, NEW o \in Operators,
           BeginSetup(r, o) \/ BeginLogin(r, o)
    PROVE  ConsoleInv'
  <1> DEFINE j(pc) == [pc |-> pc, op |-> o, cookie |-> Unused, next |-> 0, stale |-> FALSE]
  <1>1. ASSUME NEW pc \in {"hash", "verify"}
        PROVE  j(pc) \in JobType /\ JobFits(j(pc))
    BY <1>1 DEF JobType, JobFits, OnCookie
  <1>2. PICK pc \in {"hash", "verify"} : req' = [req EXCEPT ![r] = j(pc)]
    BY DEF BeginSetup, BeginLogin, Job
  <1>3. UNCHANGED <<ops, rows, closed>> /\ setup' = setup
    BY DEF BeginSetup, BeginLogin
  <1> HIDE DEF j
  <1>4. QED  BY <1>1, <1>2, <1>3, KeepsStill

LEMMA ClaimKeeps ==
    ASSUME ConsoleInv, UNCHANGED <<phase, console>>, NEW r \in Reqs, Claim(r)
    PROVE  ConsoleInv'
  <1>1. CASE Existing # {}
    <2>1. req' = [req EXCEPT ![r] = NoJob] /\ UNCHANGED <<ops, rows, closed>> /\ setup' = setup
      BY <1>1 DEF Claim, Over
    <2>2. NoJob \in JobType /\ JobFits(NoJob)
      BY DEF NoJob, Job, JobType, JobFits, OnCookie
    <2>3. QED  BY <2>1, <2>2, KeepsStill
  <1>2. CASE Existing = {}
    <2> DEFINE o == req[r].op
    <2>1. o \in Operators /\ req[r].pc = "hash"
      BY DEF ConsoleInv, JobsFit, JobFits, Claim, At
    <2>2. /\ ops' = [ops EXCEPT ![o] = "active"]
          /\ Turn(r, "consume")
          /\ UNCHANGED <<rows, closed>> /\ setup' = setup
      BY <1>2 DEF Claim
    <2>3. /\ ops \in [Operators -> {"none", "active", "disabled"}]
          /\ \A p \in Operators : ops[p] = "none"
      BY <1>2 DEF ConsoleInv, ConsoleTyped, Existing
    <2>4. ops' \in [Operators -> {"none", "active", "disabled"}] /\ Existing' = {o}
      BY <2>1, <2>2, <2>3 DEF Existing
    <2>5. OneOperator'
      <3>1. IsFiniteSet({o}) /\ Cardinality({o}) = 1
        BY FS_Singleton
      <3> HIDE DEF o
      <3>2. QED  BY <2>4, <3>1 DEF OneOperator
    <2>6. Onward
      BY <1>2, <2>2, <2>3, <2>4 DEF Onward, HasRow
    <2>7. PICK j \in JobType :
              /\ req' = [req EXCEPT ![r] = j]
              /\ j.pc = "consume" /\ j.op = o /\ j.cookie = req[r].cookie
              /\ j.next = req[r].next /\ j.stale = req[r].stale
      BY <2>2, TurnTo, "consume" \in {"idle", "hash", "consume", "verify", "session"} \cup OnCookie
    <2>8. JobFits(j)'
      BY <2>1, <2>4, <2>7 DEF JobFits, OnCookie
    <2>9. RowsFine' /\ SetupThere'
      BY <2>2, <2>4 DEF ConsoleInv, RowsFine, ClosedEnded, RowsBounded, HasRow, SetupThere
    <2>10. QED  BY <2>2, <2>4, <2>5, <2>6, <2>7, <2>8, <2>9, Keeps DEF ConsoleInv, ConsoleTyped
  <1>3. QED  BY <1>1, <1>2

(* The steps of a sign-in that leave operators and rows alone.             *)
LEMMA StillKeeps ==
    ASSUME ConsoleInv, UNCHANGED <<phase, console>>, NEW r \in Reqs,
           Consume(r) \/ Verified(r) \/ ReadOperator(r) \/ Handle(r)
    PROVE  ConsoleInv'
  <1>1. NoJob \in JobType /\ JobFits(NoJob)
    BY DEF NoJob, Job, JobType, JobFits, OnCookie
  <1>2. UNCHANGED <<ops, rows, closed>>
    BY DEF Consume, Verified, ReadOperator, Handle
  <1>3. JobFits(req[r])
    BY DEF ConsoleInv, JobsFit
  <1>4. CASE Over(r)
    <2>1. req' = [req EXCEPT ![r] = NoJob]
      BY <1>4 DEF Over
    <2>2. setup' = setup \/ Existing # {}
      BY <1>3 DEF Consume, Verified, ReadOperator, Handle, At, JobFits
    <2>3. QED  BY <1>1, <1>2, <2>1, <2>2, KeepsStill
  <1>5. ASSUME NEW pc \in {"session", "touch", "drop"}, Turn(r, pc),
               setup' = setup \/ Existing # {},
               \/ pc = "session" /\ req[r].pc \in {"consume", "verify"}
               \/ pc = "touch" /\ req[r].pc = "operator" /\ ops[req[r].op] = "active"
               \/ pc = "drop" /\ req[r].pc = "operator"
        PROVE  ConsoleInv'
    <2>1. PICK j \in JobType :
              /\ req' = [req EXCEPT ![r] = j]
              /\ j.pc = pc /\ j.op = req[r].op /\ j.cookie = req[r].cookie
              /\ j.next = req[r].next /\ j.stale = req[r].stale
      BY <1>5, TurnTo, pc \in {"idle", "hash", "consume", "verify", "session"} \cup OnCookie
         DEF OnCookie
    <2>2. JobFits(j)
      BY <1>3, <1>5, <2>1 DEF JobFits, OnCookie
    <2>3. QED  BY <1>2, <1>5, <2>1, <2>2, KeepsStill
  <1>6. CASE Consume(r)
    BY <1>3, <1>5, <1>6 DEF Consume, At, JobFits
  <1>7. CASE Verified(r)
    BY <1>4, <1>5, <1>7 DEF Verified, At
  <1>8. CASE ReadOperator(r)
    BY <1>5, <1>8 DEF ReadOperator, At
  <1>9. CASE Handle(r)
    BY <1>4, <1>9 DEF Handle
  <1>10. QED  BY <1>6, <1>7, <1>8, <1>9

LEMMA OpenKeeps ==
    ASSUME ConsoleInv, UNCHANGED <<phase, console>>, NEW r \in Reqs, NEW k \in Cookies,
           OpenSession(r, k)
    PROVE  ConsoleInv'
  <1> DEFINE row == Row(req[r].op)
  <1>1. req[r].op \in Operators
    BY DEF OpenSession, At, ConsoleInv, JobsFit, JobFits
  <1>2. row \in RowType /\ row.idle <= row.absolute
    BY <1>1, SessionAssumption DEF Row, RowType
  <1>3. /\ rows[k] = Unused /\ rows' = [rows EXCEPT ![k] = row]
        /\ req' = [req EXCEPT ![r] = NoJob]
        /\ UNCHANGED <<ops, setup, closed>>
    BY DEF OpenSession, Over
  <1>4. k \notin closed
    BY <1>3, SessionAssumption DEF ConsoleInv, RowsFine, ClosedEnded
  <1> HIDE DEF row
  <1>5. QED  BY <1>2, <1>3, <1>4, NoJobFits, KeepsRow

(* A row is deleted, and the request is over.                              *)
LEMMA EndKeeps ==
    ASSUME ConsoleInv, UNCHANGED <<phase, console>>, NEW r \in Reqs, Drop(r) \/ Logout(r)
    PROVE  ConsoleInv'
  <1> DEFINE k == req[r].cookie
  <1>1. k \in Cookies
    BY DEF Drop, Logout, At, ConsoleInv, JobsFit, JobFits, OnCookie
  <1>2. /\ rows' = [rows EXCEPT ![k] = Ended]
        /\ closed' = closed \cup {k}
        /\ req' = [req EXCEPT ![r] = NoJob]
        /\ UNCHANGED <<ops, setup>>
    BY DEF Drop, Logout, Over
  <1> HIDE DEF k
  <1>3. QED  BY <1>1, <1>2, NoJobFits, KeepsRow

LEMMA TouchKeeps ==
    ASSUME ConsoleInv, UNCHANGED <<phase, console>>, NEW r \in Reqs, Touch(r)
    PROVE  ConsoleInv'
  <1> DEFINE k == req[r].cookie
  <1>1. JobFits(req[r]) /\ req[r].pc = "touch"
    BY DEF ConsoleInv, JobsFit, Touch, At
  <1>2. k \in Cookies /\ rows[k] # Unused
    BY <1>1 DEF JobFits, OnCookie
  <1>3. /\ rows' = [rows EXCEPT ![k] = IF @ = Ended THEN @ ELSE [@ EXCEPT !.idle = req[r].next]]
        /\ Turn(r, "granted")
        /\ UNCHANGED <<ops, setup, closed>>
    BY DEF Touch
  <1>4. PICK j \in JobType :
            /\ req' = [req EXCEPT ![r] = j]
            /\ j.pc = "granted" /\ j.op = req[r].op /\ j.cookie = k
            /\ j.next = req[r].next /\ j.stale = req[r].stale
    BY <1>3, TurnTo, "granted" \in {"idle", "hash", "consume", "verify", "session"} \cup OnCookie
       DEF OnCookie
  <1>5. j.next \in Nat /\ j.op \in Operators /\ ~j.stale
    BY <1>1, <1>4 DEF JobType, JobFits, OnCookie
  <1>6. ASSUME NEW row \in RowType \cup {Ended},
               row # Ended => /\ k \notin closed /\ HasRow(k)
                              /\ row.idle <= row.absolute /\ row.absolute = rows[k].absolute,
               rows' = [rows EXCEPT ![k] = row]
        PROVE  ConsoleInv'
    <2>1. rows'[k] = row /\ row # Unused
      BY <1>2, <1>6, SessionAssumption DEF ConsoleInv, ConsoleTyped, RowType
    <2>2. JobFits(j)'
      BY <1>2, <1>4, <1>5, <2>1 DEF JobFits, OnCookie
    <2> HIDE DEF k
    <2>3. QED  BY <1>2, <1>3, <1>4, <1>6, <2>2, KeepsRow
  <1>7. CASE rows[k] = Ended
    <2>1. rows' = [rows EXCEPT ![k] = Ended]
      BY <1>3, <1>7
    <2>2. QED  BY <1>6, <2>1
  <1>8. CASE rows[k] # Ended
    <2> DEFINE row == [rows[k] EXCEPT !.idle = j.next]
    <2>1. HasRow(k) /\ rows[k] \in RowType /\ k \notin closed
      BY <1>2, <1>8 DEF HasRow, ConsoleInv, ConsoleTyped, RowsFine, ClosedEnded
    <2>2. j.next <= rows[k].absolute
      BY <1>1, <1>4, <2>1 DEF JobFits
    <2>3. row \in RowType /\ row.idle = j.next /\ row.absolute = rows[k].absolute
      BY <1>5, <2>1 DEF RowType
    <2>4. rows' = [rows EXCEPT ![k] = row]
      BY <1>3, <1>4, <1>8
    <2>5. QED  BY <1>6, <2>1, <2>2, <2>3, <2>4
  <1>9. QED  BY <1>7, <1>8

LEMMA ReadKeeps ==
    ASSUME ConsoleInv, UNCHANGED <<phase, console>>, NEW r \in Reqs, NEW k \in Cookies,
           ReadSession(r, k)
    PROVE  ConsoleInv'
  <1>1. /\ HasRow(k) /\ UNCHANGED <<ops, rows, closed>> /\ setup' = setup
        /\ rows[k] \in RowType /\ k \notin closed
    BY DEF ReadSession, HasRow, ConsoleInv, ConsoleTyped, RowsFine, ClosedEnded
  <1>2. OverBy(k) => Lapsed(k) \/ ops[rows[k].op] = "disabled"
    BY <1>1 DEF OverBy
  <1>3. PICK stale \in BOOLEAN : stale <=> OverBy(k)
    OBVIOUS
  <1>4. OverBy(k) = stale
    BY <1>3 DEF OverBy
  <1>5. PICK next \in Nat : next = Least(IdleTicks, rows[k].absolute)
                            /\ next <= rows[k].absolute
    BY <1>1, SessionAssumption DEF Least, RowType
  <1>6. PICK o \in Operators : o = rows[k].op
    BY <1>1 DEF RowType
  <1>7. PICK pc \in {"drop", "operator"} : pc = IF Lapsed(k) THEN "drop" ELSE "operator"
    OBVIOUS
  <1> DEFINE j == [pc |-> pc, op |-> o, cookie |-> k, next |-> next, stale |-> stale]
  <1>8. req' = [req EXCEPT ![r] = j]
    BY <1>4, <1>5, <1>6, <1>7 DEF ReadSession, Job
  <1>9. j \in JobType
    BY DEF JobType, OnCookie
  <1>10. JobFits(j)
    <2>1. rows[k] # Unused
      BY <1>1 DEF HasRow
    <2>2. stale => pc = "drop" \/ ops[o] = "disabled"
      BY <1>2, <1>3, <1>6, <1>7
    <2>3. QED  BY <1>5, <2>1, <2>2 DEF JobFits, OnCookie
  <1> HIDE DEF j
  <1>11. QED  BY <1>1, <1>8, <1>9, <1>10, KeepsStill

LEMMA RequestKeeps ==
    ASSUME ConsoleInv, UNCHANGED <<phase, console>>, Serving
    PROVE  ConsoleInv'
  <1>1. PICK r \in Reqs :
           \/ \E o \in Operators : BeginSetup(r, o) \/ BeginLogin(r, o)
           \/ Claim(r)
           \/ Consume(r) \/ Verified(r) \/ ReadOperator(r) \/ Handle(r)
           \/ \E k \in Cookies : OpenSession(r, k) \/ ReadSession(r, k)
           \/ Drop(r) \/ Logout(r)
           \/ Touch(r)
    BY DEF Serving
  <1>2. CASE \E o \in Operators : BeginSetup(r, o) \/ BeginLogin(r, o)
    BY <1>2, BeginKeeps
  <1>3. CASE Claim(r)
    BY <1>3, ClaimKeeps
  <1>4. CASE Consume(r) \/ Verified(r) \/ ReadOperator(r) \/ Handle(r)
    BY <1>4, StillKeeps
  <1>5. CASE \E k \in Cookies : OpenSession(r, k) \/ ReadSession(r, k)
    BY <1>5, OpenKeeps, ReadKeeps
  <1>6. CASE Drop(r) \/ Logout(r)
    BY <1>6, EndKeeps
  <1>7. CASE Touch(r)
    BY <1>7, TouchKeeps
  <1>8. QED  BY <1>1, <1>2, <1>3, <1>4, <1>5, <1>6, <1>7

(* Disabling by hand: a request that was let in before runs on.            *)
LEMMA DisableKeeps ==
    ASSUME ConsoleInv, UNCHANGED <<phase, console>>, NEW o \in Operators, Disable(o)
    PROVE  ConsoleInv'
  <1>1. /\ ops[o] = "active" /\ ops' = [ops EXCEPT ![o] = "disabled"]
        /\ UNCHANGED <<setup, rows, req, closed>>
    BY DEF Disable
  <1>2. Existing' = Existing
    BY <1>1 DEF Existing, ConsoleInv, ConsoleTyped
  <1>3. Onward
    BY <1>1, <1>2 DEF Onward, HasRow, ConsoleInv, ConsoleTyped
  <1>4. JobsFit'
    <2>1. SUFFICES ASSUME NEW r \in Reqs  PROVE JobFits(req[r])'
      BY DEF JobsFit
    <2>2. PICK j \in JobType : j = req[r]
      BY DEF ConsoleInv, ConsoleTyped
    <2>3. JobFits(j)'
      BY <1>3, <2>2, JobStays DEF ConsoleInv, JobsFit
    <2>4. QED  BY <1>1, <2>2, <2>3 DEF JobFits
  <1>5. ConsoleTyped'
    BY <1>1 DEF ConsoleInv, ConsoleTyped
  <1>6. RowsFine' /\ OneOperator' /\ SetupThere'
    BY <1>1, <1>2 DEF ConsoleInv, RowsFine, ClosedEnded, RowsBounded, HasRow, OneOperator, SetupThere
  <1>7. QED  BY <1>4, <1>5, <1>6 DEF ConsoleInv

(* Time passes for a row and for the expiry that a request will write into *)
(* it alike.                                                               *)
LEMMA PassKeeps ==
    ASSUME ConsoleInv, UNCHANGED <<phase, console>>, Pass
    PROVE  ConsoleInv'
  <1>1. /\ rows' = [k \in Cookies |->
                       IF HasRow(k) THEN [rows[k] EXCEPT !.absolute = Less(@), !.idle = Less(@)]
                                    ELSE rows[k]]
        /\ req' = [r \in Reqs |-> [req[r] EXCEPT !.next = Less(@)]]
        /\ UNCHANGED <<setup, ops, closed>>
    BY DEF Pass
  <1>2. \A n \in Nat : Less(n) \in Nat
    BY DEF Less
  <1>3. \A m, n \in Nat : m <= n => Less(m) <= Less(n)
    BY DEF Less
  <1>4. ASSUME NEW k \in Cookies
        PROVE  /\ rows'[k] \in RowType \cup {Unused, Ended}
               /\ HasRow(k) => /\ rows[k] \in RowType /\ rows'[k] \in RowType
                               /\ rows'[k].absolute = Less(rows[k].absolute)
                               /\ rows'[k].idle = Less(rows[k].idle)
               /\ ~HasRow(k) => rows'[k] = rows[k]
    <2>1. CASE ~HasRow(k)
      BY <1>1, <2>1 DEF ConsoleInv, ConsoleTyped
    <2>2. CASE HasRow(k)
      <3>1. rows[k] \in RowType
        BY <2>2 DEF HasRow, ConsoleInv, ConsoleTyped
      <3>2. rows'[k] = [rows[k] EXCEPT !.absolute = Less(@), !.idle = Less(@)]
        BY <1>1, <2>2
      <3>3. QED  BY <1>2, <2>2, <3>1, <3>2 DEF RowType
    <2>3. QED  BY <2>1, <2>2
  <1>5. \A k \in Cookies : HasRow(k)' <=> HasRow(k)
    BY <1>4, SessionAssumption DEF HasRow, RowType
  <1>6. rows' \in [Cookies -> RowType \cup {Unused, Ended}]
    BY <1>1, <1>4
  <1>7. ASSUME NEW r \in Reqs
        PROVE  /\ req'[r] \in JobType /\ req'[r].next = Less(req[r].next)
               /\ req'[r].pc = req[r].pc /\ req'[r].op = req[r].op
               /\ req'[r].cookie = req[r].cookie /\ req'[r].stale = req[r].stale
    <2>1. PICK j \in JobType : j = req[r]
      BY DEF ConsoleInv, ConsoleTyped
    <2>2. req'[r] = [j EXCEPT !.next = Less(@)]
      BY <1>1, <2>1
    <2>3. Less(j.next) \in Nat
      BY <1>2 DEF JobType
    <2>4. QED  BY <2>1, <2>2, <2>3 DEF JobType
  <1>8. JobsFit'
    <2>1. SUFFICES ASSUME NEW r \in Reqs  PROVE JobFits(req[r])'
      BY DEF JobsFit
    <2>2. JobFits(req[r]) /\ req[r] \in JobType
      BY DEF ConsoleInv, JobsFit, ConsoleTyped
    <2>3. Existing' = Existing
      BY <1>1 DEF Existing
    <2>4. req[r].pc \in OnCookie => rows'[req[r].cookie] # Unused
      <3>1. SUFFICES ASSUME req[r].pc \in OnCookie  PROVE rows'[req[r].cookie] # Unused
        OBVIOUS
      <3>2. req[r].cookie \in Cookies /\ rows[req[r].cookie] # Unused
        BY <2>2, <3>1 DEF JobFits
      <3>3. QED  BY <1>4, <1>5, <3>2 DEF HasRow
    <2>5. req[r].pc \in {"operator", "touch"} /\ HasRow(req[r].cookie)' =>
             Less(req[r].next) <= rows'[req[r].cookie].absolute
      <3>1. SUFFICES ASSUME req[r].pc \in {"operator", "touch"}, HasRow(req[r].cookie)'
                     PROVE  Less(req[r].next) <= rows'[req[r].cookie].absolute
        OBVIOUS
      <3>2. req[r].cookie \in Cookies /\ HasRow(req[r].cookie)
        BY <1>5, <1>7, <2>2, <3>1 DEF JobFits, OnCookie
      <3>3. /\ req[r].next <= rows[req[r].cookie].absolute
            /\ req[r].next \in Nat /\ rows[req[r].cookie].absolute \in Nat
        BY <1>4, <2>2, <3>1, <3>2 DEF JobFits, JobType, RowType
      <3>4. QED  BY <1>3, <1>4, <3>2, <3>3
    <2>6. QED
      <3> USE <1>1, <1>7, <2>2, <2>3, <2>4, <2>5
      <3>1. /\ req'[r].pc \in {"hash", "consume", "verify", "session"} \cup OnCookie => req'[r].op \in Operators
            /\ req'[r].pc = "consume" => Existing' # {}
            /\ req'[r].pc \in OnCookie => req'[r].cookie \in Cookies /\ rows'[req'[r].cookie] # Unused
        BY DEF JobFits
      <3>2. req'[r].pc \in {"operator", "touch"} /\ HasRow(req[r].cookie)' =>
               req'[r].next <= rows'[req'[r].cookie].absolute
        OBVIOUS
      <3>3. req'[r].stale => \/ req'[r].pc \notin {"operator", "touch", "granted"}
                             \/ req'[r].pc = "operator" /\ ops'[req'[r].op] = "disabled"
        BY DEF JobFits
      <3>4. QED  BY <3>1, <3>2, <3>3 DEF JobFits, HasRow
  <1>9. RowsFine'
    <2>1. ClosedEnded'
      BY <1>1, <1>4 DEF ConsoleInv, ConsoleTyped, RowsFine, ClosedEnded, HasRow
    <2>2. RowsBounded'
      <3>1. SUFFICES ASSUME NEW k \in Cookies, HasRow(k)'  PROVE rows'[k].idle <= rows'[k].absolute
        BY DEF RowsBounded
      <3>2. HasRow(k) /\ rows[k].idle <= rows[k].absolute
            /\ rows[k].idle \in Nat /\ rows[k].absolute \in Nat
        BY <1>4, <1>5, <3>1 DEF ConsoleInv, RowsFine, RowsBounded, RowType
      <3>3. QED  BY <1>3, <1>4, <3>2
    <2>3. QED  BY <2>1, <2>2 DEF RowsFine
  <1>10. OneOperator' /\ SetupThere'
    BY <1>1 DEF ConsoleInv, OneOperator, SetupThere, Existing
  <1>11. ConsoleTyped'
    <2>1. req' \in [Reqs -> JobType]
      BY <1>1, <1>7
    <2>2. QED  BY <1>1, <1>6, <2>1 DEF ConsoleInv, ConsoleTyped
  <1>12. QED  BY <1>8, <1>9, <1>10, <1>11 DEF ConsoleInv

-----------------------------------------------------------------------------
(* The process: what it does to the sessions is at most to lose the        *)
(* requests.                                                               *)
LEMMA ProcessKeeps ==
    ASSUME ConsoleInv, UNCHANGED <<ops, rows, closed>>,
           req' = req \/ req' = [r \in Reqs |-> NoJob],
           SetupThere'
    PROVE  ConsoleInv'
  <1>1. Onward
    BY DEF Onward, Existing, HasRow
  <1>2. ASSUME NEW r \in Reqs
        PROVE  req'[r] \in JobType /\ JobFits(req[r])'
    <2>1. PICK j \in JobType : j = req'[r] /\ JobFits(j)'
      <3>1. CASE req' = [q \in Reqs |-> NoJob]
        BY <3>1, NoJobFits
      <3>2. CASE req' = req
        <4>1. PICK j \in JobType : j = req[r] /\ JobFits(j)
          BY DEF ConsoleInv, ConsoleTyped, JobsFit
        <4>2. QED  BY <1>1, <3>2, <4>1, JobStays
      <3>3. QED  BY <3>1, <3>2
    <2>2. QED  BY <2>1 DEF JobFits
  <1>3. JobsFit'
    BY <1>2 DEF JobsFit
  <1>4. ConsoleTyped'
    <2>1. req' \in [Reqs -> JobType]
      BY NoJobFits DEF ConsoleInv, ConsoleTyped
    <2>2. QED  BY <2>1 DEF ConsoleInv, ConsoleTyped
  <1>5. RowsFine' /\ OneOperator'
    BY DEF ConsoleInv, RowsFine, ClosedEnded, RowsBounded, HasRow, OneOperator, Existing
  <1>6. QED  BY <1>3, <1>4, <1>5 DEF ConsoleInv

IInv == BootInv /\ ConsoleInv

LEMMA InvInit ==
    ASSUME Init
    PROVE  IInv
  <1>1. BootInv
    BY BootAssumption DEF Init, BootInit, BootInv, BootTyped, MintOnce, Peppered, HandedOut, HandsSecretOut,
       RefusesForCause, Minting, Started
  <1>2. ConsoleTyped /\ JobsFit
    <2>1. NoJob \in JobType /\ NoJob.pc = "idle" /\ ~NoJob.stale
      BY DEF NoJob, Job, JobType
    <2>2. JobsFit
      BY <2>1 DEF Init, ConsoleInit, JobsFit, JobFits, OnCookie
    <2>3. QED  BY <2>1, <2>2 DEF Init, ConsoleInit, ConsoleTyped
  <1>3. RowsFine
    BY DEF Init, ConsoleInit, RowsFine, ClosedEnded, RowsBounded, HasRow
  <1>4. OneOperator
    <2>1. Existing = {}
      BY DEF Init, ConsoleInit, Existing
    <2>2. Cardinality(Existing) = 0
      BY <2>1, FS_EmptySet
    <2>3. QED  BY <2>2 DEF OneOperator
  <1>5. SetupThere
    BY DEF Init, BootInit, SetupThere
  <1>6. QED  BY <1>1, <1>2, <1>3, <1>4, <1>5 DEF IInv, ConsoleInv

LEMMA InvNext ==
    ASSUME IInv, [Next]_vars
    PROVE  IInv'
  <1> USE DEF IInv
  <1>1. CASE Boot
    <2>1. BootInv'
      BY <1>1, StartKeeps, PepperKeeps, StoreKeeps, MintKeeps DEF Boot, BootSteps
    <2>2. phase' \notin {"transport", "up"}
      BY <1>1 DEF Boot, BootSteps, Start, LoadPepper, OpenStore, CheckState, Mint, MakeSpace,
         WriteSecret, WriteMarker, Go, Refuse
    <2>3. UNCHANGED consoleVars
      BY <1>1 DEF Boot
    <2>4. QED  BY <2>1, <2>2, <2>3, ProcessKeeps DEF SetupThere, consoleVars
  <1>2. CASE Listen
    <2>1. BootInv'
      BY <1>2, BootQuietKeeps DEF Listen, To, Go, diskVars, BootQuiet
    <2>2. SetupThere' /\ UNCHANGED consoleVars
      BY <1>2 DEF Listen, To, Go, SetupThere
    <2>3. QED  BY <2>1, <2>2, ProcessKeeps DEF consoleVars
  <1>3. CASE NeedsSetup
    <2>1. BootInv'
      BY <1>3, BootQuietKeeps DEF NeedsSetup, To, Go, diskVars, BootQuiet
    <2>2. SetupThere' /\ UNCHANGED consoleVars
      BY <1>3 DEF NeedsSetup, To, Go, SetupThere, consoleVars, Existing
    <2>3. QED  BY <2>1, <2>2, ProcessKeeps DEF consoleVars
  <1>4. CASE Ensure
    <2>1. BootInv'
      BY <1>4, BootQuietKeeps DEF Ensure, To, Go, diskVars, BootQuiet
    <2>2. setup' # Missing
      BY <1>4, SessionAssumption DEF Ensure, EnsureToken
    <2>3. QED  BY <1>4, <2>1, <2>2, ProcessKeeps DEF Ensure, EnsureToken, SetupThere
  <1>5. CASE Request
    <2>1. BootInv' /\ UNCHANGED <<phase, console>>
      BY <1>5, BootQuietKeeps DEF Request, bootVars, BootQuiet
    <2>2. QED  BY <1>5, <2>1, RequestKeeps DEF Request
  <1>6. ASSUME NEW r \in Reqs, Clear(r)  PROVE IInv'
    <2>1. BootInv'
      BY <1>6, FirstKeeps DEF Clear
    <2>2. /\ UNCHANGED <<ops, rows, closed, phase, console>> /\ setup' = setup
          /\ req' = [req EXCEPT ![r] = NoJob]
      BY <1>6 DEF Clear, DeleteFirst, Over
    <2>3. NoJob \in JobType /\ JobFits(NoJob)
      BY DEF NoJob, Job, JobType, JobFits, OnCookie
    <2>4. QED  BY <2>1, <2>2, <2>3, KeepsStill
  <1>7. CASE Revoke
    <2>1. BootInv'
      BY <1>7, FirstKeeps DEF Revoke
    <2>2. UNCHANGED <<consoleVars, phase, console>>
      BY <1>7 DEF Revoke, RevokeFirst
    <2>3. SetupThere'
      BY <2>2 DEF consoleVars, SetupThere, Existing, ConsoleInv
    <2>4. QED  BY <2>1, <2>2, <2>3, ProcessKeeps DEF consoleVars
  <1>8. CASE Transport
    <2>1. phase = "transport" /\ phase' \in {"up", "down"} /\ env' = None
          /\ UNCHANGED <<diskVars, key, cut, crashes>>
      BY <1>8 DEF Transport, Serve, Go
    <2>2. BootInv'
      BY <2>1, BootQuietKeeps
    <2>3. /\ UNCHANGED <<ops, rows, closed, setup>>
          /\ req' = req \/ req' = [r \in Reqs |-> NoJob]
          /\ console' => phase' = "up" /\ console
      BY <1>8 DEF Transport, Stopped
    <2>4. SetupThere'
      BY <2>1, <2>3 DEF SetupThere, Existing, ConsoleInv
    <2>5. QED  BY <2>2, <2>3, <2>4, ProcessKeeps
  <1>9. CASE Crash
    <2>1. BootInv' /\ phase' = "down"
      BY <1>9, DieKeeps DEF Crash, Die, Go
    <2>2. /\ UNCHANGED <<ops, rows, closed>>
          /\ req' = [r \in Reqs |-> NoJob]
      BY <1>9, <2>1 DEF Crash, Stopped
    <2>3. QED  BY <2>1, <2>2, ProcessKeeps DEF SetupThere
  <1>10. CASE Time
    <2>1. BootInv' /\ UNCHANGED <<phase, console>>
      BY <1>10, BootQuietKeeps DEF Time, bootVars, BootQuiet
    <2>2. QED  BY <1>10, <2>1, PassKeeps DEF Time
  <1>11. CASE ByHand
    <2>1. BootInv' /\ UNCHANGED <<phase, console>>
      BY <1>11, BootQuietKeeps DEF ByHand, bootVars, BootQuiet
    <2>2. QED  BY <1>11, <2>1, DisableKeeps DEF ByHand
  <1>12. CASE UNCHANGED vars
    <2>1. BootInv'
      BY <1>12, BootQuietKeeps DEF vars, bootVars, BootQuiet
    <2>2. UNCHANGED <<consoleVars, phase, console>>
      BY <1>12 DEF vars, bootVars
    <2>3. SetupThere'
      BY <2>2 DEF consoleVars, SetupThere, Existing, ConsoleInv
    <2>4. QED  BY <2>1, <2>2, <2>3, ProcessKeeps DEF consoleVars
  <1>13. QED
    BY <1>1, <1>2, <1>3, <1>4, <1>5, <1>6, <1>7, <1>8, <1>9, <1>10, <1>11, <1>12 DEF Next

LEMMA Invariance == Spec => []IInv
  <1>1. Init => IInv
    BY InvInit
  <1>2. IInv /\ [Next]_vars => IInv'
    BY InvNext
  <1>3. QED  BY <1>1, <1>2, PTL DEF Spec

-----------------------------------------------------------------------------
(* Starts that follow any number of crashes refuse only for a cause and    *)
(* work with the pepper the first token was hashed under.  They hand out   *)
(* the secret of the token they mint, and make its namespace, but for one  *)
(* case: a start that died between the mint and the secret loses what it   *)
(* had not written (bootstrap.ts, pepper.ts).                              *)
THEOREM Starts == Spec => []BootSurvives
  <1>1. ASSUME IInv  PROVE BootSurvives
    <2>1. RefusesForCause
      BY <1>1 DEF IInv, BootInv
    <2>2. KeepsItsPepper
      BY <1>1 DEF IInv, BootInv, BootTyped, Minting, Started, Peppered, KeepsItsPepper, NoTokens
    <2>3. HandsSecretOut
      BY <1>1 DEF IInv, BootInv, HandedOut
    <2>4. QED  BY <2>1, <2>2, <2>3 DEF BootSurvives
  <1>2. QED  BY <1>1, Invariance, PTL

(* Whatever requests and starts race, the setup makes one operator, and a  *)
(* console that is up without one has a setup token or the empty file of a *)
(* crash (setup-token.ts, operator-store.ts).                              *)
THEOREM Setup == Spec => []SetupOpensOnce
  <1>1. IInv => SetupOpensOnce
    BY DEF IInv, ConsoleInv, OneOperator, SetupThere, SetupOpensOnce
  <1>2. QED  BY <1>1, Invariance, PTL

(* No request is let in under a session that was over when it came, and no *)
(* row is good for longer than its absolute expiry (session-service.ts,    *)
(* session-store.ts).                                                      *)
THEOREM EndedSessions == Spec => []EndedStaysEnded
  <1>1. ASSUME IInv  PROVE EndedStaysEnded
    <2>1. ASSUME NEW r \in Reqs, At(r, "granted")  PROVE ~req[r].stale
      BY <1>1, <2>1 DEF IInv, ConsoleInv, JobsFit, JobFits, At
    <2>2. QED  BY <1>1, <2>1 DEF IInv, ConsoleInv, RowsFine, RowsBounded, EndedStaysEnded
  <1>2. QED  BY <1>1, Invariance, PTL
=============================================================================
