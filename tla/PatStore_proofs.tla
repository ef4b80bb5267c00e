--------------------------- MODULE PatStore_proofs ---------------------------
(***************************************************************************)
(* Proofs about PatStore for any tokens, calls and bounds.                 *)
(***************************************************************************)
EXTENDS PatStore, TLAPS

Unborn  == {"idle", "queued", "appending", "persisted"}   \* c is no token yet
Inside  == {"appending", "persisted"}                     \* between the two sections
Joined  == {"queued", "appending", "persisted"}
Mints   == {"mint", "rotate"}
Gone    == {"revoked", "deleted"}

(* Only the head of the chain is between its two synchronous sections.     *)
HeadInside ==
    \A c \in Calls : call[c].at \in Inside => up /\ queue # <<>> /\ Head(queue) = c

(* Without a running store there is nothing in memory.                     *)
DownIsEmpty ==
    ~ up => \A p \in Pats : byId[p] = "absent" /\ cache[p] = NoEntry

(* The cache repeats the index, and holds only indexed tokens.             *)
CacheRepeatsIndex ==
    \A p \in Pats :
        cache[p] # NoEntry => cache[p].status = byId[p] /\ byId[p] # "absent"

(* The log may be ahead of the index, by an append that was reported as    *)
(* failed or by another process, but never behind it.                      *)
LogAhead ==
    \A p \in Pats :
        /\ byId[p] = "revoked" => disk[p] \in Gone
        /\ byId[p] = "active"  => disk[p] \in {"active", "revoked"}

(* The token a call mints exists nowhere before the append.                *)
FreshIds ==
    \A c \in Calls : call[c].at \in Unborn =>
        /\ byId[c] = "absent"
        /\ c \notin ended
        /\ call[c].at # "persisted" => disk[c] = "absent"

(* What a call in the chain knows of its target.                           *)
Targets ==
    \A c \in Calls :
        /\ call[c].at \in Joined /\ call[c].op # "mint" =>
              /\ call[c].target \in Pats
              /\ call[c].target # c
              /\ disk[call[c].target] # "absent"
        /\ call[c].at = "idle" \/ call[c].op = "mint" => call[c].target = Nobody
        /\ call[c].at \in Inside /\ call[c].op \in {"rotate", "revoke"} =>
              byId[call[c].target] = "active"
        /\ call[c].at \in Inside /\ call[c].op = "delete" =>
              byId[call[c].target] = "revoked"

(* What the log says once the lines of a call are in it.                   *)
AppendedLines ==
    \A c \in Calls : call[c].at = "persisted" =>
        /\ call[c].op \in Mints =>
              disk[c] = "active" \/ (disk[c] = "revoked" /\ outside[c] # Never)
        /\ call[c].op # "mint" => disk[call[c].target] \in Gone

EndedStay == \A p \in ended : disk[p] \in Gone /\ byId[p] # "active"

HeirsEnded == \A r \in heirs : r[1] \in ended

IssuedStay ==
    \A p \in issued : ~ Ending(p) => disk[p] = "active" /\ (up => byId[p] = "active")

IInv ==
    /\ TypeOK /\ HeadInside /\ DownIsEmpty /\ CacheRepeatsIndex /\ LogAhead
    /\ FreshIds /\ Targets /\ AppendedLines /\ EndedStay
    /\ HeirsEnded /\ OneHeir /\ IssuedStay

-----------------------------------------------------------------------------
LEMMA InitIInv == Init => IInv
<1> SUFFICES ASSUME Init PROVE IInv
  OBVIOUS
<1> USE TokensAssumption DEF Init
<1>1. \A p \in Pats : disk[p] \in {"absent", "active"} /\ byId[p] = disk[p]
  BY DEF Load
<1>2. TypeOK
  <2>1. disk \in [Pats -> Statuses] /\ byId \in [Pats -> Indexed]
    BY <1>1 DEF Load, Statuses, Indexed
  <2>2. NoEntry \in Entries
    BY DEF NoEntry, Entries, Indexed
  <2>3. [op |-> "mint", target |-> Nobody, at |-> "idle"] \in CallState
    BY DEF CallState, Ops, Phases
  <2>4. queue \in Seq(Calls) /\ heirs \subseteq Pats \X Pats
    OBVIOUS
  <2>5. issued \subseteq Pats /\ ended \subseteq Pats
    BY DEF Pats
  <2>6. outside \in [Pats -> Nat \cup {Never}]
    OBVIOUS
  <2> QED
    BY <2>1, <2>2, <2>3, <2>4, <2>5, <2>6 DEF TypeOK
<1>3. HeadInside /\ DownIsEmpty /\ Targets /\ AppendedLines /\ HeirsEnded /\ OneHeir
  BY DEF HeadInside, DownIsEmpty, Targets, AppendedLines, HeirsEnded, OneHeir, Inside,
     Joined, Pats
<1>4. CacheRepeatsIndex /\ LogAhead /\ EndedStay
  BY <1>1 DEF CacheRepeatsIndex, LogAhead, EndedStay, Load, NoEntry
<1>5. FreshIds
  BY <1>1 DEF FreshIds, Pats
<1>6. IssuedStay
  BY <1>1 DEF IssuedStay, Pats
<1> QED
  BY <1>2, <1>3, <1>4, <1>5, <1>6 DEF IInv

-----------------------------------------------------------------------------
(* A call moves on and the others stay where they are.                     *)
LEMMA GotoMoves ==
    ASSUME TypeOK, NEW c \in Calls, NEW phase \in Phases, Goto(c, phase)
    PROVE  /\ call' \in [Calls -> CallState]
           /\ call'[c].at = phase
           /\ \A d \in Calls : /\ call'[d].op = call[d].op
                               /\ call'[d].target = call[d].target
                               /\ d # c => call'[d].at = call[d].at
BY DEF TypeOK, Goto, CallState

(* A released chain is a chain.                                            *)
LEMMA ReleaseType ==
    ASSUME TypeOK, NEW c \in Calls, Running(c), Release(c)
    PROVE  queue' \in Seq(Calls)
BY DEF TypeOK, Running, Release

(* When the head runs, no other call is between its sections.              *)
LEMMA OnlyHeadInside ==
    ASSUME HeadInside, NEW c \in Calls, Running(c)
    PROVE  \A d \in Calls : call[d].at \in Inside => d = c
BY DEF HeadInside, Running

(* Whether someone asked for the end of a token only ever becomes true.    *)
LEMMA EndingStays ==
    ASSUME NEW p \in Pats, Ending(p),
           \A c \in Calls : call[c].op \in {"rotate", "revoke"} =>
               call'[c].op = call[c].op /\ call'[c].target = call[c].target,
           outside[p] # Never => outside'[p] # Never
    PROVE  Ending(p)'
BY DEF Ending

LEMMA LookupStep == ASSUME IInv, NEW p \in Pats, Lookup(p) PROVE IInv'
<1>1. cache' \in [Pats -> Entries]
      /\ \A q \in Pats : cache'[q] # NoEntry =>
            cache'[q].status = byId[q] /\ byId[q] # "absent"
  <2>1. now + CacheTtl \in Nat
    BY BoundsAssumption DEF IInv, TypeOK
  <2>2. NoEntry \in Entries
    BY DEF NoEntry, Entries, Indexed
  <2>3. [status |-> byId[p], until |-> now + CacheTtl] \in Entries
    BY <2>1 DEF IInv, TypeOK, Entries
  <2>4. CASE byId[p] = "absent"
    BY <2>2, <2>4 DEF Lookup, IInv, TypeOK, CacheRepeatsIndex
  <2>5. CASE byId[p] # "absent"
    BY <2>3, <2>5 DEF Lookup, IInv, TypeOK, CacheRepeatsIndex
  <2> QED
    BY <2>4, <2>5
<1>2. up /\ UNCHANGED <<now, up, disk, torn, byId, queue, call, crashes, history>>
  BY DEF Lookup
<1> QED
  BY <1>1, <1>2 DEF IInv, TypeOK, HeadInside, DownIsEmpty, CacheRepeatsIndex, LogAhead,
     FreshIds, Targets, AppendedLines, EndedStay, HeirsEnded, OneHeir, IssuedStay, Ending,
     history

LEMMA RequestStep == ASSUME IInv, NEW c \in Calls, Request(c) PROVE IInv'
<1> USE DEF Request
<1>1. PICK op \in Ops, t \in Pats \cup {Nobody} :
         /\ (op = "mint") = (t = Nobody)
         /\ op # "mint" => byId[t] # "absent"
         /\ call' = [call EXCEPT ![c] = [op |-> op, target |-> t, at |-> "queued"]]
  OBVIOUS
<1>2. /\ call' \in [Calls -> CallState]
      /\ call'[c].at = "queued" /\ call'[c].op = op /\ call'[c].target = t
      /\ \A d \in Calls : d # c => call'[d] = call[d]
  <2>1. [op |-> op, target |-> t, at |-> "queued"] \in CallState
    BY DEF CallState, Phases
  <2> QED
    BY <1>1, <2>1 DEF IInv, TypeOK
<1>3. call[c].at = "idle" /\ byId[c] = "absent" /\ disk[c] = "absent" /\ c \notin ended
  BY DEF IInv, FreshIds, Unborn
<1>4. c \in Pats /\ (op # "mint" => t \in Pats /\ t # c /\ disk[t] # "absent")
  BY <1>1, <1>3, TokensAssumption DEF IInv, LogAhead, Pats, TypeOK, Indexed, Gone
<1>5. queue' \in Seq(Calls) /\ (queue # <<>> => queue' # <<>> /\ Head(queue') = Head(queue))
  BY DEF IInv, TypeOK
<1>6. UNCHANGED <<now, up, disk, torn, byId, cache, crashes, history>>
  OBVIOUS
<1>7. TypeOK'
  BY <1>2, <1>5, <1>6 DEF IInv, TypeOK, history
<1>8. HeadInside' /\ DownIsEmpty' /\ CacheRepeatsIndex' /\ LogAhead'
  BY <1>2, <1>5, <1>6 DEF IInv, HeadInside, DownIsEmpty, CacheRepeatsIndex, LogAhead, Inside
<1>9. FreshIds'
  BY <1>2, <1>3, <1>6 DEF IInv, FreshIds, Unborn, history
<1>10. Targets'
  BY <1>1, <1>2, <1>4, <1>6 DEF IInv, Targets, Joined, Inside
<1>11. AppendedLines' /\ EndedStay' /\ HeirsEnded' /\ OneHeir'
  BY <1>2, <1>6 DEF IInv, AppendedLines, EndedStay, HeirsEnded, OneHeir, history
<1>12. IssuedStay'
  <2>1. \A p \in Pats : Ending(p) => Ending(p)'
    <3>1. call[c].target = Nobody /\ Nobody \notin Pats
      BY <1>3, TokensAssumption DEF IInv, Targets
    <3> QED
      BY <1>2, <1>6, <3>1 DEF Ending, history
  <2> QED
    BY <1>6, <2>1 DEF IInv, IssuedStay, TypeOK, history
<1> QED
  BY <1>7, <1>8, <1>9, <1>10, <1>11, <1>12 DEF IInv

LEMMA BeginStep == ASSUME IInv, NEW c \in Calls, Begin(c) PROVE IInv'
<1> USE DEF Begin
<1>1. /\ call' \in [Calls -> CallState]
      /\ call'[c].at = "appending"
      /\ \A d \in Calls : /\ call'[d].op = call[d].op
                          /\ call'[d].target = call[d].target
                          /\ d # c => call'[d].at = call[d].at
  BY GotoMoves DEF IInv, Phases
<1>2. UNCHANGED <<now, up, disk, torn, byId, cache, queue, crashes, history>>
  OBVIOUS
<1>3. call[c].at = "queued" /\ up /\ queue # <<>> /\ Head(queue) = c
  BY DEF Running
<1>4. /\ call[c].op \in {"rotate", "revoke"} => byId[call[c].target] = "active"
      /\ call[c].op = "delete" => byId[call[c].target] = "revoked"
  BY DEF Allowed
<1>5. TypeOK'
  BY <1>1, <1>2 DEF IInv, TypeOK, history
<1>6. HeadInside' /\ DownIsEmpty' /\ CacheRepeatsIndex' /\ LogAhead'
  BY <1>1, <1>2, <1>3 DEF IInv, HeadInside, DownIsEmpty, CacheRepeatsIndex, LogAhead, Inside
<1>7. FreshIds' /\ AppendedLines' /\ EndedStay' /\ HeirsEnded' /\ OneHeir'
  BY <1>1, <1>2, <1>3 DEF IInv, FreshIds, Unborn, AppendedLines, EndedStay, HeirsEnded,
     OneHeir, history
<1>8. Targets'
  BY <1>1, <1>2, <1>3, <1>4 DEF IInv, Targets, Joined, Inside
<1>9. IssuedStay'
  BY <1>1, <1>2 DEF IInv, IssuedStay, Ending, history
<1> QED
  BY <1>5, <1>6, <1>7, <1>8, <1>9 DEF IInv

LEMMA RefuseStep == ASSUME IInv, NEW c \in Calls, Refuse(c) PROVE IInv'
<1> USE DEF Refuse
<1>0. PICK phase \in {"done", "failed"} : Goto(c, phase)
  OBVIOUS
<1>1. /\ call' \in [Calls -> CallState]
      /\ call'[c].at = phase
      /\ \A d \in Calls : /\ call'[d].op = call[d].op
                          /\ call'[d].target = call[d].target
                          /\ d # c => call'[d].at = call[d].at
  BY <1>0, GotoMoves DEF IInv, Phases
<1>2. UNCHANGED <<now, up, disk, torn, byId, cache, crashes, issued, heirs, outside>>
  OBVIOUS
<1>3. call[c].at = "queued" /\ queue' \in Seq(Calls)
      /\ \A d \in Calls : call[d].at \notin Inside
  BY ReleaseType, OnlyHeadInside DEF IInv, Inside
<1>4. PICK new \in SUBSET Pats :
         ended' = ended \cup new /\ \A p \in new : byId[p] = "revoked"
  <2>1. CASE call[c].op = "revoke" /\ byId[call[c].target] = "revoked"
    <3>1. call[c].target \in Pats
      BY <1>3, <2>1 DEF IInv, Targets, Joined
    <3>2. {call[c].target} \in SUBSET Pats /\ ended' = ended \cup {call[c].target}
      BY <2>1, <3>1
    <3> QED
      BY <2>1, <3>2
  <2>2. CASE ~ (call[c].op = "revoke" /\ byId[call[c].target] = "revoked")
    <3>1. {} \in SUBSET Pats /\ ended' = ended \cup {}
      BY <2>2
    <3> QED
      BY <3>1
  <2> QED
    BY <2>1, <2>2
<1>5. TypeOK'
  BY <1>1, <1>2, <1>3, <1>4 DEF IInv, TypeOK
<1>6. HeadInside' /\ DownIsEmpty' /\ CacheRepeatsIndex' /\ LogAhead'
  BY <1>0, <1>1, <1>2, <1>3 DEF IInv, HeadInside, DownIsEmpty, CacheRepeatsIndex, LogAhead,
     Inside
<1>7. FreshIds'
  BY <1>0, <1>1, <1>2, <1>4 DEF IInv, FreshIds, Unborn
<1>8. Targets'
  BY <1>0, <1>1, <1>2, <1>3 DEF IInv, Targets, Joined, Inside
<1>9. AppendedLines' /\ HeirsEnded' /\ OneHeir'
  BY <1>0, <1>1, <1>2, <1>4 DEF IInv, AppendedLines, HeirsEnded, OneHeir
<1>10. EndedStay'
  BY <1>2, <1>4 DEF IInv, EndedStay, LogAhead
<1>11. IssuedStay'
  BY <1>1, <1>2 DEF IInv, IssuedStay, Ending
<1> QED
  BY <1>5, <1>6, <1>7, <1>8, <1>9, <1>10, <1>11 DEF IInv

(* An append, whole or in part, of a call between its sections: it touches *)
(* the new token and the target, and brings nothing back.                  *)
LEMMA AppendEffect ==
    ASSUME IInv, NEW c \in Calls, call[c].at = "appending", NEW n \in 0..Lines(c)
    PROVE  /\ Appended(c, n) \in [Pats -> Statuses]
           /\ \A p \in Pats :
                 /\ disk[p] \in Gone => Appended(c, n)[p] \in Gone
                 /\ disk[p] # "absent" => Appended(c, n)[p] # "absent"
                 /\ disk[p] = "absent" /\ p # c => Appended(c, n)[p] = "absent"
                 /\ byId[p] = "active" => Appended(c, n)[p] \in {"active", "revoked"}
                 /\ p \in issued /\ ~ Ending(p) => Appended(c, n)[p] = disk[p]
           /\ n = Lines(c) =>
                 /\ call[c].op \in Mints => Appended(c, n)[c] = "active"
                 /\ call[c].op # "mint" => Appended(c, n)[call[c].target] \in Gone
<1> DEFINE t == call[c].target
           op == call[c].op
           new == op \in {"mint", "rotate"} /\ n >= 1
           end == IF op = "rotate" THEN n = 2 ELSE op # "mint" /\ n = 1
<1>1. /\ op \in Ops /\ c \in Pats /\ n \in Nat
      /\ disk \in [Pats -> Statuses] /\ byId \in [Pats -> Indexed]
  BY DEF IInv, TypeOK, CallState, Pats, Lines
<1>2. disk[c] = "absent" /\ byId[c] = "absent"
  BY DEF IInv, FreshIds, Unborn
<1>3. op # "mint" => t \in Pats /\ t # c /\ disk[t] # "absent"
  BY DEF IInv, Targets, Joined
<1>4. /\ op \in {"rotate", "revoke"} => byId[t] = "active"
      /\ op = "delete" => byId[t] = "revoked"
  BY DEF IInv, Targets, Inside
<1>5. \A p \in Pats :
         Appended(c, n)[p] = IF new /\ p = c THEN "active"
                             ELSE IF end /\ p = t
                                  THEN (IF op = "delete" THEN "deleted" ELSE "revoked")
                             ELSE disk[p]
  BY DEF Appended
<1>6. end => op # "mint"
  OBVIOUS
<1>7. Appended(c, n) \in [Pats -> Statuses]
  BY <1>1 DEF Appended, Statuses
<1>8. ASSUME NEW p \in Pats
      PROVE  /\ disk[p] \in Gone => Appended(c, n)[p] \in Gone
             /\ disk[p] # "absent" => Appended(c, n)[p] # "absent"
             /\ disk[p] = "absent" /\ p # c => Appended(c, n)[p] = "absent"
             /\ byId[p] = "active" => Appended(c, n)[p] \in {"active", "revoked"}
  <2>1. CASE p = c
    BY <1>2, <1>3, <1>5, <1>6, <2>1 DEF Gone
  <2>2. CASE p # c /\ end /\ p = t
    BY <1>3, <1>4, <1>5, <1>6, <2>2 DEF Gone
  <2>3. CASE p # c /\ ~ (end /\ p = t)
    BY <1>5, <2>3 DEF IInv, LogAhead
  <2> QED
    BY <2>1, <2>2, <2>3
<1>9. ASSUME NEW p \in Pats, p \in issued, ~ Ending(p)
      PROVE  Appended(c, n)[p] = disk[p]
  <2>1. disk[p] = "active" /\ p # c
    BY <1>2, <1>9 DEF IInv, IssuedStay
  <2>2. ASSUME end, p = t PROVE FALSE
    <3>1. op = "delete"
      BY <1>1, <1>6, <1>9, <2>2 DEF Ending, Ops
    <3>2. disk[t] \in Gone
      BY <1>3, <1>4, <3>1 DEF IInv, LogAhead
    <3> QED
      BY <2>1, <2>2, <3>2 DEF Gone
  <2> QED
    BY <1>5, <2>1, <2>2
<1>10. ASSUME n = Lines(c)
       PROVE  /\ op \in Mints => Appended(c, n)[c] = "active"
              /\ op # "mint" => Appended(c, n)[t] \in Gone
  BY <1>1, <1>3, <1>5, <1>10 DEF Lines, Mints, Gone, Ops
<1> QED
  BY <1>7, <1>8, <1>9, <1>10

(* The parts of the invariant that an append keeps whatever its call does. *)
LEMMA AppendKeeps ==
    ASSUME IInv, NEW c \in Calls, call[c].at = "appending", NEW n \in 0..Lines(c),
           disk' = Appended(c, n), UNCHANGED <<up, byId, issued, ended, outside>>,
           \A d \in Calls : call'[d].op = call[d].op /\ call'[d].target = call[d].target
    PROVE  LogAhead' /\ EndedStay' /\ IssuedStay'
<1>1. LogAhead'
  BY AppendEffect DEF IInv, LogAhead
<1>2. EndedStay'
  BY AppendEffect DEF IInv, EndedStay, TypeOK
<1>3. IssuedStay'
  <2>1. \A p \in Pats : Ending(p) = Ending(p)'
    BY DEF Ending
  <2> QED
    BY <2>1, AppendEffect DEF IInv, IssuedStay, TypeOK
<1> QED
  BY <1>1, <1>2, <1>3

LEMMA PersistStep == ASSUME IInv, NEW c \in Calls, Persist(c) PROVE IInv'
<1> USE DEF Persist
<1>1. /\ call' \in [Calls -> CallState]
      /\ call'[c].at = "persisted"
      /\ \A d \in Calls : /\ call'[d].op = call[d].op
                          /\ call'[d].target = call[d].target
                          /\ d # c => call'[d].at = call[d].at
  BY GotoMoves DEF IInv, Phases
<1>2. UNCHANGED <<now, up, torn, byId, cache, queue, crashes, history>>
  OBVIOUS
<1>3. call[c].at = "appending" /\ up /\ queue # <<>> /\ Head(queue) = c
      /\ \A d \in Calls : d # c => call[d].at \notin Inside
  BY OnlyHeadInside DEF Running, IInv
<1>4. Lines(c) \in 0..Lines(c) /\ disk' = Appended(c, Lines(c))
  BY DEF Lines
<1>5. TypeOK'
  BY <1>1, <1>2, <1>3, <1>4, AppendEffect DEF IInv, TypeOK, history
<1>6. LogAhead' /\ EndedStay' /\ IssuedStay'
  BY <1>1, <1>2, <1>3, <1>4, AppendKeeps DEF history
<1>7. HeadInside' /\ DownIsEmpty' /\ CacheRepeatsIndex' /\ HeirsEnded' /\ OneHeir'
  BY <1>1, <1>2, <1>3 DEF IInv, HeadInside, DownIsEmpty, CacheRepeatsIndex, HeirsEnded,
     OneHeir, Inside, history
<1>8. FreshIds'
  BY <1>1, <1>2, <1>3, <1>4, AppendEffect DEF IInv, FreshIds, Unborn, Pats, history
<1>9. Targets'
  BY <1>1, <1>2, <1>3, <1>4, AppendEffect DEF IInv, Targets, Joined, Inside
<1>10. AppendedLines'
  BY <1>1, <1>3, <1>4, AppendEffect DEF IInv, AppendedLines, Inside
<1> QED
  BY <1>5, <1>6, <1>7, <1>8, <1>9, <1>10 DEF IInv

LEMMA AppendFailsStep == ASSUME IInv, NEW c \in Calls, AppendFails(c) PROVE IInv'
<1> USE DEF AppendFails
<1>1. /\ call' \in [Calls -> CallState]
      /\ call'[c].at = "failed"
      /\ \A d \in Calls : /\ call'[d].op = call[d].op
                          /\ call'[d].target = call[d].target
                          /\ d # c => call'[d].at = call[d].at
  BY GotoMoves DEF IInv, Phases
<1>2. UNCHANGED <<now, up, byId, cache, crashes, history>>
  OBVIOUS
<1>3. call[c].at = "appending" /\ up /\ queue' \in Seq(Calls)
      /\ \A d \in Calls : d # c => call[d].at \notin Inside
  BY OnlyHeadInside, ReleaseType DEF Running, IInv
<1>4. PICK n \in 0..Lines(c) : disk' = Appended(c, n) /\ torn' \in BOOLEAN
  BY DEF IInv, TypeOK
<1>5. TypeOK'
  BY <1>1, <1>2, <1>3, <1>4, AppendEffect DEF IInv, TypeOK, history
<1>6. LogAhead' /\ EndedStay' /\ IssuedStay'
  BY <1>1, <1>2, <1>3, <1>4, AppendKeeps DEF history
<1>7. HeadInside' /\ DownIsEmpty' /\ CacheRepeatsIndex' /\ HeirsEnded' /\ OneHeir'
  BY <1>1, <1>2, <1>3 DEF IInv, HeadInside, DownIsEmpty, CacheRepeatsIndex, HeirsEnded,
     OneHeir, Inside, history
<1>8. FreshIds'
  BY <1>1, <1>2, <1>3, <1>4, AppendEffect DEF IInv, FreshIds, Unborn, Pats, history
<1>9. Targets'
  BY <1>1, <1>2, <1>3, <1>4, AppendEffect DEF IInv, Targets, Joined, Inside
<1>10. AppendedLines'
  BY <1>1, <1>3 DEF IInv, AppendedLines, Inside
<1> QED
  BY <1>5, <1>6, <1>7, <1>8, <1>9, <1>10 DEF IInv

LEMMA FinishStep == ASSUME IInv, NEW c \in Calls, Finish(c) PROVE IInv'
<1> USE DEF Finish
<1> DEFINE t == call[c].target
           op == call[c].op
<1>1. /\ call' \in [Calls -> CallState]
      /\ call'[c].at = "done"
      /\ \A d \in Calls : /\ call'[d].op = call[d].op
                          /\ call'[d].target = call[d].target
                          /\ d # c => call'[d].at = call[d].at
  BY GotoMoves DEF IInv, Phases
<1>2. UNCHANGED <<now, up, disk, torn, crashes, outside>>
  OBVIOUS
<1>3. call[c].at = "persisted" /\ up /\ queue' \in Seq(Calls) /\ op \in Ops /\ c \in Pats
      /\ \A d \in Calls : d # c => call[d].at \notin Inside
  BY OnlyHeadInside, ReleaseType DEF Running, IInv, TypeOK, CallState, Pats
<1>4. byId[c] = "absent" /\ c \notin ended
  BY <1>3 DEF IInv, FreshIds, Unborn
<1>5. /\ op # "mint" => t \in Pats /\ t # c /\ disk[t] \in Gone
      /\ op = "mint" => t = Nobody /\ t \notin Pats
      /\ op \in Mints => disk[c] = "active" \/ (disk[c] = "revoked" /\ outside[c] # Never)
      /\ op = "rotate" => byId[t] = "active"
  BY <1>3, TokensAssumption DEF IInv, Targets, AppendedLines, Joined, Inside
<1>6. \A p \in Pats :
         byId'[p] = IF op \in Mints /\ p = c THEN "active"
                    ELSE IF p = t THEN (IF op = "delete" THEN "absent" ELSE "revoked")
                    ELSE byId[p]
  BY DEF IndexCall, Mints
<1>7. byId' \in [Pats -> Indexed]
  BY DEF IndexCall, Indexed, IInv, TypeOK
<1>8. /\ cache' \in [Pats -> Entries]
      /\ \A p \in Pats : cache'[p] = IF p = t THEN NoEntry ELSE cache[p]
  BY DEF InvalidateCacheForId, IInv, TypeOK, NoEntry, Entries, Indexed
<1>9. /\ ended' = IF op = "mint" THEN ended ELSE ended \cup {t}
      /\ issued' = IF op \in Mints THEN issued \cup {c} ELSE issued
      /\ heirs' = IF op = "rotate" THEN heirs \cup {<<t, c>>} ELSE heirs
  BY DEF Mints
<1>10. TypeOK'
  <2>1. ended' \subseteq Pats /\ issued' \subseteq Pats
    BY <1>3, <1>5, <1>9 DEF IInv, TypeOK
  <2>2. heirs' \subseteq Pats \X Pats
    <3>1. CASE op = "rotate"
      BY <1>3, <1>5, <1>9, <3>1 DEF IInv, TypeOK
    <3>2. CASE op # "rotate"
      BY <1>9, <3>2 DEF IInv, TypeOK
    <3> QED
      BY <3>1, <3>2
  <2> QED
    BY <1>1, <1>2, <1>3, <1>7, <1>8, <2>1, <2>2 DEF IInv, TypeOK
<1>11. HeadInside' /\ DownIsEmpty'
  BY <1>1, <1>2, <1>3 DEF HeadInside, DownIsEmpty, Inside
<1>12. CacheRepeatsIndex'
  BY <1>3, <1>4, <1>6, <1>8 DEF IInv, CacheRepeatsIndex, Mints
<1>13. LogAhead'
  <2>1. ASSUME NEW p \in Pats
        PROVE  /\ byId'[p] = "revoked" => disk[p] \in Gone
               /\ byId'[p] = "active" => disk[p] \in {"active", "revoked"}
    BY <1>5, <1>6 DEF IInv, LogAhead
  <2> QED
    BY <1>2, <2>1 DEF LogAhead
<1>14. FreshIds'
  <2>1. ASSUME NEW d \in Calls, d # c, call[d].at \in Unborn
        PROVE  /\ byId'[d] = "absent" /\ d \notin ended' /\ disk[d] = "absent"
    <3>1. byId[d] = "absent" /\ d \notin ended /\ disk[d] = "absent" /\ d \in Pats
      BY <1>3, <2>1 DEF IInv, FreshIds, Unborn, Inside, Pats
    <3>2. t # d
      BY <1>5, <3>1 DEF Gone
    <3> QED
      BY <1>6, <1>9, <2>1, <3>1, <3>2
  <2> QED
    BY <1>1, <1>2, <2>1 DEF FreshIds, Unborn
<1>15. Targets'
  BY <1>1, <1>2, <1>3 DEF IInv, Targets, Joined, Inside
<1>16. AppendedLines'
  BY <1>1, <1>3 DEF IInv, AppendedLines, Inside
<1>17. EndedStay'
  <2>1. ASSUME NEW p \in ended' PROVE disk[p] \in Gone /\ byId'[p] # "active"
    <3>1. p \in Pats /\ p # c /\ disk[p] \in Gone /\ (p # t => byId[p] # "active")
      BY <1>4, <1>5, <1>9, <1>10 DEF IInv, EndedStay, TypeOK
    <3> QED
      BY <1>6, <3>1
  <2> QED
    BY <1>2, <2>1 DEF EndedStay
<1>18. HeirsEnded' /\ OneHeir'
  <2>1. CASE op = "rotate"
    <3>1. t \notin ended
      BY <1>5, <2>1 DEF IInv, EndedStay
    <3>2. heirs' = heirs \cup {<<t, c>>} /\ ended' = ended \cup {t}
      BY <1>9, <2>1
    <3>3. \A r \in heirs : r[1] \in ended /\ r[1] # t
      BY <3>1 DEF IInv, HeirsEnded
    <3> QED
      BY <3>2, <3>3 DEF IInv, HeirsEnded, OneHeir
  <2>2. CASE op # "rotate"
    BY <1>9, <2>2 DEF IInv, HeirsEnded, OneHeir
  <2> QED
    BY <2>1, <2>2
<1>19. IssuedStay'
  <2>1. ASSUME NEW p \in issued', ~ Ending(p)'
        PROVE  disk[p] = "active" /\ byId'[p] = "active"
    <3>1. p \in Pats /\ ~ Ending(p)
      BY <1>1, <1>2, <1>10, <2>1 DEF TypeOK, Ending
    <3>2. CASE op \in Mints /\ p = c
      BY <1>3, <1>5, <1>6, <3>1, <3>2 DEF Ending
    <3>3. CASE ~ (op \in Mints /\ p = c)
      <4>1. disk[p] = "active" /\ byId[p] = "active"
        BY <1>3, <1>9, <2>1, <3>1, <3>3 DEF IInv, IssuedStay
      <4>2. p # t
        BY <1>5, <3>1, <4>1 DEF Gone
      <4>3. byId'[p] = IF op \in Mints /\ p = c THEN "active"
                       ELSE IF p = t THEN (IF op = "delete" THEN "absent" ELSE "revoked")
                       ELSE byId[p]
        BY <1>6, <3>1
      <4> QED
        BY <3>3, <4>1, <4>2, <4>3
    <3> QED
      BY <3>2, <3>3
  <2> QED
    BY <1>2, <2>1 DEF IssuedStay
<1> QED
  BY <1>10, <1>11, <1>12, <1>13, <1>14, <1>15, <1>16, <1>17, <1>18, <1>19 DEF IInv

LEMMA CrashStep == ASSUME IInv, Crash PROVE IInv'
<1> USE DEF Crash
<1>1. /\ up' = FALSE /\ now' = now /\ crashes' = crashes + 1 /\ queue' = <<>>
      /\ byId' = [p \in Pats |-> "absent"] /\ cache' = [p \in Pats |-> NoEntry]
      /\ UNCHANGED history
  OBVIOUS
<1>2. /\ call' \in [Calls -> CallState]
      /\ \A c \in Calls : /\ call'[c].op = call[c].op
                          /\ call'[c].target = call[c].target
                          /\ call'[c].at \notin Joined
                          /\ call'[c].at = "idle" => call[c].at = "idle"
  BY DEF IInv, TypeOK, CallState, Phases, Joined
<1>3. PICK log \in [Pats -> Statuses] :
         /\ disk' = log /\ torn' \in BOOLEAN
         /\ \A p \in Pats : /\ disk[p] \in Gone => log[p] \in Gone
                            /\ p \in issued /\ ~ Ending(p) => log[p] = disk[p]
         /\ \A c \in Calls : call[c].at = "idle" => log[c] = disk[c]
  <2>1. CASE queue # <<>> /\ call[Head(queue)].at = "appending"
    <3> DEFINE h == Head(queue)
    <3>1. h \in Calls
      BY <2>1 DEF IInv, TypeOK
    <3>2. PICK n \in 0..Lines(h) : disk' = Appended(h, n) /\ torn' \in BOOLEAN
      BY <2>1 DEF IInv, TypeOK
    <3>3. \A c \in Calls : call[c].at = "idle" => disk[c] = "absent" /\ c # h /\ c \in Pats
      BY <2>1, <3>1 DEF IInv, FreshIds, Unborn, Pats
    <3> QED
      BY <2>1, <3>1, <3>2, <3>3, AppendEffect
  <2>2. CASE ~ (queue # <<>> /\ call[Head(queue)].at = "appending")
    BY <2>2 DEF IInv, TypeOK
  <2> QED
    BY <2>1, <2>2
<1>4. TypeOK'
  <2>1. NoEntry \in Entries
    BY DEF NoEntry, Entries, Indexed
  <2>2. byId' \in [Pats -> Indexed] /\ cache' \in [Pats -> Entries]
    BY <1>1, <2>1 DEF Indexed
  <2>3. queue' \in Seq(Calls)
    BY <1>1
  <2>4. up' \in BOOLEAN
    BY <1>1
  <2>5. crashes \in Nat /\ now \in Nat
    BY DEF IInv, TypeOK
  <2>6. crashes' \in Nat /\ now' \in Nat
    BY <1>1, <2>5
  <2> QED
    BY <1>1, <1>2, <1>3, <2>2, <2>3, <2>4, <2>6 DEF IInv, TypeOK, history
<1>5. HeadInside' /\ DownIsEmpty' /\ CacheRepeatsIndex' /\ LogAhead'
  BY <1>1, <1>2 DEF HeadInside, DownIsEmpty, CacheRepeatsIndex, LogAhead, Inside, Joined
<1>6. FreshIds'
  BY <1>1, <1>2, <1>3 DEF IInv, FreshIds, Unborn, Joined, Pats, history
<1>7. Targets' /\ AppendedLines'
  BY <1>2 DEF IInv, Targets, AppendedLines, Joined, Inside
<1>8. EndedStay' /\ HeirsEnded' /\ OneHeir'
  BY <1>1, <1>3 DEF IInv, TypeOK, EndedStay, HeirsEnded, OneHeir, history
<1>9. IssuedStay'
  <2>1. \A p \in Pats : Ending(p) = Ending(p)'
    BY <1>1, <1>2 DEF Ending, history
  <2> QED
    BY <1>1, <1>3, <2>1 DEF IInv, TypeOK, IssuedStay, history
<1> QED
  BY <1>4, <1>5, <1>6, <1>7, <1>8, <1>9 DEF IInv

LEMMA RestartStep == ASSUME IInv, Restart PROVE IInv'
<1> USE DEF Restart
<1>1. /\ up' = TRUE
      /\ UNCHANGED <<now, disk, torn, cache, queue, call, crashes, history>>
      /\ \A p \in Pats : byId'[p] = IF disk[p] = "deleted" THEN "absent" ELSE disk[p]
  BY DEF Load
<1>2. byId' \in [Pats -> Indexed]
  BY DEF Load, IInv, TypeOK, Statuses, Indexed
<1>3. \A c \in Calls : call[c].at \notin Inside
  BY DEF IInv, HeadInside
<1>4. \A p \in Pats : cache[p] = NoEntry
  BY DEF IInv, DownIsEmpty
<1>5. TypeOK'
  BY <1>1, <1>2 DEF IInv, TypeOK, history
<1>6. HeadInside' /\ DownIsEmpty' /\ CacheRepeatsIndex' /\ LogAhead'
  BY <1>1, <1>3, <1>4 DEF IInv, TypeOK, HeadInside, DownIsEmpty, CacheRepeatsIndex,
     LogAhead, Gone, Statuses
<1>7. FreshIds'
  BY <1>1, <1>3 DEF IInv, FreshIds, Unborn, Inside, Pats, history
<1>8. Targets' /\ AppendedLines'
  BY <1>1, <1>3 DEF IInv, Targets, AppendedLines, Joined, Inside
<1>9. EndedStay' /\ HeirsEnded' /\ OneHeir'
  BY <1>1 DEF IInv, TypeOK, EndedStay, HeirsEnded, OneHeir, Gone, history
<1>10. IssuedStay'
  BY <1>1 DEF IInv, TypeOK, IssuedStay, Ending, history
<1> QED
  BY <1>5, <1>6, <1>7, <1>8, <1>9, <1>10 DEF IInv

LEMMA TickStep == ASSUME IInv, Tick PROVE IInv'
BY DEF Tick, IInv, TypeOK, HeadInside, DownIsEmpty, CacheRepeatsIndex, LogAhead, FreshIds,
   Targets, AppendedLines, EndedStay, HeirsEnded, OneHeir, IssuedStay, Ending, history

LEMMA RevokedOutsideStep == ASSUME IInv, NEW p \in Pats, RevokedOutside(p) PROVE IInv'
<1> USE DEF RevokedOutside
<1>1. /\ disk[p] = "active"
      /\ UNCHANGED <<now, up, torn, byId, cache, queue, call, crashes, ended, issued, heirs>>
      /\ \A q \in Pats : disk'[q] = IF q = p THEN "revoked" ELSE disk[q]
      /\ \A q \in Pats : outside'[q] = IF q = p THEN now ELSE outside[q]
  BY DEF IInv, TypeOK
<1>2. now # Never
  BY DEF IInv, TypeOK, Never
<1>3. TypeOK'
  BY <1>1 DEF IInv, TypeOK, Statuses
<1>4. HeadInside' /\ DownIsEmpty' /\ CacheRepeatsIndex' /\ HeirsEnded' /\ OneHeir'
  BY <1>1 DEF IInv, HeadInside, DownIsEmpty, CacheRepeatsIndex, HeirsEnded, OneHeir
<1>5. LogAhead' /\ EndedStay'
  BY <1>1 DEF IInv, TypeOK, LogAhead, EndedStay, Gone
<1>6. FreshIds' /\ Targets'
  BY <1>1 DEF IInv, FreshIds, Targets, Unborn, Joined, Pats
<1>7. AppendedLines'
  BY <1>1, <1>2 DEF IInv, AppendedLines, Targets, Gone, Joined, Pats
<1>8. IssuedStay'
  <2>1. \A q \in Pats : ~ Ending(q)' => ~ Ending(q) /\ q # p
    BY <1>1, <1>2 DEF Ending
  <2> QED
    BY <1>1, <2>1 DEF IInv, TypeOK, IssuedStay
<1> QED
  BY <1>3, <1>4, <1>5, <1>6, <1>7, <1>8 DEF IInv

LEMMA NextIInv == IInv /\ [Next]_vars => IInv'
<1> SUFFICES ASSUME IInv, [Next]_vars PROVE IInv'
  OBVIOUS
<1>1. CASE UNCHANGED vars
  BY <1>1 DEF vars, IInv, TypeOK, HeadInside, DownIsEmpty, CacheRepeatsIndex, LogAhead,
     FreshIds, Targets, AppendedLines, EndedStay, HeirsEnded, OneHeir, IssuedStay, Ending
<1>2. CASE Next
  BY <1>2, LookupStep, RequestStep, BeginStep, RefuseStep, PersistStep, AppendFailsStep,
     FinishStep, CrashStep, RestartStep, TickStep, RevokedOutsideStep DEF Next, Work
<1> QED
  BY <1>1, <1>2

(* The inductive invariant holds in every state.                           *)
THEOREM Invariance == Spec => []IInv
BY InitIInv, NextIInv, PTL DEF Spec

(* Every variable keeps its type.                                          *)
THEOREM TypeCorrect == Spec => []TypeOK
<1>1. IInv => TypeOK
  BY DEF IInv
<1> QED
  BY <1>1, Invariance, PTL

(* Revocation is immediate and final: once revoke, rotate or delete has    *)
(* answered, no lookup accepts the token, from the cache, from the index   *)
(* or after a restart.                                                     *)
THEOREM Revocation == Spec => []RevocationHolds
<1>1. IInv => RevocationHolds
  <2> SUFFICES ASSUME IInv, NEW p \in ended PROVE ~ Authenticates(p)
    BY DEF RevocationHolds
  <2>1. p \in Pats /\ byId[p] # "active"
    BY DEF IInv, TypeOK, EndedStay
  <2>2. Cached(p) => cache[p].status = byId[p]
    BY <2>1 DEF IInv, CacheRepeatsIndex, Cached
  <2> QED
    BY <2>1, <2>2 DEF Authenticates, Evaluate
<1> QED
  BY <1>1, Invariance, PTL

(* The lookup cache never disagrees with the index.                        *)
THEOREM Coherence == Spec => []CacheCoherent
<1>1. IInv => CacheCoherent
  BY DEF IInv, CacheRepeatsIndex, CacheCoherent
<1> QED
  BY <1>1, Invariance, PTL

(* A token that was handed out and that nobody asked to end works until it *)
(* expires, restarts included.                                             *)
THEOREM IssuedWork == Spec => []IssuedTokensWork
<1>1. IInv => IssuedTokensWork
  <2> SUFFICES ASSUME IInv, NEW p \in issued, up, ~ Ending(p), ExpiresAt[p] > now
               PROVE  Authenticates(p)
    BY DEF IssuedTokensWork
  <2>1. p \in Pats /\ byId[p] = "active"
    BY DEF IInv, TypeOK, IssuedStay
  <2>2. Cached(p) => cache[p].status = byId[p]
    BY <2>1 DEF IInv, CacheRepeatsIndex, Cached
  <2> QED
    BY <2>1, <2>2 DEF Authenticates, Evaluate
<1> QED
  BY <1>1, Invariance, PTL

(* A token is replaced by one token at most.                               *)
THEOREM RotationUnique == Spec => []OneHeir
<1>1. IInv => OneHeir
  BY DEF IInv
<1> QED
  BY <1>1, Invariance, PTL

-----------------------------------------------------------------------------
LEMMA InitRefines == Init => Ledger!Init
BY DEF Init, Ledger!Init, Pats

(* An append is a step of the ledger, a stutter, or, of a rotation cut     *)
(* after its first line, only the mint.                                    *)
LEMMA AppendRefines ==
    ASSUME IInv, NEW c \in Calls, call[c].at = "appending", NEW n \in 0..Lines(c),
           disk' = Appended(c, n)
    PROVE  [Ledger!Next]_disk
<1> DEFINE t == call[c].target
           op == call[c].op
<1>1. op \in Ops /\ c \in Pats /\ disk \in [Pats -> Statuses] /\ disk[c] = "absent"
  BY DEF IInv, TypeOK, CallState, Pats, FreshIds, Unborn
<1>2. op # "mint" => t \in Pats /\ t # c
  BY DEF IInv, Targets, Joined
<1>3. /\ op \in {"rotate", "revoke"} => disk[t] \in {"active", "revoked"}
      /\ op = "delete" => disk[t] \in Gone
  BY <1>2 DEF IInv, Targets, Inside, LogAhead
<1> DEFINE new == op \in {"mint", "rotate"} /\ n >= 1
           end == IF op = "rotate" THEN n = 2 ELSE op # "mint" /\ n = 1
<1>a. disk' = [p \in Pats |->
                 IF new /\ p = c THEN "active"
                 ELSE IF end /\ p = t THEN (IF op = "delete" THEN "deleted" ELSE "revoked")
                 ELSE disk[p]]
  BY DEF Appended
<1>4. CASE n = 0
  <2>1. disk' = disk
    BY <1>1, <1>4 DEF Appended
  <2> QED
    BY <2>1
<1>5. CASE op = "mint" /\ n = 1
  <2>0. new /\ ~ end
    BY <1>5
  <2>1. disk' = [disk EXCEPT ![c] = "active"]
    <3> HIDE DEF new, end
    <3> QED
      BY <1>1, <1>a, <2>0
  <2> QED
    BY <1>1, <2>1 DEF Ledger!Next, Ledger!Mint
<1>6. CASE op = "revoke" /\ n = 1
  <2>1. disk' = [disk EXCEPT ![t] = "revoked"]
    BY <1>1, <1>2, <1>6 DEF Appended
  <2>2. CASE disk[t] = "active"
    BY <1>2, <1>6, <2>1, <2>2 DEF Ledger!Next, Ledger!Revoke
  <2>3. CASE disk[t] = "revoked"
    BY <1>1, <2>1, <2>3
  <2> QED
    BY <1>3, <1>6, <2>2, <2>3
<1>7. CASE op = "delete" /\ n = 1
  <2>1. disk' = [disk EXCEPT ![t] = "deleted"]
    BY <1>1, <1>2, <1>7 DEF Appended
  <2>2. CASE disk[t] = "revoked"
    BY <1>2, <1>7, <2>1, <2>2 DEF Ledger!Next, Ledger!Delete
  <2>3. CASE disk[t] = "deleted"
    BY <1>1, <2>1, <2>3
  <2> QED
    BY <1>3, <1>7, <2>2, <2>3 DEF Gone
<1>8. CASE op = "rotate" /\ n = 1
  <2>0. new /\ ~ end
    BY <1>8
  <2>1. disk' = [disk EXCEPT ![c] = "active"]
    <3> HIDE DEF new, end
    <3> QED
      BY <1>1, <1>a, <2>0
  <2> QED
    BY <1>1, <2>1 DEF Ledger!Next, Ledger!Mint
<1>9. CASE op = "rotate" /\ n = 2
  <2>0. new /\ end /\ op # "delete"
    BY <1>9
  <2>1. disk' = [disk EXCEPT ![t] = "revoked", ![c] = "active"]
    <3>1. t \in Pats /\ t # c
      BY <1>2, <1>9
    <3> HIDE DEF new, end, op, t
    <3> QED
      BY <1>1, <1>a, <2>0, <3>1
  <2>2. Ledger!Rotate(t, c)
    BY <1>1, <1>3, <1>9, <2>1 DEF Ledger!Rotate
  <2> QED
    BY <1>1, <1>2, <1>9, <2>2 DEF Ledger!Next
<1> QED
  BY <1>1, <1>4, <1>5, <1>6, <1>7, <1>8, <1>9 DEF Lines, Ops

LEMMA NextRefines == IInv /\ [Next]_vars => [Ledger!Next]_disk
<1> SUFFICES ASSUME IInv, [Next]_vars PROVE [Ledger!Next]_disk
  OBVIOUS
<1>1. ASSUME NEW c \in Calls, Persist(c) PROVE [Ledger!Next]_disk
  BY <1>1, AppendRefines DEF Persist, Lines
<1>2. ASSUME NEW c \in Calls, AppendFails(c) PROVE [Ledger!Next]_disk
  BY <1>2, AppendRefines DEF AppendFails
<1>3. CASE Crash
  <2>1. CASE queue # <<>> /\ call[Head(queue)].at = "appending"
    <3>1. Head(queue) \in Calls
      BY <2>1 DEF IInv, TypeOK
    <3> QED
      BY <1>3, <2>1, <3>1, AppendRefines DEF Crash
  <2>2. CASE ~ (queue # <<>> /\ call[Head(queue)].at = "appending")
    BY <1>3, <2>2 DEF Crash
  <2> QED
    BY <2>1, <2>2
<1>4. ASSUME NEW p \in Pats, RevokedOutside(p) PROVE [Ledger!Next]_disk
  BY <1>4 DEF RevokedOutside, Ledger!Next, Ledger!Revoke
<1>5. ASSUME NEW c \in Calls, Request(c) \/ Begin(c) \/ Refuse(c) \/ Finish(c)
      PROVE  disk' = disk
  BY <1>5 DEF Request, Begin, Refuse, Finish
<1>6. ASSUME NEW p \in Pats, Lookup(p) PROVE disk' = disk
  BY <1>6 DEF Lookup
<1>7. CASE Restart \/ Tick \/ UNCHANGED vars
  BY <1>7 DEF Restart, Tick, vars
<1> QED
  BY <1>1, <1>2, <1>3, <1>4, <1>5, <1>6, <1>7 DEF Next, Work

(* The log implements the ledger: a token only moves from minted to        *)
(* revoked to deleted, whatever appends fail and whenever the process dies.*)
THEOREM Refinement == Spec => ImplementsLedger
BY InitRefines, NextRefines, Invariance, PTL DEF Spec, ImplementsLedger, Ledger!Spec
=============================================================================
