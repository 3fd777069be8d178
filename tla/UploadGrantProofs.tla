------------------------- MODULE UploadGrantProofs -------------------------
(***************************************************************************)
(* UploadGrant for any runs, purges, sweeps, uses of the URL and faults.   *)
(* Two clocks keep the parties apart: until a grant is due no sweep has    *)
(* touched it, so that its version is the one every purge has read; once   *)
(* it is due no body can land any more.  What a purge has read of the      *)
(* claim stays true, since a claim is never given back.                    *)
(***************************************************************************)
EXTENDS UploadGrant, TLAPS

-----------------------------------------------------------------------------
(* The inductive invariant *)

\* A claim is not given back: what was said and read of it stays true.
ClaimInv ==
  /\ row.status = "issued" => row.run = Nobody
  /\ \A r \in Runs : granted[r] => row.run = r
  /\ \A p \in Procs : seen[p].run # Nobody => row.run = seen[p].run

\* Before the grant is due no sweep has begun.
UndueInv ==
  phase # "due" =>
    /\ row.there /\ row.version = 0
    /\ \A p \in Procs : seen[p].version = 0
    /\ \A s \in Sweepers : pc[s] = "idle"

\* Once it is due no body is on its way.
DueInv == phase = "due" => flying = {}

\* A row goes when its bytes have gone.
GoneInv ==
  ~row.there \/ (\E s \in Sweepers : pc[s] = "deleteRow") => object \notin Bodies

Purging == {"put", "rehead", "reput", "confirm", "persist", "rmHead", "rmDelete", "rmConfirm"}

\* Before the grant is due, a purge that goes on found the claim of its run.
PurgeInv ==
  phase # "due" =>
    \A p \in Purgers :
      /\ pc[p] = "head" => seen[p].there
      /\ pc[p] \in Purging => seen[p].run = RunOf[p]

\* While the URL is good, a fence is never removed, and recorded only when it is there.
FenceInv ==
  phase = "valid" =>
    /\ row.status = "fenced" => object = "fence"
    /\ \A p \in Purgers : /\ pc[p] = "persist" => object = "fence"
                          /\ pc[p] \notin {"rmHead", "rmDelete", "rmConfirm"}

IInv ==
  /\ TypeOK /\ ClaimInv /\ UndueInv /\ DueInv /\ GoneInv /\ PurgeInv /\ FenceInv
  /\ ReadIsDeclared

-----------------------------------------------------------------------------
(* What a step of one party leaves to the others *)

\* Party p moves to a step, where it remembers what it has read unless it is over.
Moves(p, step) ==
  /\ pc' \in [Procs -> Steps] /\ etag' \in [Procs -> Objects]
  /\ seen' \in [Procs -> [there : BOOLEAN, run : Runs \cup {Nobody}, version : Nat]]
  /\ pc'[p] = step /\ (step \notin Over => seen'[p] = seen[p])
  /\ step \in Over => seen'[p] = NothingSeen
  /\ \A q \in Procs : q # p => pc'[q] = pc[q] /\ seen'[q] = seen[q]

LEMMA RememberMoves ==
  ASSUME TypeOK, NEW p \in Procs, NEW step \in Steps, NEW content \in Objects,
         Remember(p, content, step)
  PROVE  Moves(p, step)
<1>1. NothingSeen \in [there : BOOLEAN, run : Runs \cup {Nobody}, version : Nat]
  BY DEF NothingSeen
<1>2. "none" \in Objects
  BY DEF Objects
<1> QED
  BY <1>1, <1>2 DEF Remember, Move, Moves, TypeOK

LEMMA GotoMoves ==
  ASSUME TypeOK, NEW p \in Procs, NEW step \in Steps, Goto(p, step)
  PROVE  Moves(p, step)
<1>1. etag[p] \in Objects
  BY DEF TypeOK
<1> QED
  BY <1>1, RememberMoves DEF Goto

\* What a party reads of the row is true of it.
LEMMA SeenRow ==
  ASSUME TypeOK
  PROVE  /\ SeenOf(row) \in [there : BOOLEAN, run : Runs \cup {Nobody}, version : Nat]
         /\ SeenOf(row).there = row.there /\ SeenOf(row).run = row.run
         /\ SeenOf(row).version = row.version
BY DEF TypeOK, Rows, SeenOf

-----------------------------------------------------------------------------
(* The invariant holds at first *)

LEMMA InitInv == ASSUME UploadGrantAssumption, Init PROVE IInv
<1>1. TypeOK
  <2>1. row \in Rows
    BY DEF Init, Issued, Rows, Statuses
  <2>2. NothingSeen \in [there : BOOLEAN, run : Runs \cup {Nobody}, version : Nat]
    BY DEF NothingSeen
  <2>3. puts \in 0..MaxPuts /\ faults \in 0..MaxFaults
    BY DEF Init, UploadGrantAssumption
  <2>4. pc \in [Procs -> Steps] /\ etag \in [Procs -> Objects] /\ object \in Objects
    BY DEF Init, Steps, Objects
  <2>5. seen \in [Procs -> [there : BOOLEAN, run : Runs \cup {Nobody}, version : Nat]]
    BY <2>2 DEF Init
  <2> QED
    BY <2>1, <2>3, <2>4, <2>5 DEF Init, TypeOK
<1>2. ClaimInv
  BY DEF Init, ClaimInv, Issued, NothingSeen
<1>3. UndueInv /\ DueInv
  BY DEF Init, UndueInv, DueInv, Issued, NothingSeen, Procs
<1>4. GoneInv /\ PurgeInv /\ FenceInv
  BY DEF Init, GoneInv, PurgeInv, FenceInv, Issued, Procs, Bodies, Purging
<1>5. ReadIsDeclared
  BY DEF Init, ReadIsDeclared
<1> QED
  BY <1>1, <1>2, <1>3, <1>4, <1>5 DEF IInv

-----------------------------------------------------------------------------
(* The client and its runs *)

LEMMA StartPutStep ==
  ASSUME UploadGrantAssumption, IInv, NEW body \in Bodies, StartPut(body)
  PROVE  IInv'
<1>1. TypeOK'
  BY DEF IInv, StartPut, TypeOK, UploadGrantAssumption, parties
<1> QED
  BY <1>1
  DEF IInv, StartPut, parties, ClaimInv, UndueInv, DueInv, GoneInv, PurgeInv, FenceInv, ReadIsDeclared

LEMMA LandPutStep ==
  ASSUME UploadGrantAssumption, IInv, NEW body \in Bodies, LandPut(body)
  PROVE  IInv'
<1>1. /\ phase # "due" /\ object' \in {object, body}
      /\ object # "none" => object' = object
      /\ UNCHANGED <<row, phase, granted, misread, pc, seen, etag>>
  BY DEF IInv, DueInv, LandPut, parties
<1>2. TypeOK'
  BY DEF IInv, LandPut, TypeOK, Objects, parties
<1>3. ClaimInv' /\ UndueInv' /\ DueInv' /\ PurgeInv' /\ ReadIsDeclared'
  BY <1>1 DEF IInv, ClaimInv, UndueInv, DueInv, PurgeInv, ReadIsDeclared
<1>4. GoneInv'
  <2>1. row.there /\ \A s \in Sweepers : pc[s] = "idle"
    BY <1>1 DEF IInv, UndueInv
  <2> QED
    BY <1>1, <2>1 DEF GoneInv
<1>5. FenceInv'
  BY <1>1 DEF IInv, FenceInv
<1> QED
  BY <1>2, <1>3, <1>4, <1>5 DEF IInv

\* A claim, acknowledged or not.
LEMMA ClaimKeeps ==
  ASSUME UploadGrantAssumption, IInv, NEW r \in Runs,
         row.there, phase = "valid", row.status = "issued",
         row' = [row EXCEPT !.status = "claimed", !.run = r],
         granted' \in {granted, [granted EXCEPT ![r] = TRUE]}, faults' \in 0..MaxFaults,
         UNCHANGED <<object, phase, client, misread, parties>>
  PROVE  IInv'
<1>1. /\ row' \in Rows /\ row'.run = r /\ row'.status = "claimed"
      /\ row'.there = row.there /\ row'.version = row.version
  BY DEF IInv, TypeOK, Rows, Statuses
<1>2. TypeOK'
  BY <1>1 DEF IInv, TypeOK, client, parties
<1>3. ClaimInv'
  <2>1. row.run = Nobody
    BY DEF IInv, ClaimInv
  <2>2. \A x \in Runs : ~granted[x]
    BY <2>1 DEF IInv, ClaimInv, UploadGrantAssumption
  <2>3. \A p \in Procs : seen[p].run = Nobody
    BY <2>1 DEF IInv, ClaimInv
  <2>4. \A x \in Runs : granted'[x] => x = r
    BY <2>2 DEF IInv, TypeOK
  <2> QED
    BY <1>1, <2>3, <2>4 DEF ClaimInv, parties
<1>4. UndueInv' /\ DueInv' /\ GoneInv' /\ PurgeInv' /\ FenceInv' /\ ReadIsDeclared'
  BY <1>1
  DEF IInv, UndueInv, DueInv, GoneInv, PurgeInv, FenceInv, ReadIsDeclared, client, parties
<1> QED
  BY <1>2, <1>3, <1>4 DEF IInv

LEMMA ClaimStep ==
  ASSUME UploadGrantAssumption, IInv, NEW r \in Runs, ClaimIncoming(r) \/ ClaimLost(r)
  PROVE  IInv'
<1>1. CASE ClaimIncoming(r)
  BY <1>1, ClaimKeeps DEF ClaimIncoming, IInv, TypeOK
<1>2. CASE ClaimLost(r)
  <2>1. faults' \in 0..MaxFaults
    BY <1>2 DEF ClaimLost, IInv, TypeOK, UploadGrantAssumption
  <2> QED
    BY <1>2, <2>1, ClaimKeeps DEF ClaimLost
<1> QED
  BY <1>1, <1>2

LEMMA ClaimReplayedStep ==
  ASSUME UploadGrantAssumption, IInv, NEW r \in Runs, ClaimReplayed(r)
  PROVE  IInv'
<1>1. /\ row.run = r /\ granted' = [granted EXCEPT ![r] = TRUE]
      /\ UNCHANGED <<row, object, phase, flying, puts, misread, pc, seen, etag, faults>>
  BY DEF ClaimReplayed, client, parties
<1>2. TypeOK' /\ ClaimInv'
  BY <1>1 DEF IInv, TypeOK, ClaimInv
<1>3. UndueInv' /\ DueInv' /\ GoneInv' /\ PurgeInv' /\ FenceInv' /\ ReadIsDeclared'
  BY <1>1 DEF IInv, UndueInv, DueInv, GoneInv, PurgeInv, FenceInv, ReadIsDeclared
<1> QED
  BY <1>2, <1>3 DEF IInv

LEMMA ReadStep ==
  ASSUME IInv, NEW r \in Runs, Read(r)
  PROVE  IInv'
<1>1. UNCHANGED <<row, object, phase, flying, puts, granted, pc, seen, etag, faults>>
  BY DEF Read, client, parties
<1>2. misread' = FALSE /\ misread = FALSE
  BY DEF Read, Accepted, IInv, TypeOK, ReadIsDeclared
<1> QED
  BY <1>1, <1>2
  DEF IInv, TypeOK, ClaimInv, UndueInv, DueInv, GoneInv, PurgeInv, FenceInv, ReadIsDeclared

-----------------------------------------------------------------------------
(* Purges and sweeps: steps that leave the row as it is *)

Keeps == UNCHANGED <<row, phase, flying, puts, granted, misread>>

\* No body appears, and while the URL is good no fence goes.
Fences ==
  /\ object' \in Objects /\ (object' \in Bodies => object' = object)
  /\ phase = "valid" /\ object = "fence" => object' = "fence"

\* Where a purge may go before the grant is due.
MayGo(p, step) ==
  /\ step \in Purging => seen[p].run = RunOf[p]
  /\ phase = "valid" =>
       /\ step \notin {"rmHead", "rmDelete", "rmConfirm"}
       /\ step = "persist" => object' = "fence"

LEMMA MoveKeeps ==
  ASSUME UploadGrantAssumption, IInv, NEW p \in Procs, NEW step \in Steps \ {"head"},
         Moves(p, step), Keeps, Fences, faults' \in 0..MaxFaults,
         p \in Sweepers => phase = "due",
         step = "deleteRow" => object' \notin Bodies,
         p \in Purgers /\ phase # "due" => MayGo(p, step)
  PROVE  IInv'
<1>1. TypeOK'
  BY DEF IInv, TypeOK, Moves, Keeps, Fences
<1>2. ClaimInv'
  BY DEF IInv, ClaimInv, Moves, Keeps, NothingSeen
<1>3. UndueInv'
  <2>1. phase # "due" => p \in Purgers /\ p \notin Sweepers
    BY DEF Procs, UploadGrantAssumption
  <2>2. \A q \in Procs : seen'[q] \in {seen[q], NothingSeen}
    BY DEF Moves
  <2>3. \A s \in Sweepers : s # p => pc'[s] = pc[s]
    BY DEF Moves, Procs
  <2> QED
    BY <2>1, <2>2, <2>3 DEF IInv, UndueInv, Keeps, NothingSeen
<1>4. DueInv' /\ ReadIsDeclared'
  BY DEF IInv, DueInv, ReadIsDeclared, Keeps
<1>5. GoneInv'
  <2>1. \A s \in Sweepers : pc'[s] = "deleteRow" => object' \notin Bodies
    BY DEF IInv, GoneInv, Moves, Fences, Procs
  <2> QED
    BY <2>1 DEF IInv, GoneInv, Keeps, Fences
<1>6. PurgeInv'
  <2> SUFFICES ASSUME phase # "due", NEW q \in Purgers
               PROVE  /\ pc'[q] = "head" => seen'[q].there
                      /\ pc'[q] \in Purging => seen'[q].run = RunOf[q]
    BY DEF PurgeInv, Keeps
  <2>1. CASE q # p
    BY <2>1 DEF IInv, PurgeInv, Moves, Procs
  <2>2. CASE q = p
    BY <2>2 DEF Moves, MayGo, Purging, Over
  <2> QED
    BY <2>1, <2>2
<1>7. FenceInv'
  <2> SUFFICES ASSUME phase = "valid"
               PROVE  /\ row.status = "fenced" => object' = "fence"
                      /\ \A q \in Purgers :
                           /\ pc'[q] = "persist" => object' = "fence"
                           /\ pc'[q] \notin {"rmHead", "rmDelete", "rmConfirm"}
    BY DEF FenceInv, Keeps
  <2>1. row.status = "fenced" => object' = "fence"
    BY DEF IInv, FenceInv, Fences
  <2>2. ASSUME NEW q \in Purgers, q # p
        PROVE  /\ pc'[q] = "persist" => object' = "fence"
               /\ pc'[q] \notin {"rmHead", "rmDelete", "rmConfirm"}
    BY <2>2 DEF IInv, FenceInv, Fences, Moves, Procs
  <2>3. p \in Purgers => MayGo(p, step) /\ pc'[p] = step
    BY DEF Moves
  <2> QED
    BY <2>1, <2>2, <2>3 DEF MayGo
<1> QED
  BY <1>1, <1>2, <1>3, <1>4, <1>5, <1>6, <1>7 DEF IInv

\* A party at work is a purge, or the grant is due.
LEMMA AtWork ==
  ASSUME IInv, NEW p \in Procs, pc[p] # "idle"
  PROVE  p \in Sweepers => phase = "due"
BY DEF IInv, UndueInv

\* What a purge has found stays found as it goes on.
LEMMA FoundBefore ==
  ASSUME IInv, NEW p \in Purgers, phase # "due", pc[p] \in Purging
  PROVE  /\ seen[p].run = RunOf[p]
         /\ phase = "valid" => pc[p] \notin {"rmHead", "rmDelete", "rmConfirm"}
BY DEF IInv, PurgeInv, FenceInv

LEMMA FaultStep ==
  ASSUME UploadGrantAssumption, IInv, NEW p \in Procs, Fault(p)
  PROVE  IInv'
<1>1. /\ pc[p] # "idle" /\ Goto(p, "failed") /\ faults' \in 0..MaxFaults
      /\ Keeps /\ UNCHANGED object
  BY DEF Fault, Keeps, Rest, client, IInv, TypeOK, UploadGrantAssumption
<1>2. Moves(p, "failed") /\ "failed" \in Steps
  BY <1>1, GotoMoves DEF IInv, Steps
<1>3. Fences /\ MayGo(p, "failed")
  BY <1>1 DEF Fences, MayGo, Purging, IInv, TypeOK
<1> QED
  BY <1>1, <1>2, <1>3, AtWork, MoveKeeps

LEMMA RemoveStepKeeps ==
  ASSUME UploadGrantAssumption, IInv, NEW p \in Procs, RemoveStep(p)
  PROVE  IInv'
<1>1. /\ pc[p] \in {"rmHead", "rmDelete", "rmConfirm"} /\ Keeps /\ faults' = faults
      /\ object' \in {object, "none"}
  BY DEF RemoveStep, RemoveHead, RemoveDelete, RemoveConfirm, Keeps, Rest, client
<1>2. p \in Sweepers => phase = "due"
  BY <1>1, AtWork
<1>3. p \in Purgers /\ phase # "due" => phase # "valid" /\ seen[p].run = RunOf[p]
  BY <1>1, FoundBefore DEF Purging
<1>4. PICK step \in {"rmDelete", "rmConfirm", "release", "failed", "deleteRow", "done"} :
        /\ Moves(p, step)
        /\ step = "deleteRow" => object' = "none"
  <2>1. {"rmDelete", "rmConfirm", "release", "failed", "deleteRow", "done"} \subseteq Steps
    BY DEF Steps
  <2>2. CASE RemoveHead(p)
    <3> DEFINE step == IF object # "none" THEN "rmDelete" ELSE Removed(p)
    <3>1. Remember(p, object, step) /\ object' = object
      BY <2>2 DEF RemoveHead
    <3>2. step \in {"rmDelete", "deleteRow", "done"} /\ (step = "deleteRow" => object = "none")
      BY DEF Removed
    <3> HIDE DEF step
    <3>3. Moves(p, step)
      BY <3>1, <3>2, <2>1, RememberMoves DEF IInv, TypeOK
    <3> QED
      BY <3>1, <3>2, <3>3
  <2>3. CASE RemoveDelete(p)
    <3>1. \E step \in {"rmConfirm", "release", "failed"} : Goto(p, step)
      BY <2>3 DEF RemoveDelete, Refused
    <3> QED
      BY <3>1, <2>1, GotoMoves DEF IInv
  <2>4. CASE RemoveConfirm(p)
    <3>1. \E step \in {"deleteRow", "done", "release", "failed"} :
            Goto(p, step) /\ (step = "deleteRow" => object' = "none")
      BY <2>4 DEF RemoveConfirm, Refused, Removed
    <3> QED
      BY <3>1, <2>1, GotoMoves DEF IInv
  <2> QED
    BY <2>2, <2>3, <2>4 DEF RemoveStep
<1>5. phase = "valid" => ~(object' = "none" /\ object # "none")
  BY <1>2, <1>3 DEF Procs
<1>6. Fences
  BY <1>1, <1>5 DEF Fences, Bodies, Objects, IInv, TypeOK
<1>7. p \in Purgers /\ phase # "due" => MayGo(p, step)
  BY <1>3 DEF MayGo
<1>8. faults' \in 0..MaxFaults /\ step \in Steps \ {"head"}
  BY <1>1 DEF IInv, TypeOK, Steps
<1> QED
  BY <1>1, <1>2, <1>4, <1>6, <1>7, <1>8, MoveKeeps DEF Bodies

\* purgeIncomingToFence: the ledger row, then the object, then the fence.
LEMMA PurgeLedgerStep ==
  ASSUME UploadGrantAssumption, IInv, NEW p \in Purgers, PurgeLedger(p)
  PROVE  IInv'
<1> DEFINE read == SeenOf(row)
<1>1. /\ pc' = [pc EXCEPT ![p] = "head"] /\ seen' = [seen EXCEPT ![p] = read]
      /\ Keeps /\ UNCHANGED <<object, etag, faults>>
  BY DEF PurgeLedger, Keeps, Rest, client
<1>2. /\ read \in [there : BOOLEAN, run : Runs \cup {Nobody}, version : Nat]
      /\ read.there = row.there /\ read.run = row.run /\ read.version = row.version
  BY SeenRow DEF IInv
<1> HIDE DEF read
<1>3. p \in Procs /\ p \notin Sweepers
  BY DEF Procs, UploadGrantAssumption
<1>4. TypeOK'
  BY <1>1, <1>2, <1>3 DEF IInv, TypeOK, Keeps, Steps
<1>5. ClaimInv' /\ UndueInv' /\ DueInv' /\ ReadIsDeclared'
  BY <1>1, <1>2, <1>3 DEF IInv, TypeOK, ClaimInv, UndueInv, DueInv, ReadIsDeclared, Keeps, Procs
<1>6. GoneInv' /\ FenceInv'
  BY <1>1, <1>3 DEF IInv, TypeOK, GoneInv, FenceInv, Keeps, Procs
<1>7. PurgeInv'
  BY <1>1, <1>2, <1>3 DEF IInv, TypeOK, PurgeInv, UndueInv, Purging, Keeps, Procs
<1> QED
  BY <1>4, <1>5, <1>6, <1>7 DEF IInv

LEMMA PurgeHeadStep ==
  ASSUME UploadGrantAssumption, IInv, NEW p \in Purgers, PurgeHead(p)
  PROVE  IInv'
<1> DEFINE step == IF seen[p].there /\ seen[p].run # RunOf[p] THEN "failed"
                   ELSE IF ~seen[p].there \/ phase # "valid"
                        THEN (IF object = "none" THEN "done" ELSE "rmHead")
                   ELSE IF object = "fence" THEN "persist" ELSE "put"
<1>1. /\ pc[p] = "head" /\ Remember(p, object, step) /\ Keeps /\ UNCHANGED <<object, faults>>
  BY DEF PurgeHead, Keeps, Rest, client
<1>2. step \in Steps \ {"head", "deleteRow"} /\ p \in Procs /\ p \notin Sweepers
  BY DEF Steps, Procs, UploadGrantAssumption
<1>3. phase # "due" => seen[p].there
  BY <1>1 DEF IInv, PurgeInv
<1>4. phase # "due" => MayGo(p, step)
  BY <1>1, <1>3 DEF MayGo, Purging
<1> HIDE DEF step
<1>5. Moves(p, step)
  BY <1>1, <1>2, RememberMoves DEF IInv, TypeOK
<1>6. Fences /\ faults' \in 0..MaxFaults
  BY <1>1 DEF Fences, IInv, TypeOK
<1> QED
  BY <1>1, <1>2, <1>4, <1>5, <1>6, MoveKeeps

LEMMA PurgeGoesOn ==
  ASSUME UploadGrantAssumption, IInv, NEW p \in Purgers,
         PurgePut(p) \/ PurgeRehead(p) \/ PurgeReput(p) \/ PurgeConfirm(p)
  PROVE  IInv'
<1>1. p \in Procs /\ p \notin Sweepers
  BY DEF Procs, UploadGrantAssumption
<1>2. /\ pc[p] \in Purging /\ Keeps /\ faults' = faults /\ object' \in {object, "fence"}
  BY DEF PurgePut, PurgeRehead, PurgeReput, PurgeConfirm, Keeps, Rest, client, Purging
<1>3. PICK step \in {"confirm", "rehead", "reput", "failed", "persist"} :
        Moves(p, step) /\ (step = "persist" => object' = "fence")
  <2>1. {"confirm", "rehead", "reput", "failed", "persist"} \subseteq Steps
    BY DEF Steps
  <2>2. CASE PurgePut(p)
    <3>1. \E step \in {"confirm", "rehead"} : Goto(p, step)
      BY <2>2 DEF PurgePut
    <3> QED
      BY <3>1, <2>1, <1>1, GotoMoves DEF IInv
  <2>3. CASE PurgeRehead(p)
    <3>1. \E step \in {"failed", "confirm", "reput"} : Remember(p, object, step)
      BY <2>3 DEF PurgeRehead
    <3> QED
      BY <3>1, <2>1, <1>1, RememberMoves DEF IInv, TypeOK
  <2>4. CASE PurgeReput(p)
    <3>1. \E step \in {"confirm", "failed"} : Goto(p, step)
      BY <2>4 DEF PurgeReput
    <3> QED
      BY <3>1, <2>1, <1>1, GotoMoves DEF IInv
  <2>5. CASE PurgeConfirm(p)
    <3>1. \E step \in {"persist", "failed"} :
            Goto(p, step) /\ (step = "persist" => object' = "fence")
      BY <2>5 DEF PurgeConfirm
    <3> QED
      BY <3>1, <2>1, <1>1, GotoMoves DEF IInv
  <2> QED
    BY <2>2, <2>3, <2>4, <2>5
<1>4. Fences /\ faults' \in 0..MaxFaults
  BY <1>2 DEF Fences, Bodies, Objects, IInv, TypeOK
<1>5. phase # "due" => MayGo(p, step)
  BY <1>2, <1>3, FoundBefore DEF MayGo
<1>6. step \in Steps \ {"head", "deleteRow"}
  BY DEF Steps
<1> QED
  BY <1>1, <1>2, <1>3, <1>4, <1>5, <1>6, MoveKeeps

-----------------------------------------------------------------------------
(* Steps that write the row *)

\* The status becomes fenced where the fence is, or the grant is no longer good.
LEMMA PersistFenceStep ==
  ASSUME UploadGrantAssumption, IInv, NEW p \in Purgers, PersistFence(p)
  PROVE  IInv'
<1>1. p \in Procs /\ p \notin Sweepers
  BY DEF Procs, UploadGrantAssumption
<1>2. pc[p] = "persist" /\ UNCHANGED <<object, phase, flying, puts, granted, misread, faults>>
  BY DEF PersistFence, Rest, client
<1>3. phase = "valid" => object = "fence"
  BY <1>2 DEF IInv, FenceInv
<1>4. CASE row.there /\ row.version = seen[p].version
  <2>1. row' = [row EXCEPT !.status = "fenced"] /\ Goto(p, "done")
    BY <1>4 DEF PersistFence
  <2>2. Moves(p, "done")
    BY <2>1, <1>1, GotoMoves DEF IInv, Steps
  <2>3. /\ row' \in Rows /\ row'.status = "fenced" /\ row'.there = row.there
        /\ row'.run = row.run /\ row'.version = row.version
    BY <2>1 DEF IInv, TypeOK, Rows, Statuses
  <2>4. TypeOK'
    BY <1>2, <2>2, <2>3 DEF IInv, TypeOK, Moves
  <2>5. ClaimInv' /\ DueInv' /\ ReadIsDeclared'
    BY <1>2, <2>2, <2>3 DEF IInv, ClaimInv, DueInv, ReadIsDeclared, Moves, NothingSeen, Over
  <2>6. UndueInv' /\ GoneInv'
    BY <1>1, <1>2, <2>2, <2>3
    DEF IInv, UndueInv, GoneInv, Moves, NothingSeen, Over, Procs
  <2>7. PurgeInv' /\ FenceInv'
    BY <1>1, <1>2, <1>3, <2>2, <2>3
    DEF IInv, PurgeInv, FenceInv, Moves, Purging, Procs
  <2> QED
    BY <2>4, <2>5, <2>6, <2>7 DEF IInv
<1>5. CASE ~(row.there /\ row.version = seen[p].version)
  <2>1. row' = row /\ Goto(p, "rmHead")
    BY <1>5 DEF PersistFence
  <2>2. Moves(p, "rmHead") /\ "rmHead" \in Steps
    BY <2>1, <1>1, GotoMoves DEF IInv, Steps
  <2>3. phase = "due"
    BY <1>1, <1>5 DEF IInv, UndueInv
  <2> QED
    BY <1>1, <1>2, <2>1, <2>2, <2>3, MoveKeeps DEF Keeps, Fences, IInv, TypeOK
<1> QED
  BY <1>4, <1>5

\* Once the grant is due, a sweep may write the row while it has no more bytes than it
\* had, and take it when it has none.
LEMMA SweepKeeps ==
  ASSUME UploadGrantAssumption, IInv, NEW s \in Sweepers, NEW step \in {"rmHead", "idle"},
         Moves(s, step), phase = "due", pc[s] # "idle",
         row' \in Rows, row'.status = row.status, row'.run = row.run,
         row.there /\ ~row'.there => object \notin Bodies,
         UNCHANGED <<object, phase, flying, puts, granted, misread, faults>>
  PROVE  IInv'
<1>1. TypeOK'
  BY DEF IInv, TypeOK, Moves
<1>2. ClaimInv' /\ UndueInv' /\ DueInv' /\ ReadIsDeclared'
  BY DEF IInv, ClaimInv, UndueInv, DueInv, ReadIsDeclared, Moves, NothingSeen
<1>3. GoneInv'
  BY DEF IInv, GoneInv, Moves, Procs
<1>4. PurgeInv' /\ FenceInv'
  BY DEF PurgeInv, FenceInv
<1> QED
  BY <1>1, <1>2, <1>3, <1>4 DEF IInv

\* What a sweep writes to take and to give back its lease.
LEMMA LeaseWrites ==
  ASSUME TypeOK, NEW lease \in Sweepers \cup {Nobody},
         row' = [row EXCEPT !.version = @ + 1, !.lease = lease]
  PROVE  row' \in Rows /\ row'.status = row.status /\ row'.run = row.run /\ row'.there = row.there
<1>1. row.version + 1 \in Nat
  BY DEF TypeOK, Rows
<1>2. row' = [row EXCEPT !.version = row.version + 1, !.lease = lease]
  BY DEF TypeOK, Rows
<1> QED
  BY <1>1, <1>2 DEF TypeOK, Rows

LEMMA SweepStepKeeps ==
  ASSUME UploadGrantAssumption, IInv, NEW s \in Sweepers, SweepStep(s)
  PROVE  IInv'
<1>1. s \in Procs /\ "rmHead" \in Steps /\ "idle" \in Steps
  BY DEF Procs, Steps
<1>2. /\ pc[s] \in {"lease", "deleteRow", "release"}
      /\ UNCHANGED <<object, phase, flying, puts, granted, misread, faults>>
  BY DEF SweepStep, SweepLease, SweepDeleteRow, SweepRelease, Rest, client
<1>3. phase = "due"
  BY <1>1, <1>2, AtWork
<1>4. CASE SweepLease(s)
  <2>1. \/ row' = [row EXCEPT !.version = @ + 1, !.lease = s] /\ Goto(s, "rmHead")
        \/ row' = row /\ Goto(s, "idle")
    BY <1>4 DEF SweepLease
  <2>2. row' \in Rows /\ row'.status = row.status /\ row'.run = row.run /\ row'.there = row.there
    BY <2>1, LeaseWrites DEF IInv, TypeOK
  <2> QED
    BY <1>1, <1>2, <1>3, <2>1, <2>2, GotoMoves, SweepKeeps DEF IInv
<1>5. CASE SweepDeleteRow(s)
  <2>1. /\ row' \in {row, [row EXCEPT !.there = FALSE, !.lease = Nobody]}
        /\ Goto(s, "idle") /\ pc[s] = "deleteRow"
    BY <1>5 DEF SweepDeleteRow
  <2>2. row' \in Rows /\ row'.status = row.status /\ row'.run = row.run
    BY <2>1 DEF IInv, TypeOK, Rows
  <2>3. object \notin Bodies
    BY <2>1 DEF IInv, GoneInv
  <2> QED
    BY <1>1, <1>2, <1>3, <2>1, <2>2, <2>3, GotoMoves, SweepKeeps DEF IInv
<1>6. CASE SweepRelease(s)
  <2>1. /\ row' \in {row, [row EXCEPT !.version = @ + 1, !.lease = Nobody]} /\ Goto(s, "idle")
    BY <1>6 DEF SweepRelease
  <2>2. row' \in Rows /\ row'.status = row.status /\ row'.run = row.run /\ row'.there = row.there
    BY <2>1, LeaseWrites DEF IInv, TypeOK
  <2> QED
    BY <1>1, <1>2, <1>3, <2>1, <2>2, GotoMoves, SweepKeeps DEF IInv
<1> QED
  BY <1>4, <1>5, <1>6 DEF SweepStep

LEMMA SweepListStep ==
  ASSUME UploadGrantAssumption, IInv, NEW s \in Sweepers, SweepList(s)
  PROVE  IInv'
<1> DEFINE read == SeenOf(row)
<1>1. /\ pc' = [pc EXCEPT ![s] = "lease"] /\ seen' = [seen EXCEPT ![s] = read]
      /\ phase = "due" /\ Keeps /\ UNCHANGED <<object, etag, faults>>
  BY DEF SweepList, Due, Keeps, Rest, client
<1>2. /\ read \in [there : BOOLEAN, run : Runs \cup {Nobody}, version : Nat]
      /\ read.run = row.run
  BY SeenRow DEF IInv
<1> HIDE DEF read
<1>3. TypeOK'
  BY <1>1, <1>2 DEF IInv, TypeOK, Keeps, Steps
<1>4. ClaimInv' /\ UndueInv' /\ DueInv' /\ ReadIsDeclared'
  BY <1>1, <1>2 DEF IInv, TypeOK, ClaimInv, UndueInv, DueInv, ReadIsDeclared, Keeps, Procs
<1>5. GoneInv' /\ PurgeInv' /\ FenceInv'
  BY <1>1 DEF IInv, TypeOK, GoneInv, PurgeInv, FenceInv, Keeps, Procs
<1> QED
  BY <1>3, <1>4, <1>5 DEF IInv

\* The lease of a sweep runs out.
LEMMA LeaseStep ==
  ASSUME UploadGrantAssumption, IInv, LeaseElapses \/ LeaseOfDead
  PROVE  IInv'
<1>1. /\ row' = [row EXCEPT !.lease = Nobody] /\ faults' \in 0..MaxFaults
      /\ UNCHANGED <<object, phase, flying, puts, granted, misread, pc, seen, etag>>
  BY DEF LeaseElapses, LeaseOfDead, Rest, client, parties, IInv, TypeOK, UploadGrantAssumption
<1>2. /\ row' \in Rows /\ row'.status = row.status /\ row'.run = row.run
      /\ row'.there = row.there /\ row'.version = row.version
  BY <1>1 DEF IInv, TypeOK, Rows
<1>3. TypeOK'
  BY <1>1, <1>2 DEF IInv, TypeOK
<1> QED
  BY <1>1, <1>2, <1>3
  DEF IInv, ClaimInv, UndueInv, DueInv, GoneInv, PurgeInv, FenceInv, ReadIsDeclared

\* The grant expires, and becomes due when nothing is on its way.
LEMMA TimeStep ==
  ASSUME IInv, Expire \/ BecomeDue
  PROVE  IInv'
<1>1. /\ UNCHANGED <<row, object, flying, puts, granted, misread, pc, seen, etag, faults>>
      /\ \/ phase = "valid" /\ phase' = "grace"
         \/ phase = "grace" /\ phase' = "due" /\ flying = {}
  BY DEF Expire, BecomeDue, client, parties
<1> QED
  BY <1>1
  DEF IInv, TypeOK, ClaimInv, UndueInv, DueInv, GoneInv, PurgeInv, FenceInv, ReadIsDeclared

-----------------------------------------------------------------------------

LEMMA InductiveStep ==
  ASSUME UploadGrantAssumption, IInv, [Next]_vars
  PROVE  IInv'
<1>1. CASE UNCHANGED vars
  BY <1>1
  DEF vars, client, parties, IInv, TypeOK, ClaimInv, UndueInv, DueInv, GoneInv, PurgeInv, FenceInv,
      ReadIsDeclared
<1>2. CASE Next
  <2>1. ASSUME NEW body \in Bodies, StartPut(body) \/ LandPut(body)
        PROVE  IInv'
    BY <2>1, StartPutStep, LandPutStep
  <2>2. ASSUME NEW r \in Runs, ClaimIncoming(r) \/ ClaimReplayed(r) \/ ClaimLost(r) \/ Read(r)
        PROVE  IInv'
    BY <2>2, ClaimStep, ClaimReplayedStep, ReadStep
  <2>3. ASSUME NEW p \in Purgers, PurgeLedger(p) \/ PurgeStep(p)
        PROVE  IInv'
    BY <2>3, PurgeLedgerStep, PurgeHeadStep, PurgeGoesOn, PersistFenceStep DEF PurgeStep
  <2>4. ASSUME NEW s \in Sweepers, SweepList(s) \/ SweepStep(s)
        PROVE  IInv'
    BY <2>4, SweepListStep, SweepStepKeeps
  <2>5. ASSUME NEW p \in Procs, RemoveStep(p) \/ Fault(p)
        PROVE  IInv'
    BY <2>5, RemoveStepKeeps, FaultStep
  <2>6. LeaseElapses \/ LeaseOfDead \/ Expire \/ BecomeDue => IInv'
    BY LeaseStep, TimeStep
  <2> QED
    BY <1>2, <2>1, <2>2, <2>3, <2>4, <2>5, <2>6 DEF Next
<1> QED
  BY <1>1, <1>2

\* Two runs that were told of their claim are the one the row names.
LEMMA Safe == IInv => GrantIsSafe
<1> SUFFICES ASSUME IInv
             PROVE  GrantIsSafe
  OBVIOUS
<1>1. RawIsTracked
  BY DEF IInv, GoneInv, RawIsTracked
<1>2. OneRunClaims
  BY DEF IInv, ClaimInv, OneRunClaims
<1>3. FencedStaysFenced
  BY DEF IInv, FenceInv, FencedStaysFenced
<1> QED
  BY <1>1, <1>2, <1>3 DEF IInv, GrantIsSafe

\* Before the grant is due no sweep is at work, and a purge at work is the holder's.
LEMMA HolderPurges ==
  ASSUME UploadGrantAssumption, IInv, Next
  PROVE  OnlyHolderPurges
<1> SUFFICES ASSUME object \in Bodies, object' # object, phase # "due"
             PROVE  \E p \in Purgers : RunOf[p] = row.run /\ (PurgeStep(p) \/ RemoveStep(p))
  BY DEF OnlyHolderPurges
<1>1. ASSUME NEW p \in Purgers, PurgeStep(p) \/ RemoveStep(p)
      PROVE  RunOf[p] = row.run
  <2>1. pc[p] \in Purging
    BY <1>1
    DEF PurgeStep, PurgeHead, PurgePut, PurgeRehead, PurgeReput, PurgeConfirm, PersistFence,
        RemoveStep, RemoveHead, RemoveDelete, RemoveConfirm, Purging
  <2>2. seen[p].run = RunOf[p] /\ RunOf[p] \in Runs /\ p \in Procs
    BY <2>1, FoundBefore DEF UploadGrantAssumption, Procs
  <2> QED
    BY <2>2 DEF IInv, ClaimInv, UploadGrantAssumption
<1>2. ASSUME NEW p \in Sweepers, RemoveStep(p) \/ SweepStep(p)
      PROVE  FALSE
  <2>1. pc[p] # "idle"
    BY <1>2
    DEF RemoveStep, RemoveHead, RemoveDelete, RemoveConfirm, SweepStep, SweepLease, SweepDeleteRow,
        SweepRelease
  <2> QED
    BY <2>1 DEF IInv, UndueInv
<1>3. ASSUME NEW body \in Bodies, StartPut(body) \/ LandPut(body)
      PROVE  FALSE
  BY <1>3 DEF StartPut, LandPut, Bodies
<1>4. ASSUME NEW r \in Runs, ClaimIncoming(r) \/ ClaimReplayed(r) \/ ClaimLost(r) \/ Read(r)
      PROVE  FALSE
  BY <1>4 DEF ClaimIncoming, ClaimReplayed, ClaimLost, Read
<1>5. ASSUME NEW p \in Procs, Fault(p) \/ PurgeLedger(p) \/ SweepList(p)
      PROVE  FALSE
  BY <1>5 DEF Fault, PurgeLedger, SweepList
<1>6. ~(LeaseElapses \/ LeaseOfDead \/ Expire \/ BecomeDue)
  BY DEF LeaseElapses, LeaseOfDead, Expire, BecomeDue
<1> QED
  BY <1>1, <1>2, <1>3, <1>4, <1>5, <1>6 DEF Next, Procs

LEMMA Invariant == UploadGrantAssumption => (Spec => []IInv)
<1> SUFFICES ASSUME UploadGrantAssumption
             PROVE  Spec => []IInv
  OBVIOUS
<1>1. Init => IInv
  BY InitInv
<1>2. IInv /\ [Next]_vars => IInv'
  BY InductiveStep
<1> QED
  BY <1>1, <1>2, PTL DEF Spec

-----------------------------------------------------------------------------

\* The row of a grant, the bucket and what every party has read keep their types.
THEOREM GrantTypes == UploadGrantAssumption => (Spec => []TypeOK)
<1>1. IInv => TypeOK
  BY DEF IInv
<1> QED
  BY <1>1, Invariant, PTL

\* However claims, purges, sweeps and uses of the signed URL interleave: the bytes of an
\* upload do not outlive its row, one run claims it, a fence stays while the URL is good,
\* and a worker reads the granted bytes or none.
THEOREM GrantSafe == UploadGrantAssumption => (Spec => []GrantIsSafe)
<1> QED
  BY Safe, Invariant, PTL

\* The bytes of a claim leave the bucket before the grant is due only by a purge of the
\* run that holds it.
THEOREM HolderOnly == UploadGrantAssumption => (Spec => [][OnlyHolderPurges]_vars)
<1> SUFFICES ASSUME UploadGrantAssumption
             PROVE  Spec => [][OnlyHolderPurges]_vars
  OBVIOUS
<1>1. IInv /\ [Next]_vars => [OnlyHolderPurges]_vars
  BY HolderPurges
<1> QED
  BY <1>1, Invariant, PTL DEF Spec
=============================================================================
