---------------------------- MODULE MCRowsProofs ----------------------------
(***************************************************************************)
(* The rows that several callers write at once, for all constants, in      *)
(* three parts: that the loop of NeonRunStore.update is one guarded step;  *)
(* that a fresh heartbeat is true; and that what these, the creation of    *)
(* runs and the upload grant keep is kept in every behaviour of MCRows,    *)
(* which is one of theirs.                                                 *)
(***************************************************************************)
EXTENDS MCRows, TLAPS

(***************************************************************************)
(* First part.  The loop of NeonRunStore.update, for any set of writers,   *)
(* any number of rounds and any bounds.                                    *)
(***************************************************************************)

CountInv ==
  \A p \in Writers :
    /\ pc[p] \notin Outcomes => attempt[p] < Attempts
    /\ pc[p] = "idle" => attempt[p] = 0 /\ began[p] = 0

\* A copy of the current version is the row, as long as there is one, and a
\* conditional call has found it elapsed.
CopyInv ==
  \A p \in Writers :
    pc[p] = "write" =>
      /\ copy[p].version <= version
      /\ Exists(row) /\ copy[p].version = version => copy[p].row = row
      /\ p \in Expiring => Expirable(copy[p].row, call[p].at)

\* No lease is given twice.
FenceInv ==
  /\ row.holder <= row.fence
  /\ \A p \in Writers :
       /\ call[p].lease <= row.fence
       /\ p \in Claimed /\ pc[p] # "idle" => call[p].lease # NoLease

GoodClaim(p) == Exists(row) /\ (p \in Claimed => row.holder = call[p].lease)

RoundsInv ==
  \A p \in Writers :
    GoodClaim(p) => /\ attempt[p] <= version - began[p]
                    /\ pc[p] = "write" => attempt[p] <= copy[p].version - began[p]

IInv == TypeOK /\ CountInv /\ CopyInv /\ FenceInv /\ AppliedAsReported /\ RoundsInv

-----------------------------------------------------------------------------
(* What the statements make of a row *)

LEMMA MutatedRow ==
  ASSUME NEW p \in Writers, NEW r \in Rows
  PROVE  /\ Mutated(p, r) \in Rows
         /\ Mutated(p, r).times = [r.times EXCEPT ![p] = @ + 1]
         /\ Mutated(p, r).holder \in {r.holder, NoLease}
         /\ r.fence <= Mutated(p, r).fence
<1> DEFINE counted == [r EXCEPT !.times[p] = @ + 1]
<1>1. /\ r.times \in [Writers -> Nat] /\ r.fence \in Nat /\ r.fence + 1 \in Nat
      /\ r.times[p] + 1 \in Nat
  BY DEF Rows
<1>2. [r.times EXCEPT ![p] = @ + 1] \in [Writers -> Nat]
  BY <1>1
<1>3. /\ counted \in Rows /\ counted.times = [r.times EXCEPT ![p] = @ + 1]
      /\ counted.holder = r.holder /\ counted.fence = r.fence
  BY <1>2 DEF Rows
<1> HIDE DEF counted
<1>4. Mutated(p, r) = IF p \in Expiring
                      THEN [counted EXCEPT !.status = "pending", !.holder = NoLease,
                                !.fence = IF r.holder = NoLease THEN @ ELSE @ + 1]
                      ELSE IF p \in Final
                      THEN [counted EXCEPT !.status = "ended", !.holder = NoLease,
                                           !.deadline = NoLease]
                      ELSE counted
  BY DEF Mutated, counted
<1>5. CASE p \in Expiring
  <2> DEFINE next == IF r.holder = NoLease THEN counted.fence ELSE counted.fence + 1
  <2>1. next \in Nat /\ r.fence <= next /\ "pending" \in Statuses /\ NoLease \in Nat
    BY <1>1, <1>3 DEF Statuses, NoLease
  <2>2. Mutated(p, r) = [counted EXCEPT !.status = "pending", !.holder = NoLease,
                                        !.fence = next]
    BY <1>4, <1>5
  <2> HIDE DEF next
  <2> QED BY <1>3, <2>1, <2>2 DEF Rows
<1>6. CASE p \notin Expiring /\ p \in Final
  <2>1. "ended" \in Statuses /\ NoLease \in Nat
    BY DEF Statuses, NoLease
  <2>2. Mutated(p, r) = [counted EXCEPT !.status = "ended", !.holder = NoLease,
                                        !.deadline = NoLease]
    BY <1>4, <1>6
  <2>3. /\ Mutated(p, r) \in Rows /\ Mutated(p, r).times = counted.times
        /\ Mutated(p, r).holder = NoLease /\ Mutated(p, r).fence = counted.fence
    BY <1>3, <2>1, <2>2 DEF Rows
  <2> QED BY <1>1, <1>3, <2>3
<1>7. CASE p \notin Expiring /\ p \notin Final
  BY <1>1, <1>3, <1>4, <1>7
<1> QED BY <1>5, <1>6, <1>7

LEMMA LeasedRow ==
  ASSUME NEW r \in Rows, NEW t \in Nat
  PROVE  /\ Leased(r, t) \in Rows /\ Leased(r, t).times = r.times
         /\ Leased(r, t).holder = r.fence + 1 /\ Leased(r, t).fence = r.fence + 1
<1> DEFINE next == r.fence + 1
           later == t + 1
<1>1. next \in Nat /\ later \in Nat /\ "leased" \in Statuses
  BY DEF Rows, Statuses
<1>2. Leased(r, t) = [r EXCEPT !.status = "leased", !.holder = next, !.fence = next,
                               !.deadline = later]
  BY DEF Leased
<1> HIDE DEF next, later
<1>3. /\ Leased(r, t) \in Rows /\ Leased(r, t).times = r.times
      /\ Leased(r, t).holder = next /\ Leased(r, t).fence = next
  BY <1>1, <1>2 DEF Rows
<1> QED BY <1>3 DEF next

LEMMA BeatenRow ==
  ASSUME NEW r \in Rows, NEW t \in Nat
  PROVE  /\ Beaten(r, t) \in Rows /\ Beaten(r, t).times = r.times
         /\ Beaten(r, t).holder = r.holder /\ Beaten(r, t).fence = r.fence
BY DEF Beaten, Rows, Statuses

LEMMA GoneRow ==
  ASSUME NEW r \in Rows
  PROVE  /\ Gone(r) \in Rows /\ Gone(r).times = r.times /\ ~Exists(Gone(r))
         /\ Gone(r).holder = NoLease /\ Gone(r).fence = r.fence
BY DEF Gone, Rows, Statuses, Exists, NoLease

LEMMA CallsAreCalls ==
  ASSUME NEW p \in Writers, NEW r \in Rows, NEW t \in Nat, NEW made \in Calls(p, r, t)
  PROVE  /\ made \in [lease : Nat, at : Nat] /\ made.lease <= r.fence
         /\ p \in Claimed => made.lease # NoLease
<1>1. r.fence \in Nat
  BY DEF Rows
<1>2. CASE p \in Claimed
  <2>1. PICK l \in 1..r.fence : made = [NoCall EXCEPT !.lease = l]
    BY <1>2 DEF Calls
  <2> QED BY <1>1, <1>2, <2>1 DEF NoCall, NoLease
<1>3. CASE p \notin Claimed
  BY <1>1, <1>3 DEF Calls, NoCall, NoLease
<1> QED BY <1>2, <1>3

LEMMA FirstIsRow == FirstRow \in Rows /\ NoCopy \in [row : Rows, version : Nat]
BY DEF FirstRow, NoCopy, Rows, Statuses, NoLease

LEMMA InitInv == Init => IInv
<1> SUFFICES ASSUME Init PROVE IInv
  OBVIOUS
<1> USE FirstIsRow, BoundsAssumption DEF Init
<1>1. TypeOK
  BY DEF TypeOK, NoCall, NoLease
<1>2. CountInv /\ CopyInv
  BY DEF CountInv, CopyInv, Outcomes
<1>3. FenceInv
  BY DEF FenceInv, FirstRow, NoCall, NoLease
<1>4. AppliedAsReported
  BY DEF AppliedAsReported, FirstRow
<1>5. RoundsInv
  BY DEF RoundsInv
<1> QED BY <1>1, <1>2, <1>3, <1>4, <1>5 DEF IInv

-----------------------------------------------------------------------------
(* The steps of a call *)

LEMMA BeginStep == ASSUME IInv, NEW p \in Writers, Begin(p) PROVE IInv'
<1> USE DEF IInv
<1>1. PICK made \in Calls(p, row, now) : call' = [call EXCEPT ![p] = made]
  BY DEF Begin
<1>2. /\ row \in Rows /\ now \in Nat
      /\ made \in [lease : Nat, at : Nat] /\ made.lease <= row.fence
      /\ p \in Claimed => made.lease # NoLease
  BY CallsAreCalls DEF TypeOK
<1>3. /\ row' = row /\ version' = version /\ now' = now /\ copy' = copy /\ attempt' = attempt
      /\ pc[p] = "idle" /\ pc' = [pc EXCEPT ![p] = "read"]
      /\ began' = [began EXCEPT ![p] = version]
  BY DEF Begin, Goto
<1>4. TypeOK'
  BY <1>1, <1>2, <1>3 DEF TypeOK
<1>5. CountInv'
  BY <1>3 DEF CountInv, TypeOK, Outcomes
<1>6. CopyInv'
  BY <1>1, <1>3 DEF CopyInv, TypeOK
<1>7. FenceInv'
  BY <1>1, <1>2, <1>3 DEF FenceInv, TypeOK
<1>8. AppliedAsReported'
  BY <1>3 DEF AppliedAsReported, TypeOK
<1>9. RoundsInv'
  <2> SUFFICES ASSUME NEW q \in Writers, GoodClaim(q)'
               PROVE  /\ attempt'[q] <= version' - began'[q]
                      /\ pc'[q] = "write" => attempt'[q] <= copy'[q].version - began'[q]
    BY DEF RoundsInv
  <2>1. CASE q = p
    BY <2>1, <1>3 DEF CountInv, TypeOK
  <2>2. CASE q # p
    <3>1. GoodClaim(q)
      BY <2>2, <1>1, <1>3 DEF GoodClaim, TypeOK
    <3> QED BY <2>2, <3>1, <1>3 DEF RoundsInv, TypeOK
  <2> QED BY <2>1, <2>2
<1> QED BY <1>4, <1>5, <1>6, <1>7, <1>8, <1>9

\* A call that is over, and has not written.
LEMMA EndsUnwritten ==
  ASSUME IInv, NEW p \in Writers, NEW outcome \in {"threw", "declined"},
         pc[p] \in {"read", "write"}, Over(p, outcome),
         UNCHANGED <<row, version, now, call, attempt, began>>
  PROVE  IInv'
<1> USE DEF IInv
<1>1. /\ row' = row /\ version' = version /\ now' = now /\ call' = call
      /\ attempt' = attempt /\ began' = began
      /\ pc' = [pc EXCEPT ![p] = outcome] /\ copy' = [copy EXCEPT ![p] = NoCopy]
  BY DEF Over, Goto
<1>2. TypeOK'
  BY <1>1, FirstIsRow DEF TypeOK, Outcomes
<1>3. CountInv' /\ CopyInv' /\ FenceInv'
  BY <1>1 DEF CountInv, CopyInv, FenceInv, TypeOK, Outcomes
<1>4. AppliedAsReported'
  BY <1>1 DEF AppliedAsReported, TypeOK
<1>5. RoundsInv'
  BY <1>1 DEF RoundsInv, GoodClaim, TypeOK
<1> QED BY <1>2, <1>3, <1>4, <1>5

LEMMA FailStep == ASSUME IInv, NEW p \in Writers, Fail(p) PROVE IInv'
BY EndsUnwritten DEF Fail

LEMMA ReadStep == ASSUME IInv, NEW p \in Writers, Read(p) PROVE IInv'
<1> USE DEF IInv
<1>1. /\ row' = row /\ version' = version /\ now' = now /\ call' = call
      /\ attempt' = attempt /\ began' = began /\ pc[p] = "read"
  BY DEF Read
<1>2. ASSUME NEW outcome \in {"threw", "declined"}, Over(p, outcome) PROVE IInv'
  BY <1>1, <1>2, EndsUnwritten
<1>3. CASE /\ copy' = [copy EXCEPT ![p] = [row |-> row, version |-> version]]
           /\ p \in Expiring => Expirable(row, call[p].at)
           /\ Goto(p, "write")
  <2>1. pc' = [pc EXCEPT ![p] = "write"] /\ copy'[p].row = row /\ copy'[p].version = version
    BY <1>3 DEF Goto, TypeOK
  <2>2. TypeOK'
    BY <1>1, <1>3, <2>1 DEF TypeOK
  <2>3. CountInv' /\ FenceInv'
    BY <1>1, <2>1 DEF CountInv, FenceInv, TypeOK, Outcomes
  <2>4. CopyInv'
    BY <1>1, <1>3, <2>1 DEF CopyInv, TypeOK
  <2>5. AppliedAsReported'
    BY <1>1, <2>1 DEF AppliedAsReported, TypeOK
  <2>6. RoundsInv'
    BY <1>1, <1>3, <2>1 DEF RoundsInv, GoodClaim, TypeOK
  <2> QED BY <2>2, <2>3, <2>4, <2>5, <2>6
<1> QED BY <1>2, <1>3 DEF Read

\* A committed copy is the row as it is.
LEMMA CommitsCurrent ==
  ASSUME IInv, NEW p \in Writers, Write(p),
         version = copy[p].version, Permitted(p, call[p], row)
  PROVE  copy[p].row = row
BY DEF IInv, CopyInv, Write, Permitted

LEMMA CommitStep ==
  ASSUME IInv, NEW p \in Writers, Write(p),
         version = copy[p].version, Permitted(p, call[p], row)
  PROVE  IInv'
<1> USE DEF IInv
<1>1. /\ row' = Mutated(p, row) /\ version' = version + 1 /\ now' = now /\ call' = call
      /\ attempt' = attempt /\ began' = began /\ pc[p] = "write"
      /\ copy' = [copy EXCEPT ![p] = NoCopy]
      /\ \E outcome \in {"returned", "threw"} : pc' = [pc EXCEPT ![p] = outcome]
  BY CommitsCurrent DEF Write, Commit, Over, Goto
<1>2. /\ row \in Rows /\ row' \in Rows /\ row'.times = [row.times EXCEPT ![p] = @ + 1]
      /\ row'.holder \in {row.holder, NoLease} /\ row.fence <= row'.fence
      /\ row.holder \in Nat /\ row.fence \in Nat /\ row'.holder \in Nat /\ row'.fence \in Nat
      /\ row.times \in [Writers -> Nat]
  BY <1>1, MutatedRow DEF TypeOK, Rows
<1>3. TypeOK'
  BY <1>1, <1>2, FirstIsRow DEF TypeOK, Outcomes
<1>4. CountInv'
  BY <1>1 DEF CountInv, TypeOK, Outcomes
<1>5. CopyInv'
  BY <1>1 DEF CopyInv, TypeOK
<1>6. FenceInv'
  BY <1>1, <1>2 DEF FenceInv, TypeOK, NoLease
<1>7. AppliedAsReported'
  BY <1>1, <1>2 DEF AppliedAsReported, TypeOK
<1>8. RoundsInv'
  <2> SUFFICES ASSUME NEW q \in Writers, GoodClaim(q)'
               PROVE  /\ attempt'[q] <= version' - began'[q]
                      /\ pc'[q] = "write" => attempt'[q] <= copy'[q].version - began'[q]
    BY DEF RoundsInv
  <2>1. CASE pc[q] = "idle"
    BY <2>1, <1>1 DEF CountInv, TypeOK
  <2>2. CASE pc[q] # "idle"
    <3>1. Exists(row)
      BY DEF Permitted
    <3>2. q \in Claimed => row.holder = call[q].lease
      BY <2>2, <1>1, <1>2 DEF GoodClaim, FenceInv
    <3>3. GoodClaim(q)
      BY <3>1, <3>2 DEF GoodClaim
    <3> QED BY <3>3, <1>1 DEF RoundsInv, TypeOK
  <2> QED BY <2>1, <2>2
<1> QED BY <1>3, <1>4, <1>5, <1>6, <1>7, <1>8

LEMMA RetryStep ==
  ASSUME IInv, NEW p \in Writers, Write(p),
         ~(version = copy[p].version /\ Permitted(p, call[p], row))
  PROVE  IInv'
<1> USE DEF IInv
<1>1. /\ row' = row /\ version' = version /\ now' = now /\ call' = call /\ began' = began
      /\ attempt' = [attempt EXCEPT ![p] = @ + 1] /\ pc[p] = "write"
      /\ \/ /\ attempt[p] + 1 = Attempts /\ pc' = [pc EXCEPT ![p] = "threw"]
            /\ copy' = [copy EXCEPT ![p] = NoCopy]
         \/ /\ attempt[p] + 1 # Attempts /\ pc' = [pc EXCEPT ![p] = "read"] /\ copy' = copy
  BY DEF Write, Retry, Over, Goto
<1>2. attempt[p] + 1 \in 0..Attempts /\ (attempt[p] + 1 # Attempts => attempt[p] + 1 < Attempts)
  <2>1. attempt[p] \in 0..Attempts /\ Attempts \in Nat
    BY BoundsAssumption DEF TypeOK
  <2>2. attempt[p] < Attempts
    BY <1>1 DEF CountInv, Outcomes
  <2> QED BY <2>1, <2>2
<1>3. TypeOK'
  BY <1>1, <1>2, FirstIsRow DEF TypeOK, Outcomes
<1>4. CountInv'
  BY <1>1, <1>2 DEF CountInv, TypeOK, Outcomes
<1>5. CopyInv' /\ FenceInv' /\ AppliedAsReported'
  BY <1>1 DEF CopyInv, FenceInv, AppliedAsReported, TypeOK
<1>6. GoodClaim(p) => copy[p].version < version
  <2>0. copy[p].version \in Nat /\ version \in Nat /\ copy[p].version <= version
    BY <1>1 DEF CopyInv, TypeOK
  <2> SUFFICES ASSUME GoodClaim(p), copy[p].version = version PROVE FALSE
    BY <2>0
  <2>1. copy[p].row = row /\ (p \in Expiring => Expirable(row, call[p].at))
    BY <1>1 DEF CopyInv, GoodClaim
  <2> QED BY <2>1 DEF GoodClaim, Permitted
<1>7. RoundsInv'
  <2> SUFFICES ASSUME NEW q \in Writers, GoodClaim(q)'
               PROVE  /\ attempt'[q] <= version' - began'[q]
                      /\ pc'[q] = "write" => attempt'[q] <= copy'[q].version - began'[q]
    BY DEF RoundsInv
  <2>1. GoodClaim(q)
    BY <1>1 DEF GoodClaim
  <2>2. CASE q = p
    <3>1. /\ attempt'[p] = attempt[p] + 1 /\ pc'[p] # "write"
          /\ attempt[p] <= copy[p].version - began[p]
      BY <1>1, <2>1, <2>2 DEF RoundsInv, TypeOK
    <3>2. /\ attempt[p] \in Int /\ version \in Int /\ began[p] \in Int
          /\ copy[p].version \in Int
      BY DEF TypeOK
    <3> QED BY <1>1, <1>6, <2>1, <2>2, <3>1, <3>2
  <2>3. CASE q # p
    BY <1>1, <2>1, <2>3 DEF RoundsInv, TypeOK
  <2> QED BY <2>2, <2>3
<1> QED BY <1>3, <1>4, <1>5, <1>7

-----------------------------------------------------------------------------
(* The other statements *)

\* A change of the row that applies no update, counts the version up, and gives no
\* lease but a new one.
LEMMA StatementStep ==
  ASSUME IInv, NEW r \in Rows, Statement(r), Exists(row),
         r.times = row.times, row.fence <= r.fence, r.holder <= r.fence,
         r.holder = row.holder \/ row.fence < r.holder
  PROVE  IInv'
<1> USE DEF IInv
<1>1. /\ row' = r /\ version' = version + 1 /\ now' = now /\ call' = call /\ pc' = pc
      /\ copy' = copy /\ attempt' = attempt /\ began' = began
  BY DEF Statement
<1>2. row.holder \in Nat /\ row.fence \in Nat /\ r.holder \in Nat /\ r.fence \in Nat
  BY DEF TypeOK, Rows
<1>3. TypeOK' /\ CountInv' /\ AppliedAsReported'
  BY <1>1 DEF TypeOK, CountInv, AppliedAsReported
<1>4. CopyInv'
  BY <1>1 DEF CopyInv, TypeOK
<1>5. FenceInv'
  BY <1>1, <1>2 DEF FenceInv, TypeOK
<1>6. RoundsInv'
  <2> SUFFICES ASSUME NEW q \in Writers, GoodClaim(q)'
               PROVE  /\ attempt'[q] <= version' - began'[q]
                      /\ pc'[q] = "write" => attempt'[q] <= copy'[q].version - began'[q]
    BY DEF RoundsInv
  <2>1. call[q].lease <= row.fence /\ call[q].lease \in Nat
    BY DEF FenceInv, TypeOK
  <2>2. GoodClaim(q)
    BY <1>1, <1>2, <2>1 DEF GoodClaim
  <2> QED BY <1>1, <2>2 DEF RoundsInv, TypeOK
<1> QED BY <1>3, <1>4, <1>5, <1>6

LEMMA ClaimStep == IInv /\ ClaimProcessing => IInv'
<1> SUFFICES ASSUME IInv, ClaimProcessing PROVE IInv'
  OBVIOUS
<1>1. row \in Rows /\ now \in Nat /\ row.fence \in Nat /\ Exists(row)
  BY DEF IInv, TypeOK, Rows, ClaimProcessing, Claimable, Exists
<1>2. /\ Leased(row, now) \in Rows /\ Leased(row, now).times = row.times
      /\ Leased(row, now).holder = row.fence + 1 /\ Leased(row, now).fence = row.fence + 1
  BY <1>1, LeasedRow
<1> QED BY <1>1, <1>2, StatementStep DEF ClaimProcessing

LEMMA HeartbeatStep == IInv /\ Heartbeat => IInv'
<1> SUFFICES ASSUME IInv, Heartbeat PROVE IInv'
  OBVIOUS
<1>1. row \in Rows /\ now \in Nat /\ row.fence \in Nat /\ row.holder <= row.fence /\ Exists(row)
  BY DEF IInv, TypeOK, Rows, Heartbeat, Exists, FenceInv
<1>2. /\ Beaten(row, now) \in Rows /\ Beaten(row, now).times = row.times
      /\ Beaten(row, now).holder = row.holder /\ Beaten(row, now).fence = row.fence
  BY <1>1, BeatenRow
<1> QED BY <1>1, <1>2, StatementStep DEF Heartbeat

LEMMA RemoveStep == IInv /\ Remove => IInv'
<1> SUFFICES ASSUME IInv, Remove PROVE IInv'
  OBVIOUS
<1> USE DEF IInv
<1>1. /\ row' = Gone(row) /\ version' = version /\ now' = now /\ call' = call /\ pc' = pc
      /\ copy' = copy /\ attempt' = attempt /\ began' = began
  BY DEF Remove
<1>2. /\ row' \in Rows /\ row'.times = row.times /\ ~Exists(row')
      /\ row'.holder = NoLease /\ row'.fence = row.fence /\ row.fence \in Nat
  BY <1>1, GoneRow DEF TypeOK, Rows
<1>3. TypeOK' /\ CountInv' /\ AppliedAsReported'
  BY <1>1, <1>2 DEF TypeOK, CountInv, AppliedAsReported
<1>4. CopyInv' /\ FenceInv' /\ RoundsInv'
  BY <1>1, <1>2 DEF CopyInv, FenceInv, RoundsInv, GoodClaim, NoLease
<1> QED BY <1>3, <1>4

LEMMA TickStep == IInv /\ (Tick \/ UNCHANGED vars) => IInv'
<1> SUFFICES ASSUME IInv, Tick \/ UNCHANGED vars PROVE IInv'
  OBVIOUS
<1> USE DEF IInv
<1>1. /\ row' = row /\ version' = version /\ now' \in Nat /\ call' = call /\ pc' = pc
      /\ copy' = copy /\ attempt' = attempt /\ began' = began
  BY DEF Tick, vars, TypeOK
<1> QED BY <1>1 DEF TypeOK, CountInv, CopyInv, FenceInv, AppliedAsReported, RoundsInv, GoodClaim

LEMMA NextInv == IInv /\ [Next]_vars => IInv'
<1> SUFFICES ASSUME IInv, [Next]_vars PROVE IInv'
  OBVIOUS
<1>1. ASSUME NEW p \in Writers, Begin(p) \/ Read(p) \/ Write(p) \/ Fail(p) PROVE IInv'
  BY <1>1, BeginStep, ReadStep, CommitStep, RetryStep, FailStep
<1> QED BY <1>1, ClaimStep, HeartbeatStep, RemoveStep, TickStep DEF Next

-----------------------------------------------------------------------------
(* The loop as one step *)

\* What a step of one call is to its caller.
LEMMA ResultOf ==
  ASSUME TypeOK, NEW p \in Writers, NEW s \in {"idle", "read", "write"} \cup Outcomes,
         pc' = [pc EXCEPT ![p] = s]
  PROVE  Result' = [Result EXCEPT ![p] = IF s \in {"read", "write"} THEN "running" ELSE s]
BY DEF Result, TypeOK

LEMMA ResultSame == pc' = pc => Result' = Result
BY DEF Result

LEMMA ResultRunning ==
  ASSUME TypeOK, NEW p \in Writers
  PROVE  /\ pc[p] \in {"read", "write"} => Result[p] = "running"
         /\ pc[p] = "idle" => Result[p] = "idle"
         /\ Result[p] = "running" => Result = [Result EXCEPT ![p] = "running"]
BY DEF Result, TypeOK

LEMMA BeginAtomic == ASSUME IInv, NEW p \in Writers, Begin(p) PROVE Atomic!Begin(p)
<1>1. TypeOK /\ pc[p] = "idle" /\ pc' = [pc EXCEPT ![p] = "read"]
  BY DEF IInv, Begin, Goto
<1>2. Result[p] = "idle" /\ Result' = [Result EXCEPT ![p] = "running"]
  BY <1>1, ResultOf, ResultRunning
<1>3. /\ \E made \in Calls(p, row, now) : call' = [call EXCEPT ![p] = made]
      /\ UNCHANGED <<row, now>>
  BY DEF Begin
<1> QED
  BY <1>2, <1>3 DEF Atomic!Begin, Atomic!Ends, Atomic!Calls, Calls, Atomic!NoCall, NoCall,
     Atomic!NoLease, NoLease

\* A call that ends without having written failed, to its caller.
LEMMA ThrewAtomic ==
  ASSUME IInv, NEW p \in Writers, pc[p] \in {"read", "write"}, Over(p, "threw"),
         UNCHANGED <<row, now, call>>
  PROVE  Atomic!Fail(p)
<1>1. TypeOK /\ pc' = [pc EXCEPT ![p] = "threw"]
  BY DEF IInv, Over, Goto
<1>2. Result[p] = "running" /\ Result' = [Result EXCEPT ![p] = "threw"]
  BY <1>1, ResultOf, ResultRunning DEF Outcomes
<1> QED BY <1>2 DEF Atomic!Fail, Atomic!Ends

LEMMA MovesUnseen ==
  ASSUME IInv, NEW p \in Writers, pc[p] \in {"read", "write"},
         NEW s \in {"read", "write"}, Goto(p, s), UNCHANGED <<row, now, call>>
  PROVE  UNCHANGED Atomic!vars
<1>1. Result' = [Result EXCEPT ![p] = "running"]
  BY ResultOf DEF IInv, Goto
<1>2. Result = [Result EXCEPT ![p] = "running"]
  BY ResultRunning DEF IInv
<1> QED BY <1>1, <1>2 DEF Atomic!vars

LEMMA ReadAtomic ==
  ASSUME IInv, NEW p \in Writers, Read(p)
  PROVE  Atomic!Decline(p) \/ Atomic!Fail(p) \/ UNCHANGED Atomic!vars
<1>1. pc[p] \in {"read", "write"} /\ UNCHANGED <<row, now, call>>
  BY DEF Read
<1>2. CASE Over(p, "threw")
  BY <1>1, <1>2, ThrewAtomic
<1>3. CASE /\ Exists(row) /\ p \in Expiring /\ ~Expirable(row, call[p].at)
           /\ Over(p, "declined")
  <2>1. TypeOK /\ pc' = [pc EXCEPT ![p] = "declined"]
    BY <1>3 DEF IInv, Over, Goto
  <2>2. Result[p] = "running" /\ Result' = [Result EXCEPT ![p] = "declined"]
    BY <1>1, <2>1, ResultOf, ResultRunning DEF Outcomes
  <2> QED
    BY <1>1, <1>3, <2>2 DEF Atomic!Decline, Atomic!Ends, Atomic!Exists, Exists,
       Atomic!Expirable, Expirable, Atomic!NoLease, NoLease
<1>4. CASE Goto(p, "write")
  BY <1>1, <1>4, MovesUnseen
<1> QED BY <1>2, <1>3, <1>4 DEF Read

\* The UPDATE that takes effect is the step, and a lost round is none.
LEMMA WriteAtomic ==
  ASSUME IInv, NEW p \in Writers, Write(p)
  PROVE  Atomic!Apply(p) \/ Atomic!Fail(p) \/ UNCHANGED Atomic!vars
<1>1. CASE version = copy[p].version /\ Permitted(p, call[p], row)
  <2>1. PICK outcome \in {"returned", "threw"} : pc' = [pc EXCEPT ![p] = outcome]
    BY <1>1 DEF Write, Commit, Over, Goto
  <2>2. /\ TypeOK /\ pc[p] = "write" /\ UNCHANGED <<now, call>>
        /\ row' = Mutated(p, row)
    BY <1>1, CommitsCurrent DEF IInv, Write, Commit
  <2>3. Result[p] = "running" /\ Result' = [Result EXCEPT ![p] = outcome]
    BY <2>1, <2>2, ResultOf, ResultRunning DEF Outcomes
  <2>4. Atomic!Permitted(p, call[p], row)
    BY <1>1 DEF Atomic!Permitted, Permitted, Atomic!Exists, Exists, Atomic!Expirable,
       Expirable, Atomic!NoLease, NoLease
  <2>5. row' = Atomic!Mutated(p, row)
    BY <2>2 DEF Atomic!Mutated, Mutated, Atomic!NoLease, NoLease
  <2> QED BY <2>2, <2>3, <2>4, <2>5 DEF Atomic!Apply, Atomic!Ends
<1>2. CASE ~(version = copy[p].version /\ Permitted(p, call[p], row))
  <2>1. /\ pc[p] \in {"read", "write"} /\ UNCHANGED <<row, now, call>>
        /\ Over(p, "threw") \/ Goto(p, "read")
    BY <1>2 DEF Write, Retry
  <2> QED BY <2>1, ThrewAtomic, MovesUnseen
<1> QED BY <1>1, <1>2

LEMMA FailAtomic == ASSUME IInv, NEW p \in Writers, Fail(p) PROVE Atomic!Fail(p)
BY ThrewAtomic DEF Fail

LEMMA StatementsAtomic ==
  ASSUME ClaimProcessing \/ Heartbeat \/ Remove \/ Tick
  PROVE  Atomic!ClaimProcessing \/ Atomic!Heartbeat \/ Atomic!Remove \/ Atomic!Tick
<1>1. CASE ClaimProcessing
  BY <1>1, ResultSame DEF ClaimProcessing, Statement, Atomic!ClaimProcessing,
     Atomic!Claimable, Claimable, Atomic!Leased, Leased
<1>2. CASE Heartbeat
  BY <1>2, ResultSame DEF Heartbeat, Statement, Atomic!Heartbeat, Atomic!Beaten, Beaten
<1>3. CASE Remove
  BY <1>3, ResultSame DEF Remove, Atomic!Remove, Atomic!Exists, Exists, Atomic!Gone, Gone,
     Atomic!NoLease, NoLease
<1>4. CASE Tick
  BY <1>4, ResultSame DEF Tick, Atomic!Tick
<1> QED BY <1>1, <1>2, <1>3, <1>4

LEMMA StepAtomic == IInv /\ [Next]_vars => [Atomic!Next]_Atomic!vars
<1> SUFFICES ASSUME IInv, [Next]_vars PROVE [Atomic!Next]_Atomic!vars
  OBVIOUS
<1>1. ASSUME NEW p \in Writers, Begin(p) \/ Read(p) \/ Write(p) \/ Fail(p)
      PROVE  \/ Atomic!Begin(p) \/ Atomic!Apply(p) \/ Atomic!Decline(p) \/ Atomic!Fail(p)
             \/ UNCHANGED Atomic!vars
  BY <1>1, BeginAtomic, ReadAtomic, WriteAtomic, FailAtomic
<1>2. CASE UNCHANGED vars
  BY <1>2, ResultSame DEF vars, Atomic!vars
<1> QED BY <1>1, <1>2, StatementsAtomic DEF Next, Atomic!Next

LEMMA InitAtomic == Init => Atomic!Init
BY DEF Init, Atomic!Init, Result, Atomic!FirstRow, FirstRow, Atomic!NoCall, NoCall,
   Atomic!NoLease, NoLease

-----------------------------------------------------------------------------
(* Theorems *)

\* The invariant holds of every state of the loop and its rivals.
LEMMA Inductive == Spec => []IInv
BY InitInv, NextInv, PTL DEF Spec

\* NeonRunStore.update keeps its data within their types: above all no call loses
\* more rounds than the loop has.
THEOREM TypeCorrect == Spec => []TypeOK
BY Inductive, PTL DEF IInv

\* An update whose call returned was applied once and not overwritten, one whose call
\* threw at most once, and one whose call declined not at all.
THEOREM Reported == Spec => []AppliedAsReported
BY Inductive, PTL DEF IInv

\* A call with a good claim has lost each of its rounds to a write of another.
THEOREM Rounds == Spec => []LosesOnlyToOthers
<1>1. IInv => LosesOnlyToOthers
  BY DEF IInv, RoundsInv, GoodClaim, LosesOnlyToOthers
<1> QED BY <1>1, Inductive, PTL

\* The SELECT, the updater and the conditional UPDATE, in up to Attempts rounds, are
\* to everyone else one guarded step on the row.
THEOREM Implements == Spec => RefinesAtomicUpdate
<1> QED BY InitAtomic, StepAtomic, Inductive, PTL DEF Spec, RefinesAtomicUpdate, Atomic!Spec

(***************************************************************************)
(* Second part.  The heartbeat, for any invocations, budgets, ages and     *)
(* differences of the clocks.                                              *)
(***************************************************************************)

\* The time a heartbeat gives is, but for the clocks, one at which passes completed.
TrueBeat(beat) ==
  /\ beat \in [at : Int, duration : Int]
  /\ \E t \in s5 : t \in Int /\ t <= beat.at /\ beat.at <= t + Skew

Invoked == [step : {"none", "working", "recording", "sent", "over"}, start : Nat, clock : Nat,
            duration : Nat]

BeatInv ==
  /\ s1 \in Nat /\ s2 \in [Invocations -> Invoked]
  /\ \A beat \in s3 : TrueBeat(beat)
  /\ s4 = Beat!Missing \/ TrueBeat(s4)
  /\ \A i \in Invocations :
       s2[i].step \in {"working", "recording"} =>
         /\ s2[i].start <= s1
         /\ s2[i].start <= s2[i].clock /\ s2[i].clock <= s2[i].start + Skew
  /\ \A i \in Invocations : s2[i].step = "recording" => TrueBeat(Beat!Summary(i))
  /\ Beat!FreshIsTrue

LEMMA BeatInit == Beat!Init => BeatInv
BY DEF Beat!Init, BeatInv, Invoked, Beat!Idle, Beat!Missing, Beat!FreshIsTrue

\* An invocation moves on.
LEMMA InvocationMoves ==
  ASSUME BeatInv, NEW i \in Invocations, Beat!Start(i) \/ Beat!Fail(i) \/ Beat!Record(i)
  PROVE  BeatInv'
<1>1. UNCHANGED <<s1, s4, s5, s6>>
  BY DEF Beat!Start, Beat!Fail, Beat!Record
<1>2. s1' \in Nat /\ (s4' = Beat!Missing \/ TrueBeat(s4)') /\ Beat!FreshIsTrue'
  BY <1>1 DEF BeatInv, TrueBeat, Beat!FreshIsTrue
<1>3. Skew \in Nat
  BY RowsAssumption DEF RowsAssumption, Beat!HeartbeatAssumption
<1>4. CASE Beat!Start(i)
  <2>1. PICK clock \in {s1, s1 + Skew} :
          s2' = [s2 EXCEPT ![i] = [step |-> "working", start |-> s1, clock |-> clock, duration |-> 0]]
    BY <1>4 DEF Beat!Start
  <2>2. s2' \in [Invocations -> Invoked] /\ clock \in Nat
    BY <1>3, <2>1 DEF BeatInv, Invoked
  <2>3. /\ s2'[i].step = "working" /\ s2'[i].start = s1 /\ s2'[i].clock = clock
        /\ \A j \in Invocations \ {i} : s2'[j] = s2[j]
    BY <2>1 DEF BeatInv
  <2>4. s3' = s3
    BY <1>4 DEF Beat!Start
  <2>5. \A j \in Invocations : s2'[j].step = "recording" => TrueBeat(Beat!Summary(j))'
    BY <1>1, <2>3 DEF BeatInv, TrueBeat, Beat!Summary
  <2>6. \A j \in Invocations :
          s2'[j].step \in {"working", "recording"} =>
            s2'[j].start <= s1 /\ s2'[j].start <= s2'[j].clock /\ s2'[j].clock <= s2'[j].start + Skew
    BY <1>3, <2>1, <2>3 DEF BeatInv
  <2> QED
    BY <1>1, <1>2, <2>2, <2>4, <2>5, <2>6 DEF BeatInv, TrueBeat
<1>5. ASSUME NEW step \in {"over", "sent"}, Beat!Set(i, step)
      PROVE  /\ s2' \in [Invocations -> Invoked]
             /\ \A j \in Invocations :
                  s2'[j].step \in {"working", "recording"} =>
                    s2'[j].start <= s1 /\ s2'[j].start <= s2'[j].clock /\ s2'[j].clock <= s2'[j].start + Skew
             /\ \A j \in Invocations : s2'[j].step = "recording" => TrueBeat(Beat!Summary(j))'
  <2>1. s2' = [s2 EXCEPT ![i] = [s2[i] EXCEPT !.step = step]]
    BY <1>5 DEF Beat!Set
  <2>2. s2' \in [Invocations -> Invoked]
    BY <2>1 DEF BeatInv, Invoked
  <2>3. s2'[i].step = step /\ \A j \in Invocations \ {i} : s2'[j] = s2[j]
    BY <2>1 DEF BeatInv
  <2> QED
    BY <1>1, <2>2, <2>3 DEF BeatInv, TrueBeat, Beat!Summary
<1>6. CASE Beat!Fail(i)
  <2>1. Beat!Set(i, "over") /\ s3' = s3
    BY <1>6 DEF Beat!Fail
  <2> QED
    BY <1>1, <1>2, <1>5, <2>1 DEF BeatInv, TrueBeat
<1>7. CASE Beat!Record(i)
  <2>1. Beat!Set(i, "sent") /\ s3' = s3 \cup {Beat!Summary(i)} /\ TrueBeat(Beat!Summary(i))
    BY <1>7 DEF Beat!Record, BeatInv
  <2> QED
    BY <1>1, <1>2, <1>5, <2>1 DEF BeatInv, TrueBeat
<1> QED
  BY <1>4, <1>6, <1>7

LEMMA PassesStep ==
  ASSUME BeatInv, NEW i \in Invocations, Beat!Passes(i)
  PROVE  BeatInv'
<1>1. /\ s2[i].step = "working" /\ s5' = s5 \cup {s1} /\ UNCHANGED <<s1, s3, s4, s6>>
      /\ s2' = [s2 EXCEPT ![i] = [s2[i] EXCEPT !.step = "recording", !.duration = s1 - s2[i].start]]
      /\ s1 - s2[i].start < Budget
  BY DEF Beat!Passes, Beat!Elapsed, BeatInv
<1>2. /\ s1 \in Nat /\ s2[i].start \in Nat /\ s2[i].clock \in Nat /\ Skew \in Nat
      /\ s2[i].start <= s2[i].clock /\ s2[i].clock <= s2[i].start + Skew
  BY <1>1, RowsAssumption DEF BeatInv, Invoked, RowsAssumption, Beat!HeartbeatAssumption
<1>3. s2[i].start <= s1
  BY <1>1 DEF BeatInv
<1>4. /\ s2'[i].step = "recording" /\ s2'[i].start = s2[i].start /\ s2'[i].clock = s2[i].clock
      /\ s2'[i].duration = s1 - s2[i].start /\ \A j \in Invocations \ {i} : s2'[j] = s2[j]
  BY <1>1 DEF BeatInv, Invoked
<1>5. TrueBeat(Beat!Summary(i))'
  <2>1. s2'[i].clock + s2'[i].duration \in Int /\ s2'[i].duration \in Int
    BY <1>2, <1>4
  <2>2. s1 \in s5' /\ s1 <= s2'[i].clock + s2'[i].duration
        /\ s2'[i].clock + s2'[i].duration <= s1 + Skew
    BY <1>1, <1>2, <1>4
  <2> QED
    BY <1>2, <2>1, <2>2 DEF TrueBeat, Beat!Summary
<1>6. s2' \in [Invocations -> Invoked]
  <2>1. s1 - s2[i].start \in Nat
    BY <1>2, <1>3
  <2> QED
    BY <1>1, <2>1 DEF BeatInv, Invoked
<1>7. ASSUME NEW j \in Invocations
      PROVE  /\ s2'[j].step \in {"working", "recording"} =>
                  /\ s2'[j].start <= s1 /\ s2'[j].start <= s2'[j].clock
                  /\ s2'[j].clock <= s2'[j].start + Skew
             /\ s2'[j].step = "recording" => TrueBeat(Beat!Summary(j))'
  <2>1. CASE j = i
    BY <1>2, <1>3, <1>4, <1>5, <2>1
  <2>2. CASE j # i
    BY <1>1, <1>4, <2>2 DEF BeatInv, TrueBeat, Beat!Summary
  <2> QED BY <2>1, <2>2
<1>8. (\A beat \in s3' : TrueBeat(beat)') /\ (s4' = Beat!Missing \/ TrueBeat(s4)')
  BY <1>1 DEF BeatInv, TrueBeat
<1>9. Beat!FreshIsTrue'
  BY <1>1 DEF BeatInv, Beat!FreshIsTrue
<1> QED
  BY <1>1, <1>2, <1>6, <1>7, <1>8, <1>9 DEF BeatInv

\* A heartbeat lands or is lost, an admission looks, time passes, or nothing happens.
LEMMA LandStep ==
  ASSUME BeatInv, NEW beat \in s3, Beat!Land(beat) \/ Beat!Drop(beat)
  PROVE  BeatInv'
<1>1. UNCHANGED <<s1, s2, s5, s6>> /\ s3' \subseteq s3 /\ s4' \in {s4, beat}
  BY DEF Beat!Land, Beat!Drop, Beat!Recorded
<1>2. TrueBeat(beat) /\ (s4' = Beat!Missing \/ TrueBeat(s4)')
  BY <1>1 DEF BeatInv, TrueBeat
<1> QED
  BY <1>1, <1>2 DEF BeatInv, TrueBeat, Beat!Summary, Beat!FreshIsTrue

LEMMA ProbeStep == ASSUME BeatInv, Beat!Probe PROVE BeatInv'
<1>1. UNCHANGED <<s1, s2, s3, s4, s5>>
  BY DEF Beat!Probe
<1>2. Beat!FreshIsTrue'
  <2> SUFFICES ASSUME s6' = "fresh" PROVE \E t \in s5 : s1 - t <= MaxAge + Skew
    BY <1>1 DEF Beat!FreshIsTrue
  <2>1. s4 # Beat!Missing /\ Beat!Recent(s4)
    BY DEF Beat!Probe
  <2>2. PICK t \in s5 : t \in Int /\ t <= s4.at /\ s4.at <= t + Skew /\ s4.at \in Int
    BY <2>1 DEF BeatInv, TrueBeat
  <2>3. s1 - s4.at <= MaxAge
    BY <2>1 DEF Beat!Recent
  <2>4. s1 \in Nat /\ MaxAge \in Nat /\ Skew \in Nat
    BY RowsAssumption DEF BeatInv, RowsAssumption, Beat!HeartbeatAssumption
  <2>5. s1 - t <= MaxAge + Skew
    BY <2>2, <2>3, <2>4
  <2> QED
    BY <2>5
<1> QED
  BY <1>1, <1>2 DEF BeatInv, TrueBeat, Beat!Summary

LEMMA PassingStep ==
  ASSUME BeatInv, Beat!Tick \/ UNCHANGED <<s1, s2, s3, s4, s5, s6>>
  PROVE  BeatInv'
<1>1. /\ UNCHANGED <<s2, s3, s4, s5>> /\ s1 \in Nat /\ s1' \in Nat /\ s1 <= s1'
      /\ (s1' = s1 /\ s6' = s6) \/ s6' = "none"
  BY DEF Beat!Tick, BeatInv
<1> QED
  <2>1. s2' \in [Invocations -> Invoked] /\ \A i \in Invocations : s2[i] \in Invoked
    BY <1>1 DEF BeatInv
  <2>2. \A i \in Invocations :
          s2'[i].step \in {"working", "recording"} =>
            /\ s2'[i].start <= s1' /\ s2'[i].start <= s2'[i].clock
            /\ s2'[i].clock <= s2'[i].start + Skew
    BY <1>1, <2>1 DEF BeatInv, Invoked
  <2> QED
    BY <1>1, <2>1, <2>2 DEF BeatInv, TrueBeat, Beat!Summary, Beat!FreshIsTrue

LEMMA BeatStep ==
  ASSUME BeatInv, Beat!Next \/ UNCHANGED <<s1, s2, s3, s4, s5, s6>>
  PROVE  BeatInv'
BY InvocationMoves, PassesStep, LandStep, ProbeStep, PassingStep DEF Beat!Next

LEMMA BeatRises ==
  ASSUME BeatInv, Beat!Next \/ UNCHANGED <<s1, s2, s3, s4, s5, s6>>
  PROVE  Beat!NeverOlder
<1>1. s4 # Beat!Missing => s4.at \in Int
  BY DEF BeatInv, TrueBeat
<1>2. CASE s4' = s4
  BY <1>1, <1>2 DEF Beat!NeverOlder
<1>3. ASSUME NEW beat \in s3, Beat!Land(beat)
      PROVE  Beat!NeverOlder
  BY <1>1, <1>3 DEF Beat!Land, Beat!Recorded, Beat!NeverOlder
<1>4. s4' = s4 \/ \E beat \in s3 : Beat!Land(beat)
  BY DEF Beat!Next, Beat!Probe, Beat!Tick, Beat!Start, Beat!Passes, Beat!Fail, Beat!Record, Beat!Drop
<1> QED
  BY <1>2, <1>3, <1>4


(***************************************************************************)
(* Third part.  The behaviours of MCRows.                                  *)
(***************************************************************************)

Created == INSTANCE RunCreationProofs WITH
  run <- s1, reserve <- s2, work <- s3, spent <- s4, hash <- s5, pc <- s6, target <- s7,
  today <- s8, faults <- s9

Granted == INSTANCE UploadGrantProofs WITH
  row <- s1, object <- s2, phase <- s3, flying <- s4, puts <- s5, granted <- s6,
  misread <- s7, pc <- s8, seen <- s9, etag <- s10, faults <- s11

IsCreation == part = "creation"
IsHeartbeat == part = "heartbeat"
IsGrant == part = "grant"

\* A behaviour is one of one part, and each step a step of that part.
LEMMA PartsStay ==
  ASSUME [RowsNext]_rows
  PROVE  part' = part
BY DEF RowsNext, UpdateRow, CreateRuns, KeepHeartbeat, ShareUpload, KeepsPart, Keeps9, Keeps6, rows

\* RunCreation as it is proved about is RunCreation as it is composed.
LEMMA CreationInit == Creation!Init => Created!Init
BY DEF Creation!Init, Created!Init, Creation!NoReserve, Created!NoReserve, Creation!Unsettled,
    Created!Unsettled

LEMMA CreationPosts ==
  ASSUME NEW q \in Posts, Creation!PostStep(q)
  PROVE  Created!PostStep(q)
BY DEF Creation!PostStep, Created!PostStep, Creation!Insert, Created!Insert,
    Creation!InsertMisses, Created!InsertMisses, Creation!Lookup, Created!Lookup,
    Creation!LookupActive, Created!LookupActive, Creation!Conflicts, Created!Conflicts,
    Creation!SameKey, Created!SameKey, Creation!ActiveOf, Created!ActiveOf, Creation!Rows,
    Created!Rows, Creation!Active, Created!Active, Creation!Move, Created!Move,
    Creation!Answer, Created!Answer, Creation!Onward, Created!Onward, Creation!Money,
    Created!Money, Creation!Repeats, Created!Repeats

LEMMA CreationAdmits ==
  ASSUME NEW p \in Posts, Creation!AdmissionStep(p)
  PROVE  Created!AdmissionStep(p)
BY DEF Creation!AdmissionStep, Created!AdmissionStep, Creation!Reserve, Created!Reserve,
    Creation!Dispatch, Created!Dispatch, Creation!FailRun, Created!FailRun,
    Creation!Release, Created!Release, Creation!RemoveRun, Created!RemoveRun, Creation!Die,
    Created!Die, Creation!Granted, Created!Granted, Creation!Committed, Created!Committed,
    Creation!Reserved, Created!Reserved, Creation!WithinQuota, Created!WithinQuota,
    Creation!CreatedToday, Created!CreatedToday, Creation!Rows, Created!Rows,
    Creation!NoReserve, Created!NoReserve, Creation!Unsettled, Created!Unsettled,
    Creation!Settled, Created!Settled, Creation!Greatest, Created!Greatest, Creation!Move,
    Created!Move, Creation!Answer, Created!Answer, Creation!Answers, Created!Answers,
    Creation!Onward, Created!Onward, Creation!Money, Created!Money, Creation!Fault,
    Created!Fault, Creation!Cardinality, Created!Cardinality, Creation!MapThenSumSet,
    Created!MapThenSumSet, Creation!MapThenFoldSet, Created!MapThenFoldSet

LEMMA CreationRuns ==
  ASSUME NEW r \in Posts, Creation!RunStep(r)
  PROVE  Created!RunStep(r)
BY DEF Creation!RunStep, Created!RunStep, Creation!Pay, Created!Pay, Creation!SettleCost,
    Created!SettleCost, Creation!Publish, Created!Publish, Creation!FailWork,
    Created!FailWork, Creation!Expire, Created!Expire, Creation!FailureSettlement,
    Created!FailureSettlement, Creation!Settled, Created!Settled, Creation!Greatest,
    Created!Greatest, Creation!Rows, Created!Rows, Creation!NoReserve, Created!NoReserve,
    Creation!Unsettled, Created!Unsettled, Creation!Money, Created!Money

LEMMA CreationNext == Creation!Next => Created!Next
<1>1. Creation!NextDay => Created!NextDay
  BY DEF Creation!NextDay, Created!NextDay, Creation!Money, Created!Money
<1> QED
  BY <1>1, CreationPosts, CreationAdmits, CreationRuns DEF Creation!Next, Created!Next

LEMMA CreationAssumed == Created!RunCreationAssumption
BY RowsAssumption
DEF RowsAssumption, Creation!RunCreationAssumption, Created!RunCreationAssumption,
    Creation!IsFiniteSet, Created!IsFiniteSet

\* A behaviour that starts with the creation of runs is one of RunCreation.
LEMMA CreationBehaves == RowsSpec /\ IsCreation => Created!Spec /\ []IsCreation
<1>1. RowsInit /\ IsCreation => Created!Init
  BY CreationInit DEF RowsInit, IsCreation
<1>2. IsCreation /\ [RowsNext]_rows => IsCreation' /\ [Created!Next]_(Created!vars)
  <2> SUFFICES ASSUME IsCreation, [RowsNext]_rows
               PROVE  IsCreation' /\ [Created!Next]_(Created!vars)
    OBVIOUS
  <2>1. IsCreation'
    BY PartsStay DEF IsCreation
  <2>2. CASE UNCHANGED rows
    BY <2>1, <2>2 DEF rows, shared, Created!vars, Created!Money
  <2>3. CASE RowsNext
    <3>1. Creation!Next
      BY <2>3
      DEF IsCreation, RowsNext, UpdateRow, CreateRuns, KeepHeartbeat, ShareUpload
    <3> QED
      BY <2>1, <3>1, CreationNext
  <2> QED
    BY <2>1, <2>2, <2>3
<1> QED
  BY <1>1, <1>2, PTL DEF RowsSpec, Created!Spec

LEMMA CreationAgreed == Created!KeyedAnswersAgree => Creation!KeyedAnswersAgree
BY DEF Creation!KeyedAnswersAgree, Created!KeyedAnswersAgree

LEMMA CreationLimited ==
  Created!SpendWithinCap /\ Created!AdmittedWithinQuota /\ Created!DispatchIsFunded =>
    Creation!SpendWithinCap /\ Creation!AdmittedWithinQuota /\ Creation!DispatchIsFunded
BY DEF Creation!SpendWithinCap, Created!SpendWithinCap, Creation!AdmittedWithinQuota,
    Created!AdmittedWithinQuota, Creation!DispatchIsFunded, Created!DispatchIsFunded,
    Creation!Days, Created!Days, Creation!NoReserve, Created!NoReserve, Creation!Unsettled,
    Created!Unsettled, Creation!Cardinality, Created!Cardinality, Creation!MapThenSumSet,
    Created!MapThenSumSet, Creation!MapThenFoldSet, Created!MapThenFoldSet

\* So with UploadGrant.
LEMMA GrantInit == Grant!Init => Granted!Init
BY DEF Grant!Init, Granted!Init, Grant!Issued, Granted!Issued, Grant!NothingSeen,
    Granted!NothingSeen, Grant!Procs, Granted!Procs, Grant!Bodies, Granted!Bodies

LEMMA GrantNext == Grant!Next => Granted!Next
BY DEF Grant!Next, Granted!Next, Grant!StartPut, Granted!StartPut, Grant!LandPut,
    Granted!LandPut, Grant!ClaimIncoming, Granted!ClaimIncoming, Grant!ClaimReplayed,
    Granted!ClaimReplayed, Grant!ClaimLost, Granted!ClaimLost, Grant!Accepted,
    Granted!Accepted, Grant!Read, Granted!Read, Grant!Over, Granted!Over, Grant!Move,
    Granted!Move, Grant!Remember, Granted!Remember, Grant!Goto, Granted!Goto, Grant!Rest,
    Granted!Rest, Grant!Fault, Granted!Fault, Grant!Refused, Granted!Refused, Grant!Removed,
    Granted!Removed, Grant!RemoveHead, Granted!RemoveHead, Grant!RemoveDelete,
    Granted!RemoveDelete, Grant!RemoveConfirm, Granted!RemoveConfirm, Grant!PurgeLedger,
    Granted!PurgeLedger, Grant!PurgeHead, Granted!PurgeHead, Grant!PurgePut,
    Granted!PurgePut, Grant!PurgeRehead, Granted!PurgeRehead, Grant!PurgeReput,
    Granted!PurgeReput, Grant!PurgeConfirm, Granted!PurgeConfirm, Grant!PersistFence,
    Granted!PersistFence, Grant!Due, Granted!Due, Grant!SweepList, Granted!SweepList,
    Grant!SweepLease, Granted!SweepLease, Grant!LeaseElapses, Granted!LeaseElapses,
    Grant!SweepDeleteRow, Granted!SweepDeleteRow, Grant!SweepRelease, Granted!SweepRelease,
    Grant!LeaseOfDead, Granted!LeaseOfDead, Grant!Expire, Granted!Expire, Grant!BecomeDue,
    Granted!BecomeDue, Grant!PurgeStep, Granted!PurgeStep, Grant!RemoveStep,
    Granted!RemoveStep, Grant!SweepStep, Granted!SweepStep, Grant!client, Granted!client,
    Grant!parties, Granted!parties, Grant!Procs, Granted!Procs, Grant!Bodies,
    Granted!Bodies, Grant!Objects, Granted!Objects, Grant!Steps, Granted!Steps,
    Grant!Statuses, Granted!Statuses, Grant!Rows, Granted!Rows, Grant!SeenOf,
    Granted!SeenOf, Grant!NothingSeen, Granted!NothingSeen

LEMMA GrantAssumed == Granted!UploadGrantAssumption
BY RowsAssumption DEF RowsAssumption, Grant!UploadGrantAssumption, Granted!UploadGrantAssumption

\* A step of a behaviour that starts with the upload grant.
LEMMA GrantSteps ==
  ASSUME IsGrant, [RowsNext]_rows
  PROVE  IsGrant' /\ [Granted!Next]_(Granted!vars) /\ (shared' = shared => rows' = rows)
<1>1. IsGrant'
  BY PartsStay DEF IsGrant
<1>2. CASE UNCHANGED rows
  BY <1>1, <1>2 DEF rows, shared, Granted!vars, Granted!client, Granted!parties
<1>3. CASE RowsNext
  <2>1. Grant!Next /\ KeepsPart
    BY <1>3 DEF IsGrant, RowsNext, UpdateRow, CreateRuns, KeepHeartbeat, ShareUpload
  <2> QED
    BY <1>1, <2>1, GrantNext DEF KeepsPart, rows
<1> QED
  BY <1>2, <1>3

LEMMA GrantBehaves == RowsSpec /\ IsGrant => Granted!Spec /\ []IsGrant
<1>1. RowsInit /\ IsGrant => Granted!Init
  BY GrantInit DEF RowsInit, IsGrant
<1>2. IsGrant /\ [RowsNext]_rows => IsGrant' /\ [Granted!Next]_(Granted!vars)
  BY GrantSteps
<1> QED
  BY <1>1, <1>2, PTL DEF RowsSpec, Granted!Spec

LEMMA GrantHeldToo == Granted!OnlyHolderPurges => Grant!OnlyHolderPurges
BY DEF Grant!OnlyHolderPurges, Granted!OnlyHolderPurges, Grant!Accepted, Granted!Accepted,
    Grant!Read, Granted!Read, Grant!Over, Granted!Over, Grant!Move, Granted!Move,
    Grant!Remember, Granted!Remember, Grant!Goto, Granted!Goto, Grant!Rest, Granted!Rest,
    Grant!Fault, Granted!Fault, Grant!Refused, Granted!Refused, Grant!Removed,
    Granted!Removed, Grant!RemoveHead, Granted!RemoveHead, Grant!RemoveDelete,
    Granted!RemoveDelete, Grant!RemoveConfirm, Granted!RemoveConfirm, Grant!PurgeLedger,
    Granted!PurgeLedger, Grant!PurgeHead, Granted!PurgeHead, Grant!PurgePut,
    Granted!PurgePut, Grant!PurgeRehead, Granted!PurgeRehead, Grant!PurgeReput,
    Granted!PurgeReput, Grant!PurgeConfirm, Granted!PurgeConfirm, Grant!PersistFence,
    Granted!PersistFence, Grant!PurgeStep, Granted!PurgeStep, Grant!RemoveStep,
    Granted!RemoveStep, Grant!client, Granted!client, Grant!parties, Granted!parties,
    Grant!Procs, Granted!Procs, Grant!Bodies, Granted!Bodies, Grant!Objects,
    Granted!Objects, Grant!Steps, Granted!Steps, Grant!Statuses, Granted!Statuses,
    Grant!Rows, Granted!Rows, Grant!NothingSeen, Granted!NothingSeen

LEMMA GrantIsSafeToo == Granted!GrantIsSafe => Grant!GrantIsSafe
BY DEF Grant!GrantIsSafe, Granted!GrantIsSafe, Grant!RawIsTracked, Granted!RawIsTracked,
    Grant!OneRunClaims, Granted!OneRunClaims, Grant!FencedStaysFenced,
    Granted!FencedStaysFenced, Grant!ReadIsDeclared, Granted!ReadIsDeclared, Grant!Bodies,
    Granted!Bodies

\* A step of a behaviour of the heartbeat.
LEMMA BeatSteps ==
  ASSUME IsHeartbeat, [RowsNext]_rows
  PROVE  IsHeartbeat' /\ (Beat!Next \/ UNCHANGED <<s1, s2, s3, s4, s5, s6>>)
<1>1. IsHeartbeat'
  BY PartsStay DEF IsHeartbeat
<1>2. CASE UNCHANGED rows
  BY <1>1, <1>2 DEF rows, shared
<1>3. CASE RowsNext
  BY <1>1, <1>3 DEF IsHeartbeat, RowsNext, UpdateRow, CreateRuns, KeepHeartbeat, ShareUpload
<1> QED
  BY <1>2, <1>3

LEMMA RowsUpdate == RowsSpec => Spec
<1>1. RowsInit => Init
  BY DEF RowsInit
<1>2. [RowsNext]_rows => [Next]_vars
  BY DEF RowsNext, UpdateRow, CreateRuns, KeepHeartbeat, ShareUpload, KeepsPart, Keeps9, Keeps6,
         rows, store
<1> QED
  BY <1>1, <1>2, PTL DEF RowsSpec, Spec

-----------------------------------------------------------------------------
(* Theorems *)

\* In every behaviour of MCRows a call of NeonRunStore.update with a good claim has lost
\* each of its rounds to a write of another, and the loop is one guarded step.
THEOREM RowsLoseOnlyToOthers == RowsSpec => []LosesOnlyToOthers /\ RefinesAtomicUpdate
BY RowsUpdate, Rounds, Implements, PTL

\* However many requests repeat a key: they are answered with one run, and only if they
\* ask for the same (createRun, the two unique indexes, the comparison of the hashes).
THEOREM RowsRepeatsAgree == RowsSpec => []RepeatsAgree
<1>1. RowsSpec /\ IsCreation => []RepeatsAgree
  <2>1. Created!Spec => []Created!KeyedAnswersAgree
    BY CreationAssumed, Created!CreationAgrees
  <2>2. Created!KeyedAnswersAgree => RepeatsAgree
    BY CreationAgreed DEF RepeatsAgree
  <2> QED
    BY <2>1, <2>2, CreationBehaves, PTL
<1>2. RowsSpec /\ ~IsCreation => []RepeatsAgree
  <2>1. ~IsCreation /\ [RowsNext]_rows => ~IsCreation'
    BY PartsStay DEF IsCreation
  <2>2. ~IsCreation => RepeatsAgree
    BY DEF IsCreation, RepeatsAgree
  <2> QED
    BY <2>1, <2>2, PTL DEF RowsSpec
<1> QED
  BY <1>1, <1>2, PTL

\* Runs that are admitted, rejected, released and settled at once stay within the cap of
\* their day and the quota of their key, and no release races a dispatch, for all prices,
\* caps, quotas and days (budget.reserve, settle and failAdmission).
THEOREM RowsLimitsHold == RowsSpec => []LimitsHold
<1>1. RowsSpec /\ IsCreation => []LimitsHold
  <2>1. Created!Spec => [](Created!SpendWithinCap /\ Created!AdmittedWithinQuota
                           /\ Created!DispatchIsFunded)
    BY CreationAssumed, Created!CreationKeepsLimits
  <2>2. Created!SpendWithinCap /\ Created!AdmittedWithinQuota /\ Created!DispatchIsFunded
          => LimitsHold
    BY CreationLimited DEF LimitsHold
  <2> QED
    BY <2>1, <2>2, CreationBehaves, PTL
<1>2. RowsSpec /\ ~IsCreation => []LimitsHold
  <2>1. ~IsCreation /\ [RowsNext]_rows => ~IsCreation'
    BY PartsStay DEF IsCreation
  <2>2. ~IsCreation => LimitsHold
    BY DEF IsCreation, LimitsHold
  <2> QED
    BY <2>1, <2>2, PTL DEF RowsSpec
<1> QED
  BY <1>1, <1>2, PTL

\* A heartbeat that is fresh to an admission stands for two completed passes, and a late
\* one never replaces a younger one, for any clocks that differ by the skew the check
\* allows for (the maintenance route and maintenanceHeartbeatReadiness).
THEOREM RowsHeartbeatIsTrue == RowsSpec => HeartbeatIsTrue
<1> DEFINE Fresh == part = "heartbeat" => Beat!FreshIsTrue
           Rises == part = "heartbeat" => Beat!NeverOlder
           Inv == IsHeartbeat => BeatInv
<1>1. RowsInit => Inv
  BY BeatInit DEF RowsInit, IsHeartbeat
<1>2. Inv /\ [RowsNext]_rows => Inv'
  <2> SUFFICES ASSUME Inv, [RowsNext]_rows, IsHeartbeat' PROVE BeatInv'
    OBVIOUS
  <2>1. IsHeartbeat
    BY PartsStay DEF IsHeartbeat
  <2> QED
    BY <2>1, BeatSteps, BeatStep
<1>3. Inv => Fresh
  BY DEF IsHeartbeat, BeatInv
<1>4. Inv /\ [RowsNext]_rows => [Rises]_rows
  <2> SUFFICES ASSUME Inv, [RowsNext]_rows, IsHeartbeat PROVE Beat!NeverOlder
    BY DEF IsHeartbeat
  <2> QED
    BY BeatSteps, BeatRises
<1> HIDE DEF Inv, Fresh, Rises
<1>5. RowsSpec => []Fresh /\ [][Rises]_rows
  BY <1>1, <1>2, <1>3, <1>4, PTL DEF RowsSpec
<1> QED
  BY <1>5, PTL DEF HeartbeatIsTrue, Fresh, Rises

\* Whatever claims, purges, sweeps and uses of the signed URL race for an upload, for any
\* runs, purges and sweeps: its bytes do not outlive its row, it serves one run with the
\* bytes it was granted for, and nobody but that run purges it before it is due.
THEOREM RowsGrantIsKept == RowsSpec => GrantIsKept
<1> DEFINE Safe == part = "grant" => Grant!GrantIsSafe
           Held == part = "grant" => Grant!OnlyHolderPurges
<1>1. Granted!Spec => []Granted!GrantIsSafe /\ [][Granted!OnlyHolderPurges]_(Granted!vars)
  BY GrantAssumed, Granted!GrantSafe, Granted!HolderOnly, PTL
<1>2. Granted!GrantIsSafe => Safe
  BY GrantIsSafeToo
<1>3. IsGrant /\ [RowsNext]_rows /\ [Granted!OnlyHolderPurges]_(Granted!vars) => [Held]_rows
  <2> SUFFICES ASSUME IsGrant, [RowsNext]_rows, [Granted!OnlyHolderPurges]_(Granted!vars),
                      rows' # rows
               PROVE  Grant!OnlyHolderPurges
    OBVIOUS
  <2>1. shared' # shared
    BY GrantSteps
  <2>2. Granted!OnlyHolderPurges
    BY <2>1 DEF shared, Granted!vars, Granted!client, Granted!parties
  <2> QED
    BY <2>2, GrantHeldToo
<1>4. ~IsGrant /\ [RowsNext]_rows => ~IsGrant' /\ [Held]_rows
  BY PartsStay DEF IsGrant
<1>5. ~IsGrant => Safe
  BY DEF IsGrant
<1> HIDE DEF Safe, Held
<1>6. RowsSpec /\ IsGrant => []Safe /\ [][Held]_rows
  BY <1>1, <1>2, <1>3, GrantBehaves, PTL DEF RowsSpec
<1>7. RowsSpec /\ ~IsGrant => []Safe /\ [][Held]_rows
  BY <1>4, <1>5, PTL DEF RowsSpec
<1>8. RowsSpec => []Safe /\ [][Held]_rows
  BY <1>6, <1>7, PTL
<1> QED
  BY <1>8, PTL DEF GrantIsKept, Safe, Held

=============================================================================
