--------------------------- MODULE ProgressProofs ---------------------------
(***************************************************************************)
(* The safety of what MCCleanups and MCProgress check to go on, for every  *)
(* value of the constants.  The cleanup retry (CleanupRetry, whose         *)
(* variables are this module's): a claim in the row is a right to dispatch *)
(* once, never given back, so only its holder can be at the service, and   *)
(* while it is there nothing was sent.  Then, with variables of their own, *)
(* the paid parse (MonidParse), the maintenance passes (Maintenance) and   *)
(* the challenges of the page (TokenQueue).                                *)
(***************************************************************************)
EXTENDS CleanupRetry, Sequences, FiniteSetTheorems, TLAPS


Rows == [status : {"failed", "expired", "cleanup_pending"}, terminal : Terminals,
         claim : Callers \cup {Nobody}, dispatch : Dispatches, uncertain : BOOLEAN]

AtService == {"dispatch", "scheduled", "not_dispatched", "uncertain"}

NothingSent == started = 0 /\ ~wire

\* The dispatch is recorded exactly in a claimed row; a scrubbed one keeps nothing.
RowInv ==
  /\ Scrubbed => row.claim = Nobody
  /\ row.claim = Nobody <=> row.dispatch = "none"
  /\ row.uncertain <=> row.dispatch \in {"dispatch_uncertain", "not_dispatched"}

\* Whoever is at the service holds the claim, unless the row was scrubbed, and is alone.
HolderInv ==
  /\ \A c \in Callers : pc[c] \in AtService => Scrubbed \/ row.claim = c
  /\ \A c, d \in Callers : pc[c] \in AtService /\ pc[d] \in AtService => c = d

\* What each place in scheduleCleanupRetry knows of the service.
PlaceInv ==
  /\ ~Scrubbed /\ row.claim = Nobody => NothingSent
  /\ \A c \in Callers :
       /\ pc[c] = "dispatch" => NothingSent /\ (Scrubbed \/ row.dispatch = "dispatching")
       /\ pc[c] = "scheduled" => started = 1
       /\ pc[c] = "not_dispatched" => NothingSent

\* One retry at most is started or on its way.
OnceInv == (~wire /\ started <= 1) \/ (wire /\ started = 0)

IInv == TypeOK /\ RowInv /\ HolderInv /\ PlaceInv /\ OnceInv /\ DispatchIsTold

-----------------------------------------------------------------------------
(* What happens to the row *)

\* The parts of the row that the dispatch rests on.
Kept ==
  /\ row'.claim = row.claim /\ row'.dispatch = row.dispatch
  /\ row'.uncertain = row.uncertain

Forgotten ==
  /\ row'.status = "expired" /\ row'.claim = Nobody
  /\ row'.dispatch = "none" /\ row'.uncertain = FALSE

\* A cleanup scrubs the row or leaves its dispatch alone.
LEMMA CleanedRow ==
  ASSUME TypeOK, NEW t \in Terminals, CleanUp(t), row.status # "expired"
  PROVE  /\ row' \in Rows /\ rowAge' \in 0..2 /\ storms' \in 0..Storms
         /\ Forgotten \/ (row'.status # "expired" /\ Kept)
<1>1. Older(row.terminal, t) \in Terminals
  BY DEF Older, Terminals
<1>2. row \in Rows
  BY DEF TypeOK, Rows
<1>3. CASE Deleted(t)
  <2>1. CASE Older(row.terminal, t) = "expired"
    BY <1>3, <2>1 DEF CleanUp, Deleted, Ended, Rows, Terminals, Dispatches, Forgotten, TypeOK
  <2>2. CASE Older(row.terminal, t) # "expired"
    <3>1. row' = [row EXCEPT !.status = "failed"] /\ storms' = storms
      BY <1>3, <2>2 DEF Deleted, Ended
    <3> QED
      BY <1>2, <3>1 DEF CleanUp, Rows, Kept, TypeOK
  <2> QED
    BY <2>1, <2>2
<1>4. CASE Refused(t)
  <2>1. row' = [row EXCEPT !.status = "cleanup_pending", !.terminal = Older(row.terminal, t)]
    BY <1>2, <1>4 DEF Refused, Rows
  <2>2. row' \in Rows /\ row'.status # "expired" /\ Kept
    BY <1>1, <1>2, <2>1 DEF Rows, Kept
  <2>3. storms' \in 0..Storms
    BY <1>4, CleanupRetryAssumption DEF Refused, TypeOK
  <2> QED
    BY <2>2, <2>3 DEF CleanUp
<1> QED
  BY <1>3, <1>4 DEF CleanUp

\* A claim is taken only from a pending row that nobody holds.
LEMMA ClaimedRow ==
  ASSUME TypeOK, NEW c \in Callers, Claimable, Claimed(c)
  PROVE  /\ row' \in Rows /\ rowAge' = 0 /\ claimAge' = 0
         /\ row.status = "cleanup_pending" /\ row.claim = Nobody
         /\ row'.status = row.status /\ row'.claim = c
         /\ row'.dispatch = "dispatching" /\ row'.uncertain = row.uncertain
<1>1. row \in Rows
  BY DEF TypeOK, Rows
<1>2. row' = [row EXCEPT !.claim = c, !.dispatch = "dispatching"]
  BY DEF Claimed
<1> QED
  BY <1>1, <1>2 DEF Claimed, Claimable, Pending, Rows, Dispatches

Answers == {"scheduled", "not_dispatched", "dispatch_uncertain"}

\* A settlement writes the answer into the row of its claim, and no other.
LEMMA SettledRow ==
  ASSUME TypeOK, NEW c \in Callers, NEW s \in Answers, Settled(c, s)
  PROVE  /\ row' \in Rows /\ rowAge' \in 0..2
         /\ row'.status = row.status /\ row'.claim = row.claim
         /\ \/ row' = row
            \/ /\ row.claim = c /\ row'.dispatch = s
               /\ row'.uncertain = (s # "scheduled")
<1>1. row \in Rows
  BY DEF TypeOK, Rows
<1>2. CASE row.claim = c
  <2>1. row' = [row EXCEPT !.dispatch = s, !.uncertain = (s # "scheduled")] /\ rowAge' = claimAge
    BY <1>2 DEF Settled
  <2> QED
    BY <1>1, <1>2, <2>1 DEF Rows, Dispatches, Answers, TypeOK
<1>3. CASE row.claim # c
  BY <1>1, <1>3 DEF Settled, TypeOK
<1> QED
  BY <1>2, <1>3

-----------------------------------------------------------------------------
(* The invariant *)

Fence == RowInv /\ HolderInv /\ PlaceInv /\ OnceInv /\ DispatchIsTold

\* The row is as it was, or scrubbed; nobody comes to the service; nothing is sent.
Quiet ==
  /\ Forgotten \/ ((Scrubbed' <=> Scrubbed) /\ Kept)
  /\ \A c \in Callers : pc'[c] = pc[c] \/ pc'[c] \notin AtService
  /\ UNCHANGED <<wire, started>>

LEMMA QuietStep == ASSUME IInv, Quiet PROVE Fence'
<1> USE DEF IInv, Quiet
<1>1. CASE Forgotten
  <2>1. Scrubbed' /\ RowInv'
    BY <1>1 DEF Forgotten, Scrubbed, RowInv
  <2>2. HolderInv'
    BY <2>1 DEF HolderInv
  <2>3. PlaceInv' /\ OnceInv' /\ DispatchIsTold'
    BY <1>1, <2>1 DEF Forgotten, PlaceInv, OnceInv, DispatchIsTold, NothingSent, AtService
  <2> QED
    BY <2>1, <2>2, <2>3 DEF Fence
<1>2. CASE (Scrubbed' <=> Scrubbed) /\ Kept
  <2>1. RowInv'
    BY <1>2 DEF RowInv, Kept
  <2>2. HolderInv'
    BY <1>2 DEF HolderInv, Kept
  <2>3. PlaceInv' /\ OnceInv' /\ DispatchIsTold'
    BY <1>2 DEF Kept, PlaceInv, OnceInv, DispatchIsTold, NothingSent, AtService
  <2> QED
    BY <2>1, <2>2, <2>3 DEF Fence
<1> QED
  BY <1>1, <1>2

\* Nobody is at the service while the claim is free, so its taker is alone there.
LEMMA ClaimStep ==
  ASSUME IInv, NEW c \in Callers, Claimable, Claimed(c),
         NEW step \in {"dispatch", "done"}, Move(c, step), UNCHANGED <<wire, started>>
  PROVE  Fence'
<1> USE DEF IInv
<1>1. /\ row' \in Rows /\ row.status = "cleanup_pending" /\ row.claim = Nobody
      /\ row'.status = row.status /\ row'.claim = c
      /\ row'.dispatch = "dispatching" /\ row'.uncertain = row.uncertain
  BY ClaimedRow
<1>2. ~Scrubbed /\ ~Scrubbed' /\ NothingSent /\ row.dispatch = "none"
  BY <1>1 DEF Scrubbed, PlaceInv, RowInv
<1>3. \A d \in Callers : pc[d] \notin AtService
  BY <1>1, <1>2, CleanupRetryAssumption DEF HolderInv
<1>4. pc' \in [Callers -> Steps] /\ \A d \in Callers : pc'[d] = IF d = c THEN step ELSE pc[d]
  BY DEF Move, TypeOK, Steps
<1>5. \A d \in Callers : pc'[d] \in AtService => d = c /\ pc'[d] = "dispatch"
  BY <1>3, <1>4 DEF AtService
<1>6. RowInv'
  BY <1>1, <1>2, CleanupRetryAssumption DEF RowInv
<1>7. HolderInv'
  BY <1>1, <1>5 DEF HolderInv
<1>8. PlaceInv'
  <2>1. row'.claim # Nobody
    BY <1>1, CleanupRetryAssumption
  <2> QED
    BY <1>1, <1>2, <1>5, <2>1 DEF PlaceInv, NothingSent, AtService
<1>9. OnceInv' /\ DispatchIsTold'
  BY <1>1 DEF OnceInv, DispatchIsTold
<1> QED
  BY <1>6, <1>7, <1>8, <1>9 DEF Fence

\* What a request to the service may become.
Sent(step) ==
  \/ step = "not_dispatched" /\ UNCHANGED <<wire, started>>
  \/ step = "scheduled" /\ started' = started + 1 /\ UNCHANGED wire
  \/ /\ step = "uncertain"
     /\ \/ started' = started + 1 /\ UNCHANGED wire
        \/ wire' = TRUE /\ UNCHANGED started
        \/ UNCHANGED <<wire, started>>

LEMMA DispatchStep ==
  ASSUME IInv, NEW c \in Callers, pc[c] = "dispatch", NEW step, Move(c, step), Sent(step),
         UNCHANGED row
  PROVE  Fence'
<1> USE DEF IInv
<1>1. started = 0 /\ ~wire /\ (Scrubbed \/ row.dispatch = "dispatching")
  BY DEF PlaceInv, NothingSent
<1>2. \A d \in Callers : pc[d] \in AtService => d = c
  BY DEF HolderInv, AtService
<1>3. step \in {"scheduled", "not_dispatched", "uncertain"}
  BY DEF Sent
<1>4. \A d \in Callers : pc'[d] = IF d = c THEN step ELSE pc[d]
  BY DEF Move, TypeOK
<1>5. \A d \in Callers : pc'[d] \in AtService => d = c
  BY <1>2, <1>4
<1>6. row.dispatch \in {"dispatching", "none"}
  BY <1>1 DEF RowInv
<1>7. row.claim = c \/ Scrubbed
  BY DEF HolderInv, AtService
<1>8. /\ step = "scheduled" => started' = 1
      /\ step = "not_dispatched" => started' = 0 /\ ~wire'
  BY <1>1 DEF Sent
<1>9. RowInv'
  BY DEF RowInv, Scrubbed
<1>10. HolderInv'
  BY <1>5, <1>7 DEF HolderInv, Scrubbed
<1>11. PlaceInv'
  BY <1>3, <1>4, <1>5, <1>7, <1>8, CleanupRetryAssumption
  DEF PlaceInv, NothingSent, AtService, Scrubbed
<1>12. OnceInv'
  BY <1>1 DEF Sent, OnceInv
<1>13. DispatchIsTold'
  BY <1>6 DEF DispatchIsTold
<1> QED
  BY <1>9, <1>10, <1>11, <1>12, <1>13 DEF Fence

\* The answer a caller records is what it knows of the service.
LEMMA SettleStep ==
  ASSUME IInv, NEW c \in Callers,
         \/ pc[c] \in {"scheduled", "not_dispatched"} /\ (Settled(c, pc[c]) \/ UNCHANGED <<row, rowAge>>)
         \/ pc[c] = "uncertain" /\ Settled(c, "dispatch_uncertain"),
         NEW step \in {"uncertain", "done"}, Move(c, step), UNCHANGED <<wire, started>>
  PROVE  Fence'
<1> USE DEF IInv
<1>1. \A d \in Callers : pc'[d] = IF d = c THEN step ELSE pc[d]
  BY DEF Move, TypeOK
<1>2. \A d \in Callers : pc[d] \in AtService => d = c
  BY DEF HolderInv, AtService
<1>3. CASE row' = row
  <2>1. RowInv' /\ OnceInv' /\ DispatchIsTold'
    BY <1>3 DEF RowInv, OnceInv, DispatchIsTold, Scrubbed
  <2>2. HolderInv'
    BY <1>1, <1>2, <1>3 DEF HolderInv, AtService, Scrubbed
  <2>3. PlaceInv'
    BY <1>1, <1>3 DEF PlaceInv, NothingSent, Scrubbed
  <2> QED
    BY <2>1, <2>2, <2>3 DEF Fence
<1>4. ASSUME NEW s \in Answers, row'.status = row.status, row'.claim = row.claim, row.claim = c,
             row'.dispatch = s, row'.uncertain = (s # "scheduled"),
             s = "scheduled" => started = 1, s = "not_dispatched" => NothingSent,
             pc[c] # "dispatch"
      PROVE  Fence'
  <2>1. ~Scrubbed /\ ~Scrubbed' /\ row'.claim # Nobody
    BY <1>4, CleanupRetryAssumption DEF RowInv, Scrubbed
  <2>2. RowInv'
    BY <1>4, <2>1 DEF RowInv, Answers
  <2>3. HolderInv'
    BY <1>1, <1>2, <1>4 DEF HolderInv, AtService
  <2>4. PlaceInv'
    BY <1>1, <1>2, <1>4, <2>1 DEF PlaceInv, NothingSent, AtService
  <2>5. OnceInv' /\ DispatchIsTold'
    BY <1>4 DEF OnceInv, DispatchIsTold, NothingSent
  <2> QED
    BY <2>2, <2>3, <2>4, <2>5 DEF Fence
<1>5. CASE pc[c] \in {"scheduled", "not_dispatched"} /\ Settled(c, pc[c])
  <2>1. pc[c] \in Answers
    BY <1>5 DEF Answers
  <2>2. /\ pc[c] = "scheduled" => started = 1
        /\ pc[c] = "not_dispatched" => NothingSent
    BY DEF PlaceInv
  <2> QED
    BY <1>3, <1>4, <1>5, <2>1, <2>2, SettledRow
<1>6. CASE pc[c] = "uncertain" /\ Settled(c, "dispatch_uncertain")
  <2>1. "dispatch_uncertain" \in Answers
    BY DEF Answers
  <2> QED
    BY <1>3, <1>4, <1>6, <2>1, SettledRow
<1> QED
  BY <1>3, <1>5, <1>6

LEMMA AcceptStep == ASSUME IInv, AcceptLate PROVE Fence'
<1> USE DEF IInv
<1>1. wire /\ started = 0 /\ started' = 1 /\ ~wire' /\ UNCHANGED <<row, pc>>
  BY DEF AcceptLate, OnceInv
<1>2. RowInv' /\ HolderInv'
  BY <1>1 DEF RowInv, HolderInv, Scrubbed
<1>3. PlaceInv' /\ OnceInv' /\ DispatchIsTold'
  BY <1>1 DEF PlaceInv, OnceInv, DispatchIsTold, NothingSent, Scrubbed
<1> QED
  BY <1>2, <1>3 DEF Fence

-----------------------------------------------------------------------------
(* One step of each operation *)

\* A step of a cleanup: by a caller, the retry or maintenance.
LEMMA CleanUpStep ==
  ASSUME IInv, NEW t \in Terminals, CleanUp(t), row.status # "expired",
         \A c \in Callers : pc'[c] = pc[c] \/ pc'[c] \notin AtService, UNCHANGED <<wire, started>>
  PROVE  Quiet /\ row' \in Rows /\ rowAge' \in 0..2 /\ storms' \in 0..Storms
<1>1. /\ row' \in Rows /\ rowAge' \in 0..2 /\ storms' \in 0..Storms
      /\ Forgotten \/ (row'.status # "expired" /\ Kept)
  BY CleanedRow DEF IInv
<1> QED
  BY <1>1 DEF Quiet, Scrubbed

\* The caller's place, and one more fault, keep their types.
LEMMA Moved ==
  ASSUME TypeOK, NEW c \in Callers, NEW step \in Steps, Move(c, step)
  PROVE  pc' \in [Callers -> Steps] /\ \A d \in Callers : pc'[d] = IF d = c THEN step ELSE pc[d]
BY DEF TypeOK, Move

LEMMA Lost == TypeOK /\ Lose => faults' \in 0..MaxFaults
BY CleanupRetryAssumption DEF TypeOK, Lose

\* Nothing but the caller's place changes, and faults.
LEMMA LeaveStep ==
  ASSUME IInv, NEW c \in Callers, Move(c, "done"), faults' \in 0..MaxFaults,
         UNCHANGED <<row, claimAge, rowAge, wire, started, ran, local, storms>>
  PROVE  TypeOK' /\ Quiet
<1>1. /\ pc' \in [Callers -> Steps]
      /\ \A d \in Callers : pc'[d] = IF d = c THEN "done" ELSE pc[d]
  BY Moved DEF IInv, Steps
<1>2. TypeOK'
  BY <1>1 DEF IInv, TypeOK
<1>3. Quiet
  BY <1>1 DEF Quiet, Kept, Scrubbed, AtService
<1> QED
  BY <1>2, <1>3

LEMMA AskInv ==
  ASSUME IInv, NEW c \in Callers, NEW t \in Terminals, Ask(c, t) PROVE IInv'
<1> DEFINE step == IF row'.status = "cleanup_pending" THEN "claim" ELSE "done"
<1>1. /\ CleanUp(t) /\ row.status # "expired" /\ Move(c, step)
      /\ UNCHANGED <<claimAge, wire, started, ran, local, faults>>
  BY DEF Ask, Network
<1>2. pc' \in [Callers -> Steps] /\ \A d \in Callers : pc'[d] = IF d = c THEN step ELSE pc[d]
  BY <1>1, Moved DEF IInv, Steps
<1>3. \A d \in Callers : pc'[d] = pc[d] \/ pc'[d] \notin AtService
  BY <1>2 DEF AtService
<1>4. Quiet /\ row' \in Rows /\ rowAge' \in 0..2 /\ storms' \in 0..Storms
  BY <1>1, <1>3, CleanUpStep
<1>5. TypeOK'
  BY <1>1, <1>2, <1>4 DEF IInv, TypeOK, Rows
<1> QED
  BY <1>4, <1>5, QuietStep DEF IInv, Fence

LEMMA ClaimInv ==
  ASSUME IInv, NEW c \in Callers, Claim(c) \/ ClaimMisses(c) \/ ClaimLost(c) PROVE IInv'
<1>1. ASSUME Claimable, Claimed(c), NEW step \in {"dispatch", "done"}, Move(c, step),
             faults' \in 0..MaxFaults, UNCHANGED <<wire, started, ran, local, storms>>
      PROVE  IInv'
  <2>1. row' \in Rows /\ rowAge' = 0 /\ claimAge' = 0
    BY <1>1, ClaimedRow DEF IInv
  <2>2. pc' \in [Callers -> Steps]
    BY <1>1, Moved DEF IInv, Steps
  <2>3. TypeOK'
    BY <1>1, <2>1, <2>2 DEF IInv, TypeOK, Rows
  <2>4. Fence'
    BY <1>1, ClaimStep
  <2> QED
    BY <2>3, <2>4 DEF IInv, Fence
<1>2. faults' = faults \/ Lose
  BY DEF Claim, ClaimMisses, ClaimLost
<1>3. faults' \in 0..MaxFaults
  BY <1>2, Lost DEF IInv, TypeOK
<1>4. CASE Claimable /\ Claimed(c)
  BY <1>1, <1>3, <1>4 DEF Claim, ClaimMisses, ClaimLost, Network
<1>5. CASE Move(c, "done") /\ UNCHANGED <<row, claimAge, rowAge, wire, started, ran, local, storms>>
  BY <1>3, <1>5, LeaveStep, QuietStep DEF IInv, Fence
<1> QED
  BY <1>4, <1>5 DEF Claim, ClaimMisses, ClaimLost, Network

LEMMA DispatchInv ==
  ASSUME IInv, NEW c \in Callers, DispatchLocally(c) \/ Dispatch(c) \/ DispatchLost(c) PROVE IInv'
<1>1. PICK step \in {"scheduled", "not_dispatched", "uncertain"} :
        /\ pc[c] = "dispatch" /\ Move(c, step) /\ Sent(step)
        /\ UNCHANGED <<row, claimAge, rowAge, ran, local, storms>>
        /\ UNCHANGED faults \/ Lose
  BY DEF DispatchLocally, Dispatch, DispatchLost, Sent, Network
<1>2. Fence'
  BY <1>1, DispatchStep
<1>3. pc' \in [Callers -> Steps]
  BY <1>1, Moved DEF IInv, Steps
<1>4. faults' \in 0..MaxFaults
  BY <1>1, Lost DEF IInv, TypeOK
<1>5. wire' \in BOOLEAN /\ started' \in Nat
  <2>1. wire \in BOOLEAN /\ started \in Nat
    BY DEF IInv, TypeOK
  <2>2. wire' = wire \/ wire' = TRUE
    BY <1>1 DEF Sent
  <2>3. started' = started \/ started' = started + 1
    BY <1>1 DEF Sent
  <2>4. wire' \in BOOLEAN
    BY <2>1, <2>2, Zenon
  <2> QED
    BY <2>1, <2>3, <2>4
<1>6. TypeOK'
  BY <1>1, <1>3, <1>4, <1>5 DEF IInv, TypeOK
<1> QED
  BY <1>2, <1>6 DEF IInv, Fence

LEMMA SettleInv ==
  ASSUME IInv, NEW c \in Callers, Settle(c) \/ SettleLost(c) \/ SettleUncertain(c) PROVE IInv'
<1>1. PICK step \in {"uncertain", "done"} :
        /\ Move(c, step) /\ UNCHANGED <<claimAge, wire, started, ran, local, storms>>
        /\ UNCHANGED faults \/ Lose
        /\ \/ pc[c] \in {"scheduled", "not_dispatched"}
              /\ (Settled(c, pc[c]) \/ UNCHANGED <<row, rowAge>>)
           \/ pc[c] = "uncertain" /\ Settled(c, "dispatch_uncertain")
  BY DEF Settle, SettleLost, SettleUncertain, Network
<1>2. Fence'
  BY <1>1, SettleStep
<1>3. pc' \in [Callers -> Steps]
  BY <1>1, Moved DEF IInv, Steps
<1>4. faults' \in 0..MaxFaults
  BY <1>1, Lost DEF IInv, TypeOK
<1>5. row' \in Rows /\ rowAge' \in 0..2
  <2>1. ASSUME NEW s \in Answers, Settled(c, s)
        PROVE  row' \in Rows /\ rowAge' \in 0..2
    BY <2>1, SettledRow DEF IInv
  <2>2. CASE UNCHANGED <<row, rowAge>>
    BY <2>2 DEF IInv, TypeOK, Rows
  <2> QED
    BY <1>1, <2>1, <2>2 DEF Answers
<1>6. TypeOK'
  BY <1>1, <1>3, <1>4, <1>5 DEF IInv, TypeOK, Rows
<1> QED
  BY <1>2, <1>6 DEF IInv, Fence

LEMMA ServiceInv ==
  ASSUME IInv, AcceptLate \/ RunRetry \/ Maintain \/ Tick PROVE IInv'
<1>1. CASE AcceptLate
  <2>1. started' \in Nat
    BY <1>1 DEF AcceptLate, IInv, TypeOK
  <2>2. wire' \in BOOLEAN
    BY <1>1, Zenon DEF AcceptLate
  <2>3. TypeOK'
    BY <1>1, <2>1, <2>2 DEF AcceptLate, IInv, TypeOK
  <2> QED
    BY <1>1, <2>3, AcceptStep DEF IInv, Fence
<1>2. ASSUME UNCHANGED <<claimAge, pc, wire, started, local, faults>>, ran' \in BOOLEAN,
             Pending /\ CleanUp(row.terminal)
      PROVE  IInv'
  <2>1. row.terminal \in Terminals /\ row.status # "expired"
    BY <1>2 DEF IInv, TypeOK, Pending
  <2>2. Quiet /\ row' \in Rows /\ rowAge' \in 0..2 /\ storms' \in 0..Storms
    BY <1>2, <2>1, CleanUpStep
  <2>3. TypeOK'
    BY <1>2, <2>2 DEF IInv, TypeOK, Rows
  <2> QED
    BY <2>2, <2>3, QuietStep DEF IInv, Fence
<1>3. ASSUME UNCHANGED <<row, pc, wire, started, local, storms, faults>>, ran' \in BOOLEAN,
             claimAge' \in 0..2, rowAge' \in 0..2
      PROVE  IInv'
  <2>1. Quiet
    BY <1>3 DEF Quiet, Kept, Scrubbed
  <2>2. TypeOK'
    BY <1>3 DEF IInv, TypeOK
  <2> QED
    BY <2>1, <2>2, QuietStep DEF IInv, Fence
<1>4. CASE RunRetry
  BY <1>2, <1>3, <1>4 DEF RunRetry, IInv, TypeOK
<1>5. CASE Maintain
  BY <1>2, <1>5 DEF Maintain, Due, Network, IInv, TypeOK
<1>6. CASE Tick
  <2>1. claimAge' \in 0..2 /\ rowAge' \in 0..2
    BY <1>6 DEF Tick, Grow, IInv, TypeOK
  <2> QED
    BY <1>3, <1>6, <2>1 DEF Tick, Network, IInv, TypeOK
<1> QED
  BY <1>1, <1>4, <1>5, <1>6

LEMMA Initially == Init => IInv
<1> SUFFICES ASSUME Init PROVE IInv
  OBVIOUS
<1>1. TypeOK
  <2>1. row \in Rows
    BY DEF Init, Rows, Terminals, Dispatches
  <2>2. claimAge \in 0..2 /\ rowAge \in 0..2 /\ started \in Nat
        /\ storms \in 0..Storms /\ faults \in 0..MaxFaults
    BY CleanupRetryAssumption DEF Init
  <2>3. wire \in BOOLEAN /\ ran \in BOOLEAN /\ local \in BOOLEAN
    BY Zenon DEF Init
  <2>4. pc \in [Callers -> Steps]
    BY DEF Init, Steps
  <2> QED
    BY <2>1, <2>2, <2>3, <2>4 DEF TypeOK, Rows
<1>2. RowInv /\ HolderInv /\ PlaceInv /\ OnceInv /\ DispatchIsTold
  BY DEF Init, RowInv, HolderInv, PlaceInv, OnceInv, DispatchIsTold, NothingSent, Scrubbed, AtService
<1> QED
  BY <1>1, <1>2 DEF IInv

LEMMA InductiveStep == IInv /\ [Next]_vars => IInv'
<1> SUFFICES ASSUME IInv, [Next]_vars PROVE IInv'
  OBVIOUS
<1>1. ASSUME NEW c \in Callers, CallerStep(c) PROVE IInv'
  <2>1. CASE Die(c)
    <3>1. faults' \in 0..MaxFaults
      BY <2>1, Lost DEF Die, IInv
    <3> QED
      BY <2>1, <3>1, LeaveStep, QuietStep DEF Die, Network, IInv, Fence
  <2> QED
    BY <1>1, <2>1, AskInv, ClaimInv, DispatchInv, SettleInv DEF CallerStep
<1>2. CASE UNCHANGED vars
  <2>1. Quiet /\ TypeOK'
    BY <1>2 DEF vars, Quiet, Kept, Scrubbed, IInv, TypeOK
  <2> QED
    BY <2>1, QuietStep DEF IInv, Fence
<1> QED
  BY <1>1, <1>2, ServiceInv DEF Next

-----------------------------------------------------------------------------
(* Each step is one of OneDispatch, or none *)

\* What the row says depends on nothing but its scrubbing and its dispatch.
LEMMA SaidOf ==
  ASSUME IInv
  PROVE  /\ Scrubbed => Said = "forgotten"
         /\ ~Scrubbed /\ row.dispatch \in {"none", "dispatching"} => Said = "nothing"
         /\ ~Scrubbed /\ row.dispatch = "scheduled" => Said = "accepted"
         /\ ~Scrubbed /\ row.dispatch = "not_dispatched" => Said = "never"
         /\ ~Scrubbed /\ row.dispatch = "dispatch_uncertain" => Said = "unsure"
BY DEF Said

LEMMA QuietAbstract ==
  ASSUME IInv, IInv', Quiet PROVE OD!Forget \/ UNCHANGED OD!vars
<1>1. CASE Forgotten
  BY <1>1, SaidOf DEF Quiet, Forgotten, Scrubbed, Said, OD!Forget
<1>2. CASE (Scrubbed' <=> Scrubbed) /\ Kept
  BY <1>2 DEF Quiet, Kept, Said, OD!vars
<1> QED
  BY <1>1, <1>2 DEF Quiet

LEMMA ClaimAbstract ==
  ASSUME IInv, IInv', NEW c \in Callers, Claimable, Claimed(c), UNCHANGED <<wire, started>>
  PROVE  OD!Claim
<1>1. /\ row.status = "cleanup_pending" /\ row.claim = Nobody /\ row'.status = row.status
      /\ row'.claim = c /\ row'.dispatch = "dispatching"
  BY ClaimedRow DEF IInv
<1>2. ~Scrubbed /\ ~Scrubbed' /\ row.dispatch = "none" /\ c # Nobody
  BY <1>1, CleanupRetryAssumption DEF Scrubbed, IInv, RowInv
<1>3. Said = "nothing" /\ Said' = "nothing"
  BY <1>1, <1>2 DEF Said
<1> QED
  BY <1>1, <1>2, <1>3 DEF OD!Claim

LEMMA DispatchAbstract ==
  ASSUME IInv, IInv', NEW c \in Callers, pc[c] = "dispatch", NEW step, Sent(step), UNCHANGED row
  PROVE  OD!Send \/ UNCHANGED OD!vars
<1>1. started = 0 /\ ~wire /\ (Scrubbed \/ row.dispatch = "dispatching")
  BY DEF IInv, PlaceInv, NothingSent
<1>2. Scrubbed \/ row.claim # Nobody
  BY CleanupRetryAssumption DEF IInv, HolderInv, AtService
<1>3. Said \in {"nothing", "forgotten"}
  BY <1>1, SaidOf
<1>4. Said' = Said /\ (Scrubbed' <=> Scrubbed)
  BY DEF Said, Scrubbed
<1>5. CASE UNCHANGED <<wire, started>>
  BY <1>4, <1>5 DEF OD!vars, Scrubbed
<1>6. CASE (started' = 1 /\ wire' = wire) \/ (wire' = TRUE /\ started' = started)
  <2>1. (wire' \/ started' > 0) = TRUE /\ (wire \/ started > 0) = FALSE
    BY <1>1, <1>6
  <2>2. (started' > 0) \in BOOLEAN
    BY <1>1, <1>6
  <2> QED
    BY <1>2, <1>3, <1>4, <2>1, <2>2 DEF OD!Send, Scrubbed
<1>7. started + 1 = 1
  BY <1>1
<1>8. UNCHANGED <<wire, started>> \/ (started' = 1 /\ wire' = wire) \/ (wire' = TRUE /\ started' = started)
  BY <1>7, Zenon DEF Sent
<1> QED
  BY <1>5, <1>6, <1>8

LEMMA SettleAbstract ==
  ASSUME IInv, IInv', NEW c \in Callers, NEW s \in Answers, Settled(c, s),
         s = "scheduled" => started = 1, s = "not_dispatched" => NothingSent,
         UNCHANGED <<wire, started>>
  PROVE  OD!Say \/ UNCHANGED OD!vars
<1>1. /\ row'.status = row.status /\ row'.claim = row.claim
      /\ row' = row \/ (row.claim = c /\ row'.dispatch = s)
  BY SettledRow DEF IInv
<1>2. CASE row' = row
  BY <1>2 DEF Said, Scrubbed, OD!vars
<1>3. CASE row.claim = c /\ row'.dispatch = s
  <2>1. ~Scrubbed /\ ~Scrubbed' /\ row.claim # Nobody
    BY <1>1, <1>3, CleanupRetryAssumption DEF IInv, RowInv, Scrubbed
  <2>2. Said # "forgotten"
    BY <2>1 DEF Said
  <2>3. \/ Said' = "unsure"
        \/ Said' = "accepted" /\ started > 0
        \/ Said' = "never" /\ ~(wire \/ started > 0)
    BY <1>3, <2>1 DEF Said, Answers, NothingSent
  <2> QED
    BY <1>1, <2>1, <2>2, <2>3 DEF OD!Say, Scrubbed
<1> QED
  BY <1>1, <1>2, <1>3

LEMMA AcceptAbstract == ASSUME IInv, IInv', AcceptLate PROVE OD!Accept
<1>1. /\ wire /\ started = 0 /\ started' = 1 /\ ~wire' /\ UNCHANGED row
  BY DEF AcceptLate, IInv, OnceInv
<1>2. Said' = Said
  BY <1>1 DEF Said, Scrubbed
<1>3. (wire \/ started > 0) = TRUE /\ (wire' \/ started' > 0) = TRUE /\ (started' > 0) = TRUE
      /\ ~(started > 0)
  BY <1>1
<1> QED
  BY <1>1, <1>2, <1>3 DEF OD!Accept, Scrubbed

LEMMA StepAbstract ==
  ASSUME IInv, IInv', [Next]_vars PROVE [OD!Next]_OD!vars
<1>1. CASE Quiet
  BY <1>1, QuietAbstract DEF OD!Next
<1>2. ASSUME NEW c \in Callers, CallerStep(c), ~Quiet
      PROVE  [OD!Next]_OD!vars
  <2>1. CASE \E t \in Terminals : Ask(c, t)
    <3>1. PICK t \in Terminals : Ask(c, t)
      BY <2>1
    <3> DEFINE step == IF row'.status = "cleanup_pending" THEN "claim" ELSE "done"
    <3>2. \A d \in Callers : pc'[d] = IF d = c THEN step ELSE pc[d]
      BY <3>1, Moved DEF Ask, IInv, Steps
    <3>3. Quiet
      BY <3>1, <3>2, CleanUpStep DEF Ask, Network, AtService
    <3> QED
      BY <1>2, <3>3
  <2>2. CASE Claim(c) \/ ClaimMisses(c) \/ ClaimLost(c) \/ Die(c)
    <3>1. CASE Claimable /\ Claimed(c)
      BY <2>2, <3>1, ClaimAbstract DEF Claim, ClaimMisses, ClaimLost, Die, Network, OD!Next
    <3>2. CASE ~(Claimable /\ Claimed(c))
      <4>1. Move(c, "done") /\ UNCHANGED <<row, wire, started>>
        BY <2>2, <3>2 DEF Claim, ClaimMisses, ClaimLost, Die, Network
      <4>2. Quiet
        BY <4>1, Moved DEF Quiet, Kept, Scrubbed, AtService, Steps, IInv
      <4> QED
        BY <1>2, <4>2
    <3> QED
      BY <3>1, <3>2
  <2>3. CASE DispatchLocally(c) \/ Dispatch(c) \/ DispatchLost(c)
    <3>1. PICK step : pc[c] = "dispatch" /\ Sent(step) /\ UNCHANGED row
      BY <2>3 DEF DispatchLocally, Dispatch, DispatchLost, Sent, Network
    <3> QED
      BY <3>1, DispatchAbstract DEF OD!Next
  <2>4. CASE Settle(c) \/ SettleLost(c) \/ SettleUncertain(c)
    <3>1. /\ UNCHANGED <<wire, started>>
          /\ \/ pc[c] \in {"scheduled", "not_dispatched"} /\ Settled(c, pc[c])
             \/ pc[c] = "uncertain" /\ Settled(c, "dispatch_uncertain")
             \/ UNCHANGED row
      BY <2>4 DEF Settle, SettleLost, SettleUncertain, Network
    <3>2. /\ pc[c] = "scheduled" => started = 1
          /\ pc[c] = "not_dispatched" => NothingSent
      BY DEF IInv, PlaceInv
    <3>3. CASE UNCHANGED row
      BY <3>1, <3>3 DEF OD!vars, Said, Scrubbed
    <3> QED
      BY <3>1, <3>2, <3>3, SettleAbstract DEF Answers, OD!Next
  <2> QED
    BY <1>2, <2>1, <2>2, <2>3, <2>4 DEF CallerStep
<1>3. CASE AcceptLate
  BY <1>3, AcceptAbstract DEF OD!Next
<1>4. CASE RunRetry \/ Maintain
  <2>1. CASE Pending /\ CleanUp(row.terminal)
    <3>1. row.terminal \in Terminals /\ row.status # "expired"
      BY <2>1 DEF IInv, TypeOK, Pending
    <3>2. Quiet
      BY <1>4, <2>1, <3>1, CleanUpStep DEF RunRetry, Maintain, Network
    <3> QED
      BY <1>1, <3>2
  <2>2. CASE ~(Pending /\ CleanUp(row.terminal))
    <3>1. UNCHANGED <<row, pc, wire, started>>
      BY <1>4, <2>2 DEF RunRetry, Maintain, Due
    <3> QED
      BY <1>1, <3>1 DEF Quiet, Kept, Scrubbed
  <2> QED
    BY <2>1, <2>2
<1>5. CASE Tick \/ UNCHANGED vars
  BY <1>1, <1>5 DEF Tick, vars, Network, Quiet, Kept, Scrubbed
<1> QED
  BY <1>1, <1>2, <1>3, <1>4, <1>5 DEF Next

LEMMA InitAbstract == Init => OD!Init
<1> SUFFICES ASSUME Init PROVE OD!Init
  OBVIOUS
<1>1. ~Scrubbed /\ row.claim = Nobody /\ row.dispatch = "none"
  BY DEF Init, Scrubbed
<1>2. Said = "nothing"
  BY <1>1 DEF Said
<1>3. (wire \/ started > 0) = FALSE /\ (started > 0) = FALSE
  BY DEF Init
<1> QED
  BY <1>1, <1>2, <1>3 DEF OD!Init

-----------------------------------------------------------------------------
(* Theorems *)

LEMMA Inductive == Spec => []IInv
BY Initially, InductiveStep, PTL DEF Spec

\* The row, the ages and the callers' places keep their types.
THEOREM TypeCorrect == Spec => []TypeOK
BY Inductive, PTL DEF IInv

\* However many callers ask and whatever is lost, at most one retry is ever sent for a
\* run (scheduleCleanupRetry).
THEOREM RetriedOnce == Spec => []AtMostOneRetry
<1>1. IInv => AtMostOneRetry
  <2> SUFFICES ASSUME IInv PROVE AtMostOneRetry
    OBVIOUS
  <2>1. started \in Nat
    BY DEF IInv, TypeOK
  <2>2. CASE wire
    BY <2>2 DEF IInv, OnceInv, AtMostOneRetry
  <2>3. CASE ~wire
    BY <2>1, <2>3 DEF IInv, OnceInv, AtMostOneRetry
  <2> QED
    BY <2>2, <2>3
<1> QED
  BY <1>1, Inductive, PTL

\* A row that says "scheduled" or "not dispatched" says so truthfully.
THEOREM ToldTruly == Spec => []DispatchIsTold
BY Inductive, PTL DEF IInv

\* A claimed retry that no service has started is due for maintenance once the grace of
\* its claim is over, whoever died and whatever was lost.
THEOREM NeverStranded == Spec => []UnstartedRetryIsDue
<1>1. IInv => UnstartedRetryIsDue
  BY CleanupRetryAssumption
  DEF IInv, TypeOK, RowInv, DispatchIsTold, UnstartedRetryIsDue, Due, Dispatches
<1> QED
  BY <1>1, Inductive, PTL

\* The claim in the row, the calls to the service and the answers recorded implement a
\* right to dispatch once, told of truthfully, for any number of callers and faults.
THEOREM Implements == Spec => KeepsOneDispatch
<1>1. IInv /\ IInv' /\ [Next]_vars => [OD!Next]_OD!vars
  BY StepAbstract
<1> QED
  BY <1>1, InitAbstract, Inductive, PTL DEF Spec, KeepsOneDispatch, OD!Spec

-----------------------------------------------------------------------------
(* A paid parse *)

CONSTANTS Docs, Reserve, Costs, MaxPolls, MaxRedirects, ParseFaults
VARIABLES offered, contract, place, count, provider, posts, access, ledger, source, troubles

Parse == INSTANCE MonidParse WITH
  MaxFaults <- ParseFaults, pc <- place, wire <- posts, faults <- troubles

ParseSteps == {"contract", "mark", "post", "poll", "artifact", "parsed", "terminal", "unknown",
               "failed", "remove", "kept", "over"}

ParseTypes ==
  /\ place \in [Docs -> ParseSteps]
  /\ provider \in [Docs -> [status : Parse!Statuses, nested : BOOLEAN, cost : 0..Reserve]]
  /\ posts \subseteq Docs /\ access \in [Docs -> BOOLEAN] /\ source \in [Docs -> BOOLEAN]
  /\ ledger \in [Docs -> [state : {"none", "started", "captured"}, booked : 0..Reserve]]

\* The provider has run the document, and will not run it again.
RunIsOver(d) == d \notin posts /\ provider[d].status \in {"completed", "ended"}
NeverRan(d) == d \notin posts /\ provider[d].status = "none"

\* Who has come so far has found the contract to be the pinned one.
ContractInv ==
  /\ contract = "valid" => offered = "pinned"
  /\ \A d \in Docs :
       place[d] \notin {"contract", "failed", "over"} \/ ~NeverRan(d) => contract = "valid"

\* What each place in the worker knows of the provider and has on the books.
PlaceIsTrue(d) ==
  /\ place[d] \in {"contract", "mark", "post", "failed"} => NeverRan(d)
  /\ place[d] \in {"artifact", "parsed", "terminal", "remove", "kept"} => RunIsOver(d)
  /\ place[d] = "poll" => d \notin posts /\ provider[d].status # "none"
  /\ place[d] = "post" => ledger[d] = [state |-> "started", booked |-> Reserve]

\* The reserve is booked before anything is charged, and stays until the end is known.
BookIsTrue(d) ==
  /\ d \in posts => provider[d].status = "none"
  /\ ledger[d].state = "captured" => RunIsOver(d) /\ ledger[d].booked >= provider[d].cost
  /\ ~NeverRan(d) /\ ledger[d].state # "captured" =>
       ledger[d] = [state |-> "started", booked |-> Reserve]

\* A source is gone when its run is over, was never asked for, or cannot read it.
SourceIsFree(d) ==
  source[d] \/ ~access[d] \/ RunIsOver(d) \/ (place[d] = "over" /\ NeverRan(d))

ParseInv ==
  ParseTypes /\ ContractInv /\ \A d \in Docs : PlaceIsTrue(d) /\ BookIsTrue(d) /\ SourceIsFree(d)

LEMMA ParseInit ==
  ASSUME Parse!MonidAssumption, Parse!Init
  PROVE  ParseInv
BY DEF Parse!MonidAssumption, Parse!Init, ParseInv, ParseTypes, ContractInv, PlaceIsTrue,
   BookIsTrue, SourceIsFree, RunIsOver, NeverRan, ParseSteps, Parse!Statuses, Parse!NoProviderRun,
   Parse!NoAttempt

\* A document that changes nothing of another one leaves what is known of that.
OthersOf(d) ==
  \A e \in Docs \ {d} :
    /\ place'[e] = place[e] /\ provider'[e] = provider[e] /\ (e \in posts' <=> e \in posts)
    /\ access'[e] = access[e] /\ source'[e] = source[e] /\ ledger'[e] = ledger[e]

LEMMA OthersKept ==
  ASSUME ParseInv, NEW d \in Docs, OthersOf(d), ParseTypes', ContractInv',
         PlaceIsTrue(d)', BookIsTrue(d)', SourceIsFree(d)'
  PROVE  ParseInv'
<1>1. \A e \in Docs \ {d} : PlaceIsTrue(e)' /\ BookIsTrue(e)' /\ SourceIsFree(e)'
  BY DEF ParseInv, OthersOf, PlaceIsTrue, BookIsTrue, SourceIsFree, RunIsOver, NeverRan
<1> QED
  BY <1>1 DEF ParseInv

LEMMA ContractStep ==
  ASSUME ParseInv, NEW d \in Docs, Parse!ValidateContract(d)
  PROVE  ParseInv'
<1>1. /\ place[d] = "contract"
      /\ UNCHANGED <<offered, count, provider, posts, access, ledger, source>>
      /\ place' = [place EXCEPT ![d] = IF contract' = "valid" THEN "mark" ELSE "failed"]
      /\ contract' = "valid" => offered = "pinned"
      /\ contract = "valid" => contract' = "valid"
  BY DEF Parse!ValidateContract, Parse!Move, Parse!Outside, Parse!Durable, ParseInv, ContractInv
<1>2. OthersOf(d) /\ ParseTypes'
  BY <1>1 DEF OthersOf, ParseInv, ParseTypes, ParseSteps
<1>3. place'[d] = IF contract' = "valid" THEN "mark" ELSE "failed"
  BY <1>1 DEF ParseInv, ParseTypes
<1>4. ContractInv'
  <2>1. \A e \in Docs : NeverRan(e)' <=> NeverRan(e)
    BY <1>1 DEF NeverRan
  <2>2. \A e \in Docs \ {d} : place'[e] = place[e]
    BY <1>2 DEF OthersOf
  <2>3. NeverRan(d)
    BY <1>1 DEF ParseInv, PlaceIsTrue
  <2> QED
    BY <1>1, <1>3, <2>1, <2>2, <2>3 DEF ParseInv, ContractInv
<1>5. PlaceIsTrue(d)' /\ BookIsTrue(d)' /\ SourceIsFree(d)'
  BY <1>1, <1>3 DEF ParseInv, PlaceIsTrue, BookIsTrue, SourceIsFree, RunIsOver, NeverRan
<1> QED
  BY <1>2, <1>4, <1>5, OthersKept

\* A step that moves one worker and leaves the contract, the provider and the POSTs.
LEMMA WorkerMoves ==
  ASSUME ParseInv, NEW d \in Docs, place' = [place EXCEPT ![d] = place'[d]], place'[d] \in ParseSteps,
         UNCHANGED <<offered, contract, provider, posts, access>>,
         source' = [source EXCEPT ![d] = source'[d]], source'[d] \in BOOLEAN,
         ledger' = [ledger EXCEPT ![d] = ledger'[d]],
         ledger'[d] \in [state : {"none", "started", "captured"}, booked : 0..Reserve],
         place[d] \in {"contract", "failed", "over"} =>
           place'[d] \in {"contract", "failed", "over"},
         PlaceIsTrue(d)', BookIsTrue(d)', SourceIsFree(d)'
  PROVE  ParseInv'
<1>1. OthersOf(d) /\ ParseTypes'
  BY DEF OthersOf, ParseInv, ParseTypes
<1>2. \A e \in Docs : NeverRan(e)' <=> NeverRan(e)
  BY DEF NeverRan
<1>3. ContractInv'
  BY <1>1, <1>2 DEF OthersOf, ParseInv, ContractInv
<1> QED
  BY <1>1, <1>3, OthersKept

LEMMA MarkStep ==
  ASSUME Parse!MonidAssumption, ParseInv, NEW d \in Docs, Parse!MarkStarted(d)
  PROVE  ParseInv'
<1>1. /\ place[d] = "mark" /\ UNCHANGED <<offered, contract, count, provider, posts, access, source>>
      /\ \/ /\ place' = [place EXCEPT ![d] = "post"]
            /\ ledger' = [ledger EXCEPT ![d] = [state |-> "started", booked |-> Reserve]]
         \/ /\ place' = [place EXCEPT ![d] = "failed"]
            /\ \/ UNCHANGED ledger
               \/ ledger' = [ledger EXCEPT ![d] = [state |-> "started", booked |-> Reserve]]
  BY DEF Parse!MarkStarted, Parse!Move, Parse!Booked, Parse!Outside
<1>2. place[d] \in ParseSteps /\ NeverRan(d) /\ Reserve \in 0..Reserve
  BY <1>1 DEF ParseInv, ParseTypes, PlaceIsTrue, Parse!MonidAssumption
<1>3. /\ place' = [place EXCEPT ![d] = place'[d]] /\ place'[d] \in {"post", "failed"}
      /\ ledger' = [ledger EXCEPT ![d] = ledger'[d]] /\ source' = [source EXCEPT ![d] = source'[d]]
      /\ source'[d] \in BOOLEAN
      /\ ledger'[d] \in {ledger[d], [state |-> "started", booked |-> Reserve]}
      /\ place'[d] = "post" => ledger'[d] = [state |-> "started", booked |-> Reserve]
  BY <1>1 DEF ParseInv, ParseTypes
<1>4. ledger'[d] \in [state : {"none", "started", "captured"}, booked : 0..Reserve]
  BY <1>2, <1>3 DEF ParseInv, ParseTypes
<1>5. PlaceIsTrue(d)' /\ BookIsTrue(d)' /\ SourceIsFree(d)'
  BY <1>1, <1>2, <1>3 DEF ParseInv, PlaceIsTrue, BookIsTrue, SourceIsFree, RunIsOver, NeverRan
<1> QED
  BY <1>1, <1>3, <1>4, <1>5, WorkerMoves DEF ParseSteps

\* The provider starts: the reserve is booked, and no more is charged.
LEMMA ProviderStarts ==
  ASSUME Parse!MonidAssumption, ParseInv, NEW d \in Docs, Parse!Started(d),
         d \in posts \/ (NeverRan(d) /\ place[d] = "post"),
         posts' = posts \ {d}, UNCHANGED <<offered, contract, access, ledger, source>>,
         contract = "valid", ledger[d] = [state |-> "started", booked |-> Reserve],
         place' = [place EXCEPT ![d] = place'[d]],
         \/ place[d] = "post" /\ place'[d] \in {"poll", "unknown"}
         \/ place[d] \in {"unknown", "over"} /\ place'[d] = place[d]
  PROVE  ParseInv'
<1>1. PICK cost \in Costs, nested \in BOOLEAN :
        provider' = [provider EXCEPT ![d] = [status |-> "running", nested |-> nested, cost |-> cost]]
  BY DEF Parse!Started
<1>2. provider'[d].status = "running" /\ cost \in 0..Reserve
  BY <1>1 DEF ParseInv, ParseTypes, Parse!MonidAssumption
<1>3. OthersOf(d) /\ ParseTypes'
  BY <1>1, <1>2 DEF OthersOf, ParseInv, ParseTypes, ParseSteps, Parse!Statuses
<1>4. ContractInv'
  BY DEF ParseInv, ContractInv
<1>5. source[d] \/ ~access[d]
  BY DEF ParseInv, SourceIsFree, PlaceIsTrue, BookIsTrue, RunIsOver, NeverRan
<1>6. PlaceIsTrue(d)' /\ BookIsTrue(d)' /\ SourceIsFree(d)'
  BY <1>2, <1>5 DEF ParseInv, PlaceIsTrue, BookIsTrue, SourceIsFree, RunIsOver, NeverRan
<1> QED
  BY <1>3, <1>4, <1>6, OthersKept

LEMMA PostStep ==
  ASSUME Parse!MonidAssumption, ParseInv, NEW d \in Docs, Parse!Post(d) \/ Parse!PostLost(d)
  PROVE  ParseInv'
<1>1. /\ place[d] = "post" /\ UNCHANGED <<offered, contract, access, ledger, source>>
      /\ place' = [place EXCEPT ![d] = place'[d]] /\ place'[d] \in {"poll", "unknown"}
  BY DEF Parse!Post, Parse!PostLost, Parse!Counted, Parse!Move, Parse!Durable, ParseInv, ParseTypes
<1>2. /\ NeverRan(d) /\ contract = "valid"
      /\ ledger[d] = [state |-> "started", booked |-> Reserve]
  BY <1>1 DEF ParseInv, ContractInv, PlaceIsTrue
<1>3. CASE Parse!Started(d) /\ posts' = posts
  <2>1. posts' = posts \ {d}
    BY <1>2, <1>3 DEF NeverRan
  <2> QED
    BY <1>1, <1>2, <1>3, <2>1, ProviderStarts
<1>4. CASE UNCHANGED provider /\ place'[d] = "unknown" /\ posts' \in {posts, posts \cup {d}}
  <2>1. OthersOf(d) /\ ParseTypes'
    BY <1>1, <1>4 DEF OthersOf, ParseInv, ParseTypes, ParseSteps
  <2>2. ContractInv'
    BY <1>1, <1>2 DEF ParseInv, ContractInv
  <2>3. source[d] \/ ~access[d]
    BY <1>1, <1>2 DEF ParseInv, SourceIsFree, RunIsOver, NeverRan
  <2>4. PlaceIsTrue(d)' /\ BookIsTrue(d)' /\ SourceIsFree(d)'
    BY <1>1, <1>2, <1>4, <2>3 DEF ParseInv, PlaceIsTrue, BookIsTrue, SourceIsFree, RunIsOver, NeverRan
  <2> QED
    BY <2>1, <2>2, <2>4, OthersKept
<1>5. CASE Parse!Post(d)
  BY <1>3, <1>5 DEF Parse!Post
<1>6. CASE Parse!PostLost(d)
  <2>1. place'[d] = "unknown"
    BY <1>6 DEF Parse!PostLost, Parse!Move, ParseInv, ParseTypes
  <2> QED
    BY <1>3, <1>4, <1>6, <2>1 DEF Parse!PostLost
<1> QED
  BY <1>5, <1>6

LEMMA LateStep ==
  ASSUME Parse!MonidAssumption, ParseInv, NEW d \in Docs, Parse!StartLate(d)
  PROVE  ParseInv'
<1>1. /\ d \in posts /\ posts' = posts \ {d} /\ Parse!Started(d)
      /\ UNCHANGED <<offered, contract, place, access, ledger, source>>
  BY DEF Parse!StartLate, Parse!Durable
<1>2. place[d] \in {"unknown", "over"}
  BY <1>1 DEF ParseInv, ParseTypes, ParseSteps, PlaceIsTrue, RunIsOver, NeverRan
<1>3. contract = "valid" /\ ledger[d] = [state |-> "started", booked |-> Reserve]
  BY <1>1 DEF ParseInv, ContractInv, BookIsTrue, RunIsOver, NeverRan
<1>4. place' = [place EXCEPT ![d] = place'[d]]
  BY <1>1 DEF ParseInv, ParseTypes
<1> QED
  BY <1>1, <1>2, <1>3, <1>4, ProviderStarts

\* The worker asks and learns, or does not.
LEMMA AskingStep ==
  ASSUME ParseInv, NEW d \in Docs,
         Parse!Poll(d) \/ Parse!PollLost(d) \/ Parse!FetchArtifact(d) \/ Parse!Keep(d)
  PROVE  ParseInv'
<1>1. /\ place[d] \in {"poll", "artifact", "unknown", "kept"}
      /\ UNCHANGED <<offered, contract, provider, posts, access, ledger, source>>
      /\ place' = [place EXCEPT ![d] = place'[d]]
      /\ place'[d] \in {"poll", "artifact", "parsed", "terminal", "unknown", "over"}
      /\ place'[d] \in {"artifact", "parsed", "terminal"} => RunIsOver(d)
      /\ place'[d] = "poll" => place[d] = "poll"
  <2>0. place[d] = "poll" => d \notin posts
    BY DEF ParseInv, PlaceIsTrue
  <2>1. place \in [Docs -> ParseSteps]
    BY DEF ParseInv, ParseTypes
  <2>2. CASE Parse!Poll(d)
    <3>1. place[d] = "poll"
      BY <2>2 DEF Parse!Poll
    <3>2. provider[d].status \in {"running", "ended", "completed"}
      BY <3>1 DEF ParseInv, ParseTypes, PlaceIsTrue, Parse!Statuses
    <3>3. CASE provider[d].status = "running"
      BY <2>1, <2>2, <3>1, <3>3
      DEF Parse!Poll, Parse!PollAgain, Parse!Counted, Parse!Move, Parse!Outside, Parse!Durable
    <3>4. CASE provider[d].status = "ended"
      BY <2>0, <2>1, <2>2, <3>1, <3>4
      DEF Parse!Poll, Parse!Counted, Parse!Move, Parse!Outside, Parse!Durable, RunIsOver
    <3>5. CASE provider[d].status = "completed"
      BY <2>0, <2>1, <2>2, <3>1, <3>5
      DEF Parse!Poll, Parse!Counted, Parse!Move, Parse!Outside, Parse!Durable, RunIsOver
    <3> QED
      BY <3>2, <3>3, <3>4, <3>5
  <2>3. CASE Parse!PollLost(d)
    BY <2>1, <2>3 DEF Parse!PollLost, Parse!Counted, Parse!Move, Parse!Outside, Parse!Durable
  <2>4. CASE Parse!FetchArtifact(d)
    <3>1. place[d] = "artifact" /\ RunIsOver(d)
      BY <2>4 DEF Parse!FetchArtifact, ParseInv, PlaceIsTrue
    <3> QED
      BY <2>1, <2>4, <3>1
      DEF Parse!FetchArtifact, Parse!Counted, Parse!Move, Parse!Outside, Parse!Durable
  <2>5. CASE Parse!Keep(d)
    BY <2>1, <2>5 DEF Parse!Keep, Parse!Move, Parse!Outside, Parse!Durable
  <2> QED
    BY <2>2, <2>3, <2>4, <2>5
<1>2. PlaceIsTrue(d)' /\ BookIsTrue(d)' /\ SourceIsFree(d)'
  BY <1>1 DEF ParseInv, PlaceIsTrue, BookIsTrue, SourceIsFree, RunIsOver, NeverRan
<1>3. /\ ledger' = [ledger EXCEPT ![d] = ledger'[d]] /\ source' = [source EXCEPT ![d] = source'[d]]
      /\ ledger'[d] \in [state : {"none", "started", "captured"}, booked : 0..Reserve]
      /\ source'[d] \in BOOLEAN /\ place'[d] \in ParseSteps
  BY <1>1 DEF ParseInv, ParseTypes, ParseSteps
<1> QED
  BY <1>1, <1>2, <1>3, WorkerMoves

LEMMA CaptureStep ==
  ASSUME Parse!MonidAssumption, ParseInv, NEW d \in Docs, Parse!Capture(d)
  PROVE  ParseInv'
<1>1. /\ place[d] \in {"parsed", "terminal"}
      /\ UNCHANGED <<offered, contract, provider, posts, access, source>>
      /\ \E to \in {"remove", "kept"} : place' = [place EXCEPT ![d] = to]
      /\ \/ UNCHANGED ledger
         \/ \E cost \in {provider[d].cost, Reserve} :
              ledger' = [ledger EXCEPT ![d] = [state |-> "captured", booked |-> cost]]
  BY DEF Parse!Capture, Parse!Captured, Parse!Move, Parse!Booked, Parse!Actual, Parse!Outside
<1>2. RunIsOver(d) /\ provider[d].cost \in 0..Reserve /\ Reserve \in 0..Reserve
  BY <1>1 DEF ParseInv, ParseTypes, PlaceIsTrue, Parse!MonidAssumption
<1>3. /\ place' = [place EXCEPT ![d] = place'[d]] /\ place'[d] \in {"remove", "kept"}
      /\ source' = [source EXCEPT ![d] = source'[d]] /\ source'[d] \in BOOLEAN
      /\ ledger' = [ledger EXCEPT ![d] = ledger'[d]]
      /\ \/ ledger'[d] = ledger[d]
         \/ ledger'[d].state = "captured" /\ ledger'[d].booked >= provider[d].cost
      /\ ledger'[d] \in [state : {"none", "started", "captured"}, booked : 0..Reserve]
  BY <1>1, <1>2 DEF ParseInv, ParseTypes
<1>4. PlaceIsTrue(d)' /\ BookIsTrue(d)' /\ SourceIsFree(d)'
  BY <1>1, <1>2, <1>3 DEF ParseInv, PlaceIsTrue, BookIsTrue, SourceIsFree, RunIsOver, NeverRan
<1> QED
  BY <1>1, <1>3, <1>4, WorkerMoves DEF ParseSteps

LEMMA RemoveStep ==
  ASSUME ParseInv, NEW d \in Docs, Parse!Remove(d)
  PROVE  ParseInv'
<1>1. /\ place[d] \in {"failed", "remove"} /\ place' = [place EXCEPT ![d] = "over"]
      /\ UNCHANGED <<offered, contract, provider, posts, access, ledger>>
      /\ source' \in {source, [source EXCEPT ![d] = FALSE]}
  BY DEF Parse!Remove, Parse!Move, Parse!Outside
<1>2. NeverRan(d) \/ RunIsOver(d)
  BY <1>1 DEF ParseInv, PlaceIsTrue
<1>3. /\ place' = [place EXCEPT ![d] = place'[d]] /\ place'[d] = "over"
      /\ source' = [source EXCEPT ![d] = source'[d]] /\ source'[d] \in BOOLEAN
      /\ ledger' = [ledger EXCEPT ![d] = ledger'[d]]
      /\ ledger'[d] \in [state : {"none", "started", "captured"}, booked : 0..Reserve]
  BY <1>1 DEF ParseInv, ParseTypes
<1>4. PlaceIsTrue(d)' /\ BookIsTrue(d)' /\ SourceIsFree(d)'
  BY <1>1, <1>2, <1>3 DEF ParseInv, PlaceIsTrue, BookIsTrue, SourceIsFree, RunIsOver, NeverRan
<1> QED
  BY <1>1, <1>3, <1>4, WorkerMoves DEF ParseSteps

\* The provider ends, the URL runs out, or the watchdog comes.
LEMMA OutsideStep ==
  ASSUME ParseInv, NEW d \in Docs,
         Parse!ProviderEnds(d) \/ Parse!AccessEnds(d) \/ Parse!WatchdogRemoves(d)
  PROVE  ParseInv'
<1>1. /\ UNCHANGED <<offered, contract, place, posts, ledger>>
      /\ \/ /\ provider[d].status = "running" /\ UNCHANGED <<access, source>>
            /\ \E status \in {"completed", "ended"} :
                 provider' = [provider EXCEPT ![d].status = status]
         \/ access' = [access EXCEPT ![d] = FALSE] /\ UNCHANGED <<provider, source>>
         \/ /\ source' = [source EXCEPT ![d] = FALSE] /\ UNCHANGED <<provider, access>>
            /\ ledger[d].state = "captured" \/ ~access[d]
  BY DEF Parse!ProviderEnds, Parse!AccessEnds, Parse!WatchdogRemoves, Parse!Outside, Parse!Durable
<1>2. ParseTypes' /\ OthersOf(d)
  <2>1. ParseTypes
    BY DEF ParseInv
  <2>2. provider' \in [Docs -> [status : Parse!Statuses, nested : BOOLEAN, cost : 0..Reserve]]
    <3>1. provider[d] \in [status : Parse!Statuses, nested : BOOLEAN, cost : 0..Reserve]
      BY <2>1 DEF ParseTypes
    <3>2. CASE UNCHANGED provider
      BY <2>1, <3>2 DEF ParseTypes
    <3>3. ASSUME NEW status \in {"completed", "ended"},
                 provider' = [provider EXCEPT ![d].status = status]
          PROVE  provider' \in [Docs -> [status : Parse!Statuses, nested : BOOLEAN, cost : 0..Reserve]]
      <4>1. status \in Parse!Statuses
        BY DEF Parse!Statuses
      <4>2. [provider[d] EXCEPT !.status = status] \in
              [status : Parse!Statuses, nested : BOOLEAN, cost : 0..Reserve]
        BY <3>1, <4>1
      <4>3. provider \in [Docs -> [status : Parse!Statuses, nested : BOOLEAN, cost : 0..Reserve]]
        BY <2>1 DEF ParseTypes
      <4>4. provider' = [provider EXCEPT ![d] = [provider[d] EXCEPT !.status = status]]
        BY <3>3
      <4> QED
        BY <4>2, <4>3, <4>4
    <3> QED
      BY <1>1, <3>2, <3>3
  <2>3. access' \in [Docs -> BOOLEAN] /\ source' \in [Docs -> BOOLEAN]
    BY <1>1, <2>1 DEF ParseTypes
  <2>4. ParseTypes'
    BY <1>1, <2>1, <2>2, <2>3 DEF ParseTypes
  <2>5. OthersOf(d)
    BY <1>1, <2>1 DEF ParseTypes, OthersOf
  <2> QED
    BY <2>4, <2>5
<1>3. /\ provider'[d].cost = provider[d].cost
      /\ \/ provider'[d].status = provider[d].status
         \/ provider[d].status = "running" /\ provider'[d].status \in {"completed", "ended"}
      /\ access'[d] => access[d]
      /\ source'[d] \/ ~source[d] \/ ledger[d].state = "captured" \/ ~access[d]
  BY <1>1 DEF ParseInv, ParseTypes
<1>4. \A e \in Docs : NeverRan(e)' <=> NeverRan(e)
  BY <1>1, <1>2, <1>3 DEF NeverRan, OthersOf
<1>5. ContractInv'
  BY <1>1, <1>4 DEF ParseInv, ContractInv
<1>6. RunIsOver(d) => RunIsOver(d)'
  BY <1>1, <1>3 DEF RunIsOver
<1>7. PlaceIsTrue(d)' /\ BookIsTrue(d)' /\ SourceIsFree(d)'
  BY <1>1, <1>3, <1>4, <1>6 DEF ParseInv, PlaceIsTrue, BookIsTrue, SourceIsFree
<1> QED
  BY <1>2, <1>5, <1>7, OthersKept

LEMMA ParseNext ==
  ASSUME Parse!MonidAssumption, ParseInv, [Parse!Next]_(Parse!vars)
  PROVE  ParseInv'
<1>1. CASE UNCHANGED Parse!vars
  BY <1>1 DEF Parse!vars, ParseInv, ParseTypes, ContractInv, PlaceIsTrue, BookIsTrue, SourceIsFree,
     RunIsOver, NeverRan
<1>2. ASSUME NEW d \in Docs, Parse!Worker(d) PROVE ParseInv'
  BY <1>2, ContractStep, MarkStep, PostStep, AskingStep, CaptureStep, RemoveStep DEF Parse!Worker
<1> QED
  BY <1>1, <1>2, LateStep, OutsideStep DEF Parse!Next

\* What the parser charges is on the books while it can be charged, under the contract that
\* was checked, and no source goes while a run of the provider may read it: the safety
\* of ParseIsKept, for any documents, costs within the reserve, limits and faults.
THEOREM ParsesAreSafe ==
  Parse!MonidAssumption => (Parse!Spec => [](Parse!PaidIsBooked /\ Parse!SourceOutlivesRun))
<1> SUFFICES ASSUME Parse!MonidAssumption
             PROVE  Parse!Spec => [](Parse!PaidIsBooked /\ Parse!SourceOutlivesRun)
  OBVIOUS
<1>1. Parse!Init => ParseInv
  BY ParseInit
<1>2. ParseInv /\ [Parse!Next]_(Parse!vars) => ParseInv'
  BY ParseNext
<1>3. ParseInv => Parse!PaidIsBooked /\ Parse!SourceOutlivesRun
  <2> SUFFICES ASSUME ParseInv PROVE Parse!PaidIsBooked /\ Parse!SourceOutlivesRun
    OBVIOUS
  <2>1. ASSUME NEW d \in Docs, ~NeverRan(d)
        PROVE  /\ ledger[d].state # "none" /\ ledger[d].booked >= provider[d].cost
               /\ contract = "valid" /\ offered = "pinned"
    BY <2>1 DEF ParseInv, ParseTypes, ContractInv, BookIsTrue
  <2>2. Parse!PaidIsBooked
    BY <2>1 DEF Parse!PaidIsBooked, NeverRan
  <2>3. Parse!SourceOutlivesRun
    BY DEF Parse!SourceOutlivesRun, ParseInv, SourceIsFree, RunIsOver, NeverRan
  <2> QED
    BY <2>2, <2>3
<1> QED
  BY <1>1, <1>2, <1>3, PTL DEF Parse!Spec

-----------------------------------------------------------------------------
(* Passes over a table of runs *)

CONSTANTS Runs, Stuck, Owned, OwnerOf, Passes, Batch
VARIABLES rows, at, todo, pass

Cleaning == INSTANCE Maintenance WITH row <- rows, pc <- pass

MaintainedRows ==
  [status : Cleaning!Statuses, lease : {"none", "live", "elapsed"},
   terminal : {"none", "failed", "expired"}, aged : BOOLEAN, rested : BOOLEAN]

ListedRuns ==
  [run : Runs, status : Cleaning!Statuses, terminal : {"none", "failed", "expired"}]

\* A listed run that had expired is never taken up again, and an end is asked for only
\* while a cleanup is pending.
PassInv ==
  /\ rows \in [Runs -> MaintainedRows] /\ todo \in [Passes -> Seq(ListedRuns)]
  /\ pass \in [Passes -> {"idle", "list", "next", "confirm"}]
  /\ \A p \in Passes : pass[p] = "confirm" => todo[p] # <<>>
  /\ \A r \in Runs : rows[r].terminal # "none" => rows[r].status = "cleanup_pending"
  /\ \A p \in Passes : \A i \in 1..Len(todo[p]) :
       todo[p][i].status = "expired" => rows[todo[p][i].run].status \in {"expired", "removed"}

\* What a step may do to the row of one run.
Follows(old, new) ==
  /\ new \in MaintainedRows
  /\ new.terminal # "none" => new.status = "cleanup_pending"
  /\ old.status \in {"expired", "removed"} => new.status \in {"expired", "removed"}
  /\ old.terminal = "expired" => new.terminal = "expired" \/ new.status = "expired"

LEMMA ListedRun ==
  ASSUME PassInv, NEW p \in Passes, todo[p] # <<>>
  PROVE  /\ Head(todo[p]) \in ListedRuns /\ Head(todo[p]).run \in Runs
         /\ Head(todo[p]) = todo[p][1] /\ 1 \in 1..Len(todo[p])
         /\ Tail(todo[p]) \in Seq(ListedRuns)
         /\ \A i \in 1..Len(Tail(todo[p])) :
              i + 1 \in 1..Len(todo[p]) /\ Tail(todo[p])[i] = todo[p][i + 1]
<1>1. todo[p] \in Seq(ListedRuns)
  BY DEF PassInv
<1>2. Len(todo[p]) \in Nat \ {0}
  BY <1>1
<1>3. Head(todo[p]) = todo[p][1] /\ Head(todo[p]) \in ListedRuns /\ 1 \in 1..Len(todo[p])
  BY <1>1, <1>2
<1>4. Tail(todo[p]) \in Seq(ListedRuns) /\ Len(Tail(todo[p])) = Len(todo[p]) - 1
  BY <1>1
<1>5. \A i \in 1..Len(Tail(todo[p])) : i + 1 \in 1..Len(todo[p]) /\ Tail(todo[p])[i] = todo[p][i + 1]
  BY <1>1, <1>2, <1>4
<1> QED
  BY <1>3, <1>4, <1>5 DEF ListedRuns

LEMMA PassInit == ASSUME Cleaning!Init PROVE PassInv
<1>1. /\ \A r \in Runs : rows[r] \in {Cleaning!NewRow, Cleaning!ReadyRow}
      /\ rows \in [Runs -> {Cleaning!NewRow, Cleaning!ReadyRow}]
  BY DEF Cleaning!Init
<1>2. /\ Cleaning!NewRow \in MaintainedRows /\ Cleaning!NewRow.terminal = "none"
      /\ Cleaning!ReadyRow \in MaintainedRows /\ Cleaning!ReadyRow.terminal = "none"
  BY DEF Cleaning!NewRow, Cleaning!ReadyRow, MaintainedRows, Cleaning!Statuses, Cleaning!Working
<1>3. \A p \in Passes : todo[p] = <<>> /\ Len(todo[p]) = 0
  BY DEF Cleaning!Init
<1>4. todo \in [Passes -> Seq(ListedRuns)]
  <2>1. <<>> \in Seq(ListedRuns)
    OBVIOUS
  <2> QED
    BY <2>1 DEF Cleaning!Init
<1>5. pass \in [Passes -> {"idle", "list", "next", "confirm"}] /\ \A p \in Passes : pass[p] = "idle"
  BY DEF Cleaning!Init
<1> QED
  BY <1>1, <1>2, <1>3, <1>4, <1>5 DEF PassInv

\* A step of the row of one run that leaves the lists alone or shortens one of them.
Shortens ==
  /\ todo' \in [Passes -> Seq(ListedRuns)]
  /\ \A p \in Passes : \A i \in 1..Len(todo'[p]) : \E j \in 1..Len(todo[p]) : todo'[p][i] = todo[p][j]

LEMMA ListStays == ASSUME PassInv, UNCHANGED todo PROVE Shortens
BY DEF PassInv, Shortens

LEMMA ListEnds ==
  ASSUME PassInv, NEW p \in Passes, todo' = [todo EXCEPT ![p] = <<>>]
  PROVE  Shortens
<1>1. <<>> \in Seq(ListedRuns) /\ Len(<<>>) = 0
  OBVIOUS
<1>2. todo' \in [Passes -> Seq(ListedRuns)] /\ todo'[p] = <<>>
      /\ \A q \in Passes \ {p} : todo'[q] = todo[q]
  BY <1>1 DEF PassInv
<1>3. Len(todo'[p]) = 0
  BY <1>1, <1>2
<1> QED
  BY <1>2, <1>3 DEF Shortens

LEMMA ListShrinks ==
  ASSUME PassInv, NEW p \in Passes, todo[p] # <<>>, todo' = [todo EXCEPT ![p] = Tail(@)]
  PROVE  Shortens
<1>1. /\ todo' \in [Passes -> Seq(ListedRuns)] /\ todo'[p] = Tail(todo[p])
      /\ \A q \in Passes \ {p} : todo'[q] = todo[q]
  BY ListedRun DEF PassInv
<1>2. \A i \in 1..Len(todo'[p]) : \E j \in 1..Len(todo[p]) : todo'[p][i] = todo[p][j]
  BY <1>1, ListedRun
<1> QED
  BY <1>1, <1>2 DEF Shortens

LEMMA Followed ==
  ASSUME PassInv, NEW r \in Runs, NEW new, rows' = [rows EXCEPT ![r] = new], Follows(rows[r], new),
         Shortens, pass' \in [Passes -> {"idle", "list", "next", "confirm"}],
         \A p \in Passes : pass'[p] = "confirm" => todo'[p] # <<>>
  PROVE  PassInv' /\ \A q \in Runs : Follows(rows[q], rows'[q])
<1>1. rows' \in [Runs -> MaintainedRows] /\ rows'[r] = new /\ \A q \in Runs \ {r} : rows'[q] = rows[q]
  BY DEF PassInv, Follows
<1>2. \A q \in Runs : Follows(rows[q], rows'[q])
  BY <1>1 DEF PassInv, Follows
<1>3. ASSUME NEW p \in Passes, NEW i \in 1..Len(todo'[p]), todo'[p][i].status = "expired"
      PROVE  rows'[todo'[p][i].run].status \in {"expired", "removed"}
  <2>1. PICK j \in 1..Len(todo[p]) : todo'[p][i] = todo[p][j]
    BY <1>3 DEF Shortens
  <2>2. todo[p][j] \in ListedRuns
    BY <2>1 DEF PassInv
  <2>3. rows[todo[p][j].run].status \in {"expired", "removed"} /\ todo[p][j].run \in Runs
    BY <1>3, <2>1, <2>2 DEF PassInv, ListedRuns
  <2> QED
    BY <1>2, <2>1, <2>3 DEF Follows
<1>4. todo' \in [Passes -> Seq(ListedRuns)]
  BY DEF Shortens
<1>5. \A q \in Runs : rows'[q].terminal # "none" => rows'[q].status = "cleanup_pending"
  BY <1>2 DEF Follows
<1> QED
  BY <1>1, <1>2, <1>3, <1>4, <1>5 DEF PassInv

\* The same of a step that changes no row.
LEMMA NoRowMoves ==
  ASSUME PassInv, UNCHANGED rows, Shortens, pass' \in [Passes -> {"idle", "list", "next", "confirm"}],
         \A p \in Passes : pass'[p] = "confirm" => todo'[p] # <<>>
  PROVE  PassInv' /\ \A q \in Runs : Follows(rows[q], rows'[q])
<1>1. \A q \in Runs : Follows(rows[q], rows'[q])
  BY DEF PassInv, Follows
<1>2. ASSUME NEW p \in Passes, NEW i \in 1..Len(todo'[p]), todo'[p][i].status = "expired"
      PROVE  rows'[todo'[p][i].run].status \in {"expired", "removed"}
  <2>1. PICK j \in 1..Len(todo[p]) : todo'[p][i] = todo[p][j]
    BY <1>2 DEF Shortens
  <2> QED
    BY <1>2, <2>1 DEF PassInv
<1> QED
  BY <1>1, <1>2 DEF PassInv, Shortens

\* A worker, an owner or time at one run.
LEMMA RowStep ==
  ASSUME PassInv, NEW r \in Runs,
         \/ Cleaning!Heartbeat(r) \/ Cleaning!Publish(r) \/ Cleaning!WorkerFails(r)
         \/ Cleaning!Delete(r) \/ Cleaning!LeaseElapses(r) \/ Cleaning!Ages(r) \/ Cleaning!Rests(r)
  PROVE  PassInv' /\ \A q \in Runs : Follows(rows[q], rows'[q])
<1>1. UNCHANGED <<todo, pass>>
  BY DEF Cleaning!Heartbeat, Cleaning!Publish, Cleaning!WorkerFails, Cleaning!Delete,
     Cleaning!LeaseElapses, Cleaning!Ages, Cleaning!Rests, Cleaning!Outside
<1>2. /\ rows[r] \in MaintainedRows
      /\ rows[r].terminal # "none" => rows[r].status = "cleanup_pending"
  BY DEF PassInv
<1>3. PICK new : rows' = [rows EXCEPT ![r] = new] /\ Follows(rows[r], new)
  <2>1. CASE Cleaning!Heartbeat(r)
    BY <1>2, <2>1 DEF Cleaning!Heartbeat, Cleaning!Rewrite, MaintainedRows, Follows,
       Cleaning!Statuses, Cleaning!Working
  <2>2. CASE Cleaning!Publish(r)
    BY <1>2, <2>2 DEF Cleaning!Publish, Cleaning!Rewrite, MaintainedRows, Follows,
       Cleaning!Statuses, Cleaning!Working
  <2>3. CASE Cleaning!WorkerFails(r)
    BY <1>2, <2>3 DEF Cleaning!WorkerFails, Cleaning!Rewrite, MaintainedRows, Follows,
       Cleaning!Statuses, Cleaning!Working
  <2>4. CASE Cleaning!Delete(r)
    BY <1>2, <2>4 DEF Cleaning!Delete, Cleaning!Rewrite, Cleaning!Revoked, Cleaning!TerminalWinner,
       MaintainedRows, Follows, Cleaning!Statuses
  <2>5. CASE Cleaning!LeaseElapses(r)
    <3>1. rows' = [rows EXCEPT ![r] =
                    [rows[r] EXCEPT !.lease = "elapsed",
                                    !.aged = @ \/ rows[r].status = "cleanup_pending"]]
      BY <2>5 DEF Cleaning!LeaseElapses, PassInv, MaintainedRows
    <3>2. Follows(rows[r], [rows[r] EXCEPT !.lease = "elapsed",
                                !.aged = @ \/ rows[r].status = "cleanup_pending"])
      BY <1>2 DEF MaintainedRows, Follows
    <3> QED
      BY <3>1, <3>2
  <2>6. CASE Cleaning!Ages(r)
    <3>1. rows' = [rows EXCEPT ![r] = [rows[r] EXCEPT !.aged = TRUE]]
      BY <2>6 DEF Cleaning!Ages
    <3>2. Follows(rows[r], [rows[r] EXCEPT !.aged = TRUE])
      BY <1>2 DEF MaintainedRows, Follows
    <3> QED
      BY <3>1, <3>2
  <2>7. CASE Cleaning!Rests(r)
    <3>1. rows' = [rows EXCEPT ![r] = [rows[r] EXCEPT !.rested = TRUE]]
      BY <2>7 DEF Cleaning!Rests
    <3>2. Follows(rows[r], [rows[r] EXCEPT !.rested = TRUE])
      BY <1>2 DEF MaintainedRows, Follows
    <3> QED
      BY <3>1, <3>2
  <2> QED
    BY <2>1, <2>2, <2>3, <2>4, <2>5, <2>6, <2>7
<1> QED
  BY <1>1, <1>3, ListStays, Followed DEF PassInv

LEMMA PassMoves ==
  ASSUME PassInv, NEW p \in Passes, NEW to \in {"idle", "list", "next", "confirm"},
         Cleaning!Goto(p, to),
         to = "confirm" => todo'[p] # <<>>, \A q \in Passes \ {p} : todo'[q] = todo[q]
  PROVE  /\ pass' \in [Passes -> {"idle", "list", "next", "confirm"}]
         /\ \A q \in Passes : pass'[q] = "confirm" => todo'[q] # <<>>
BY DEF PassInv, Cleaning!Goto

\* A pass that stops changes no row.
LEMMA StopStep ==
  ASSUME PassInv, NEW p \in Passes, Cleaning!Stop(p), UNCHANGED rows
  PROVE  PassInv' /\ \A q \in Runs : Follows(rows[q], rows'[q])
<1>1. Shortens /\ \A q \in Passes \ {p} : todo'[q] = todo[q]
  BY ListEnds DEF Cleaning!Stop, PassInv
<1>2. Cleaning!Goto(p, "idle")
  BY DEF Cleaning!Stop
<1> QED
  BY <1>1, <1>2, PassMoves, NoRowMoves

\* A pass goes on to the next run of its list, whatever it made of this one.
LEMMA ItemStep ==
  ASSUME PassInv, NEW p \in Passes, todo[p] # <<>>, Cleaning!NextItem(p), NEW r \in Runs,
         UNCHANGED rows \/ \E new : rows' = [rows EXCEPT ![r] = new] /\ Follows(rows[r], new)
  PROVE  PassInv' /\ \A q \in Runs : Follows(rows[q], rows'[q])
<1>1. Shortens /\ \A q \in Passes \ {p} : todo'[q] = todo[q]
  BY ListShrinks DEF Cleaning!NextItem, PassInv
<1>2. Cleaning!Goto(p, "next")
  BY DEF Cleaning!NextItem
<1> QED
  BY <1>1, <1>2, PassMoves, NoRowMoves, Followed

\* What a pass writes of a run that may end.
LEMMA RowsOfAPass ==
  ASSUME NEW old \in MaintainedRows, old.status \notin {"removed", "expired"},
         old.terminal # "none" => old.status = "cleanup_pending",
         NEW wanted \in {"failed", "expired"}
  PROVE  /\ Follows(old, Cleaning!Revoked(old, wanted))
         /\ Follows(old, [Cleaning!Revoked(old, wanted) EXCEPT !.aged = old.aged])
         /\ Follows(old, Cleaning!Ended(old, Cleaning!TerminalWinner(old.terminal, wanted)))
BY DEF MaintainedRows, Follows, Cleaning!Revoked, Cleaning!Ended, Cleaning!TerminalWinner,
   Cleaning!Statuses

LEMMA WantedEnd ==
  ASSUME NEW item \in ListedRuns
  PROVE  Cleaning!Wanted(item) \in {"failed", "expired"}
BY DEF ListedRuns, Cleaning!Wanted

\* What a pass lists are due runs, as they are.
LEMMA DueRunsListed ==
  ASSUME PassInv, Cleaning!MaintenanceAssumption, NEW s \in Cleaning!Batches,
         NEW listed,
         listed = [i \in DOMAIN s |->
                     [run |-> s[i], status |-> rows[s[i]].status, terminal |-> rows[s[i]].terminal]]
  PROVE  /\ listed \in Seq(ListedRuns)
         /\ \A i \in 1..Len(listed) :
              listed[i].status = "expired" => rows[listed[i].run].status \in {"expired", "removed"}
<1> DEFINE due == Cleaning!Cardinality(Cleaning!DueRuns)
           n == Cleaning!Min({Batch, due})
<1>1. due \in Nat /\ Batch \in Nat
  <2>1. Cleaning!DueRuns \subseteq Runs
    BY DEF Cleaning!DueRuns
  <2>2. IsFiniteSet(Cleaning!DueRuns)
    <3>1. IsFiniteSet(Runs)
      BY DEF Cleaning!MaintenanceAssumption, Cleaning!IsFiniteSet, IsFiniteSet
    <3> QED
      BY <2>1, <3>1, FS_Subset
  <2>3. due = Cardinality(Cleaning!DueRuns)
    BY DEF Cardinality, Cleaning!Cardinality
  <2> QED
    BY <2>2, <2>3, FS_CardinalityType DEF Cleaning!MaintenanceAssumption
<1>2. n \in Nat
  <2>1. \E x \in {Batch, due} : \A y \in {Batch, due} : x <= y
    BY <1>1
  <2>2. n \in {Batch, due}
    BY <2>1 DEF Cleaning!Min
  <2> QED
    BY <1>1, <2>2
<1> HIDE DEF n
<1>3. DOMAIN s = 1..n /\ \A i \in 1..n : s[i] \in Runs
  <2>1. s \in [1..n -> Cleaning!DueRuns]
    BY DEF Cleaning!Batches, n
  <2> QED
    BY <2>1 DEF Cleaning!DueRuns
<1>4. \A i \in 1..n : /\ listed[i].run = s[i] /\ listed[i].status = rows[s[i]].status
                      /\ listed[i] \in ListedRuns
  BY <1>3 DEF PassInv, ListedRuns, MaintainedRows
<1>5. listed \in [1..n -> ListedRuns]
  BY <1>3, <1>4
<1>6. listed \in Seq(ListedRuns) /\ Len(listed) = n
  BY <1>2, <1>5
<1> QED
  BY <1>4, <1>6

LEMMA ListStep ==
  ASSUME PassInv, Cleaning!MaintenanceAssumption, NEW p \in Passes, Cleaning!List(p)
  PROVE  PassInv' /\ \A q \in Runs : Follows(rows[q], rows'[q])
<1>1. PICK s \in Cleaning!Batches :
        todo' = [todo EXCEPT ![p] = [i \in DOMAIN s |->
                   [run |-> s[i], status |-> rows[s[i]].status, terminal |-> rows[s[i]].terminal]]]
  BY DEF Cleaning!List
<1>2. PICK listed :
        listed = [i \in DOMAIN s |->
                    [run |-> s[i], status |-> rows[s[i]].status, terminal |-> rows[s[i]].terminal]]
  OBVIOUS
<1>3. /\ listed \in Seq(ListedRuns)
      /\ \A i \in 1..Len(listed) :
           listed[i].status = "expired" => rows[listed[i].run].status \in {"expired", "removed"}
  BY <1>2, DueRunsListed
<1>4. todo' = [todo EXCEPT ![p] = listed]
  BY <1>1, <1>2
<1>5. /\ todo' \in [Passes -> Seq(ListedRuns)] /\ todo'[p] = listed
      /\ \A q \in Passes \ {p} : todo'[q] = todo[q]
  BY <1>3, <1>4 DEF PassInv
<1>6. UNCHANGED rows /\ Cleaning!Goto(p, "next")
  BY DEF Cleaning!List
<1>7. /\ pass' \in [Passes -> {"idle", "list", "next", "confirm"}]
      /\ \A q \in Passes : pass'[q] = "confirm" => todo'[q] # <<>>
  BY <1>5, <1>6, PassMoves
<1>8. \A q \in Passes : \A i \in 1..Len(todo'[q]) :
        todo'[q][i].status = "expired" => rows'[todo'[q][i].run].status \in {"expired", "removed"}
  BY <1>3, <1>5, <1>6 DEF PassInv
<1>9. \A q \in Runs : Follows(rows[q], rows'[q])
  BY <1>6 DEF PassInv, Follows
<1> QED
  BY <1>5, <1>6, <1>7, <1>8, <1>9 DEF PassInv

LEMMA RemovalStep ==
  ASSUME PassInv, NEW p \in Passes, Cleaning!Remove(p)
  PROVE  PassInv' /\ \A q \in Runs : Follows(rows[q], rows'[q])
<1>1. /\ todo[p] # <<>> /\ Head(todo[p]).status = "expired" /\ Cleaning!NextItem(p)
      /\ rows' = [rows EXCEPT ![Head(todo[p]).run].status = "removed"]
  BY DEF Cleaning!Remove
<1> DEFINE r == Head(todo[p]).run
<1>2. r \in Runs /\ rows[r].status \in {"expired", "removed"}
  BY <1>1, ListedRun DEF PassInv
<1>3. rows' = [rows EXCEPT ![r] = [rows[r] EXCEPT !.status = "removed"]]
  BY <1>1
<1>4. Follows(rows[r], [rows[r] EXCEPT !.status = "removed"])
  <2>1. rows[r] \in MaintainedRows /\ rows[r].terminal = "none"
    BY <1>2 DEF PassInv, MaintainedRows
  <2> HIDE DEF r
  <2> QED
    BY <1>2, <2>1 DEF Follows, MaintainedRows, Cleaning!Statuses
<1> HIDE DEF r
<1> QED
  BY <1>1, <1>2, <1>3, <1>4, ItemStep

LEMMA RevokeStep ==
  ASSUME PassInv, NEW p \in Passes, Cleaning!Revoke(p)
  PROVE  PassInv' /\ \A q \in Runs : Follows(rows[q], rows'[q])
<1> DEFINE r == Head(todo[p]).run
<1>1. todo[p] # <<>> /\ r \in Runs /\ Cleaning!Wanted(Head(todo[p])) \in {"failed", "expired"}
  BY ListedRun, WantedEnd DEF Cleaning!Revoke
<1>2. CASE Cleaning!Stop(p) /\ UNCHANGED rows
  BY <1>2, StopStep
<1>3. CASE Cleaning!NextItem(p) /\ UNCHANGED rows
  BY <1>1, <1>3, ItemStep
<1>4. CASE /\ rows[r].status \notin {"removed", "expired"}
           /\ rows' = [rows EXCEPT ![r] = Cleaning!Revoked(rows[r], Cleaning!Wanted(Head(todo[p])))]
           /\ Cleaning!Goto(p, "confirm") /\ UNCHANGED todo
  <2>1. Follows(rows[r], Cleaning!Revoked(rows[r], Cleaning!Wanted(Head(todo[p]))))
    <3>1. /\ rows[r] \in MaintainedRows
          /\ rows[r].terminal # "none" => rows[r].status = "cleanup_pending"
      BY <1>1 DEF PassInv
    <3> QED
      BY <1>1, <1>4, <3>1, RowsOfAPass
  <2>2. /\ pass' \in [Passes -> {"idle", "list", "next", "confirm"}]
        /\ \A q \in Passes : pass'[q] = "confirm" => todo'[q] # <<>>
    BY <1>1, <1>4, PassMoves
  <2>3. Shortens
    BY <1>4, ListStays
  <2> HIDE DEF r
  <2> QED
    BY <1>1, <1>4, <2>1, <2>2, <2>3, Followed
<1> QED
  BY <1>2, <1>3, <1>4 DEF Cleaning!Revoke

LEMMA ConfirmStep ==
  ASSUME PassInv, NEW p \in Passes, NEW r \in Runs, Cleaning!Confirm(p, r)
  PROVE  PassInv' /\ \A q \in Runs : Follows(rows[q], rows'[q])
<1> DEFINE wanted == Cleaning!Wanted(Head(todo[p]))
           new == Cleaning!Ended(rows[r], Cleaning!TerminalWinner(rows[r].terminal, wanted))
<1>1. todo[p] # <<>> /\ wanted \in {"failed", "expired"}
  BY ListedRun, WantedEnd DEF Cleaning!Confirm, PassInv
<1>2. /\ rows[r].status \notin {"removed", "expired"} /\ Cleaning!NextItem(p)
      /\ rows' = [rows EXCEPT ![r] = new]
  BY DEF Cleaning!Confirm
<1>3. Follows(rows[r], new)
  <2>1. /\ rows[r] \in MaintainedRows
        /\ rows[r].terminal # "none" => rows[r].status = "cleanup_pending"
    BY DEF PassInv
  <2> QED
    BY <1>1, <1>2, <2>1, RowsOfAPass
<1> HIDE DEF new
<1> QED
  BY <1>1, <1>2, <1>3, ItemStep

LEMMA KeepStep ==
  ASSUME PassInv, NEW p \in Passes, Cleaning!Keep(p)
  PROVE  PassInv' /\ \A q \in Runs : Follows(rows[q], rows'[q])
<1> DEFINE r == Head(todo[p]).run
           wanted == Cleaning!Wanted(Head(todo[p]))
           new == [Cleaning!Revoked(rows[r], wanted) EXCEPT !.aged = rows[r].aged]
<1>1. todo[p] # <<>> /\ r \in Runs /\ wanted \in {"failed", "expired"}
  BY ListedRun, WantedEnd DEF Cleaning!Keep, PassInv
<1>2. CASE Cleaning!Stop(p) /\ UNCHANGED rows
  BY <1>2, StopStep
<1>3. CASE Cleaning!NextItem(p) /\ UNCHANGED rows
  BY <1>1, <1>3, ItemStep
<1>4. CASE /\ rows[r].status \notin {"removed", "expired"} /\ Cleaning!NextItem(p)
           /\ rows' = [rows EXCEPT ![r] = new]
  <2>1. /\ rows[r] \in MaintainedRows
        /\ rows[r].terminal # "none" => rows[r].status = "cleanup_pending"
    BY <1>1 DEF PassInv
  <2>2. Follows(rows[r], new)
    BY <1>1, <1>4, <2>1, RowsOfAPass
  <2> HIDE DEF new, r
  <2> QED
    BY <1>1, <1>4, <2>2, ItemStep
<1> QED
  BY <1>2, <1>3, <1>4 DEF Cleaning!Keep

LEMMA PassNext ==
  ASSUME PassInv, Cleaning!MaintenanceAssumption, [Cleaning!Next]_(Cleaning!vars)
  PROVE  PassInv' /\ \A q \in Runs : Follows(rows[q], rows'[q])
<1>1. CASE UNCHANGED Cleaning!vars
  <2>1. UNCHANGED <<rows, todo, pass>>
    BY <1>1 DEF Cleaning!vars
  <2> QED
    BY <2>1, ListStays, NoRowMoves DEF PassInv
<1>2. ASSUME NEW p \in Passes, Cleaning!Begin(p)
      PROVE  PassInv' /\ \A q \in Runs : Follows(rows[q], rows'[q])
  <2>1. Cleaning!Goto(p, "list") /\ UNCHANGED <<rows, todo>>
    BY <1>2 DEF Cleaning!Begin
  <2> QED
    BY <2>1, PassMoves, ListStays, NoRowMoves
<1>3. ASSUME NEW p \in Passes, Cleaning!Finish(p) \/ Cleaning!Abort(p)
      PROVE  PassInv' /\ \A q \in Runs : Follows(rows[q], rows'[q])
  BY <1>3, StopStep DEF Cleaning!Finish, Cleaning!Abort
<1> QED
  BY <1>1, <1>2, <1>3, RowStep, ListStep, RemovalStep, RevokeStep, ConfirmStep, KeepStep
  DEF Cleaning!Next, Cleaning!PassStep

\* A run that is to expire never ends as failed, although passes act on lists that have
\* become stale and want that by what they have listed: for any table of runs, any owners
\* and passes, and whatever is stuck or cut off.
THEOREM ExpiryPrevails ==
  Cleaning!MaintenanceAssumption => (Cleaning!Spec => Cleaning!ExpiryWins)
<1> SUFFICES ASSUME Cleaning!MaintenanceAssumption
             PROVE  Cleaning!Spec => Cleaning!ExpiryWins
  OBVIOUS
<1> DEFINE Step == \A r \in Runs : rows[r].terminal = "expired" =>
                     rows'[r].terminal = "expired" \/ rows'[r].status = "expired"
<1>1. Cleaning!Init => PassInv
  BY PassInit
<1>2. PassInv /\ [Cleaning!Next]_(Cleaning!vars) => PassInv'
  BY PassNext
<1>3. PassInv /\ [Cleaning!Next]_(Cleaning!vars) => [Step]_(Cleaning!vars)
  BY PassNext DEF Follows
<1> HIDE DEF Step
<1>4. Cleaning!Spec => [][Step]_(Cleaning!vars)
  BY <1>1, <1>2, <1>3, PTL DEF Cleaning!Spec
<1> QED
  BY <1>4 DEF Cleaning!ExpiryWins, Step

-----------------------------------------------------------------------------
(* The challenges of a page *)

CONSTANTS Calls, MaxLoads
VARIABLES chain, step, aborted, api, script, availability, widgets, active, loads

Tokens == INSTANCE TokenQueue

TurnSteps == {"waiting", "frame", "challenge"}
CallSteps == {"new", "queued"} \cup TurnSteps \cup Tokens!Outcomes

\* A call has one place in the chain and leaves it with an outcome; only the one whose
\* turn it is gets beyond its place, and the widget and the name shown are its own.
ChainInv ==
  /\ chain \in Seq(Calls) /\ step \in [Calls -> CallSteps]
  /\ \A i, j \in 1..Len(chain) : chain[i] = chain[j] => i = j
  /\ \A i \in 1..Len(chain) : step[chain[i]] \in {"queued"} \cup TurnSteps

TurnInv ==
  /\ \A c \in Calls : step[c] \in TurnSteps => Tokens!Serving(c)
  /\ \A c \in Calls : c \in widgets <=> step[c] = "challenge"
  /\ widgets \subseteq Calls
  /\ \A c \in Calls : step[c] \in {"frame", "challenge"} => active = c
  /\ active # Tokens!Nobody => active \in Calls /\ step[active] \in {"frame", "challenge"}

QueueInv == Tokens!Nobody \notin Calls /\ ChainInv /\ TurnInv

LEMMA QueueInit ==
  ASSUME Tokens!Nobody \notin Calls, Tokens!Init
  PROVE  QueueInv
BY DEF QueueInv, ChainInv, TurnInv, Tokens!Init, Tokens!Serving, TurnSteps, CallSteps, Tokens!Outcomes

\* The call whose turn it is, and what is left when it goes.
LEMMA HeadOfChain ==
  ASSUME QueueInv, NEW c \in Calls, Tokens!Serving(c)
  PROVE  /\ Len(chain) \in Nat \ {0} /\ chain[1] = c
         /\ Tail(chain) \in Seq(Calls) /\ Len(Tail(chain)) = Len(chain) - 1
         /\ \A i \in 1..Len(Tail(chain)) : /\ i + 1 \in 1..Len(chain)
                                           /\ Tail(chain)[i] = chain[i + 1] /\ chain[i + 1] # c
<1>1. chain \in Seq(Calls) /\ chain # <<>> /\ Head(chain) = c
  BY DEF QueueInv, ChainInv, Tokens!Serving
<1>2. Len(chain) \in Nat \ {0} /\ chain[1] = c /\ 1 \in 1..Len(chain)
  BY <1>1
<1>3. Tail(chain) \in Seq(Calls) /\ Len(Tail(chain)) = Len(chain) - 1
  BY <1>1
<1>4. ASSUME NEW i \in 1..Len(Tail(chain))
      PROVE  i + 1 \in 1..Len(chain) /\ Tail(chain)[i] = chain[i + 1] /\ chain[i + 1] # c
  <2>1. i + 1 \in 1..Len(chain) /\ Tail(chain)[i] = chain[i + 1] /\ i + 1 # 1
    BY <1>1, <1>2, <1>3
  <2> QED
    BY <1>2, <2>1 DEF QueueInv, ChainInv
<1> QED
  BY <1>2, <1>3, <1>4

\* The head of the chain leaves it with an outcome; nobody else is affected.
LEMMA ChainSettles ==
  ASSUME QueueInv, NEW c \in Calls, Tokens!Serving(c), NEW outcome \in Tokens!Outcomes,
         Tokens!Settle(c, outcome), widgets' = widgets \ {c},
         active' = Tokens!Nobody \/ (active' = active /\ step[c] \notin {"frame", "challenge"})
  PROVE  QueueInv'
<1>1. chain' = Tail(chain) /\ step' = [step EXCEPT ![c] = outcome]
  BY DEF Tokens!Settle, Tokens!Set
<1>2. /\ step' \in [Calls -> CallSteps] /\ step'[c] = outcome
      /\ outcome \notin {"new", "queued"} \cup TurnSteps
      /\ \A d \in Calls \ {c} : step'[d] = step[d]
  BY <1>1 DEF QueueInv, ChainInv, CallSteps, Tokens!Outcomes, TurnSteps
<1>3. \A d \in Calls \ {c} : step[d] \notin TurnSteps
  BY DEF QueueInv, TurnInv, Tokens!Serving
<1>4. ChainInv'
  <2>1. \A i, j \in 1..Len(chain') : chain'[i] = chain'[j] => i = j
    <3> SUFFICES ASSUME NEW i \in 1..Len(chain'), NEW j \in 1..Len(chain'), chain'[i] = chain'[j]
                 PROVE  i = j
      OBVIOUS
    <3>1. i + 1 \in 1..Len(chain) /\ j + 1 \in 1..Len(chain) /\ chain[i + 1] = chain[j + 1]
      BY <1>1, HeadOfChain
    <3>2. i + 1 = j + 1
      BY <3>1 DEF QueueInv, ChainInv
    <3> QED
      BY <3>2
  <2>2. ASSUME NEW i \in 1..Len(chain') PROVE step'[chain'[i]] \in {"queued"} \cup TurnSteps
    <3>1. i + 1 \in 1..Len(chain) /\ chain'[i] = chain[i + 1] /\ chain[i + 1] # c
      BY <1>1, HeadOfChain
    <3>2. chain[i + 1] \in Calls /\ step[chain[i + 1]] \in {"queued"} \cup TurnSteps
      BY <3>1 DEF QueueInv, ChainInv
    <3> QED
      BY <1>2, <3>1, <3>2
  <2> QED
    BY <1>1, <1>2, <2>1, <2>2, HeadOfChain DEF ChainInv
<1>5. \A d \in Calls : step'[d] \notin TurnSteps
  BY <1>2, <1>3
<1>6. widgets' = {}
  BY <1>3 DEF QueueInv, TurnInv, TurnSteps
<1>7. active' = Tokens!Nobody
  BY <1>3 DEF QueueInv, TurnInv, TurnSteps
<1>8. TurnInv'
  BY <1>5, <1>6, <1>7 DEF TurnInv, TurnSteps, Tokens!Nobody
<1> QED
  BY <1>4, <1>8 DEF QueueInv, Tokens!Nobody

\* The head of the chain goes on, and shows what its new step says.
LEMMA TurnStep ==
  ASSUME QueueInv, NEW c \in Calls, Tokens!Serving(c), NEW to \in TurnSteps,
         step' = [step EXCEPT ![c] = to], UNCHANGED chain,
         widgets' = (IF to = "challenge" THEN widgets \cup {c} ELSE widgets), step[c] # "challenge",
         active' = (IF to = "waiting" THEN active ELSE c),
         to = "waiting" => step[c] \notin {"frame", "challenge"}
  PROVE  QueueInv'
<1>1. /\ step' \in [Calls -> CallSteps] /\ step'[c] = to
      /\ \A d \in Calls \ {c} : step'[d] = step[d]
  BY DEF QueueInv, ChainInv, CallSteps
<1>2. \A d \in Calls \ {c} : step[d] \notin TurnSteps
  BY DEF QueueInv, TurnInv, Tokens!Serving
<1>3. ChainInv'
  <2>1. \A i \in 1..Len(chain) : step'[chain[i]] \in {"queued"} \cup TurnSteps
    BY <1>1 DEF QueueInv, ChainInv
  <2> QED
    BY <1>1, <2>1 DEF QueueInv, ChainInv
<1>4. Tokens!Serving(c)'
  BY DEF Tokens!Serving
<1>5. \A d \in Calls \ {c} : d \notin widgets /\ step'[d] \notin TurnSteps
  BY <1>1, <1>2 DEF QueueInv, TurnInv, TurnSteps
<1>6. c \notin widgets /\ widgets \subseteq Calls
  BY DEF QueueInv, TurnInv
<1>7. to = "waiting" => active = Tokens!Nobody
  BY <1>2 DEF QueueInv, TurnInv, TurnSteps
<1>8. \A d \in Calls : step'[d] \in TurnSteps => Tokens!Serving(d)'
  BY <1>4, <1>5
<1>9. /\ \A d \in Calls : d \in widgets' <=> step'[d] = "challenge"
      /\ widgets' \subseteq Calls
  BY <1>1, <1>5, <1>6 DEF TurnSteps
<1>10. /\ \A d \in Calls : step'[d] \in {"frame", "challenge"} => active' = d
       /\ active' # Tokens!Nobody => active' \in Calls /\ step'[active'] \in {"frame", "challenge"}
  BY <1>1, <1>5, <1>7 DEF TurnSteps
<1> QED
  BY <1>3, <1>8, <1>9, <1>10 DEF QueueInv, TurnInv, Tokens!Nobody

\* Nothing of the chain and of the page changes.
LEMMA QueueStays ==
  ASSUME QueueInv, UNCHANGED <<chain, step, widgets, active>>
  PROVE  QueueInv'
BY DEF QueueInv, ChainInv, TurnInv, Tokens!Serving, Tokens!Nobody

LEMMA JoinStep ==
  ASSUME QueueInv, NEW c \in Calls, Tokens!GetMutationHeaders(c)
  PROVE  QueueInv'
<1>1. /\ step[c] = "new" /\ chain' = Append(chain, c) /\ step' = [step EXCEPT ![c] = "queued"]
      /\ UNCHANGED <<widgets, active>>
  BY DEF Tokens!GetMutationHeaders, Tokens!Set, Tokens!challenge
<1>2. chain \in Seq(Calls) /\ Len(chain) \in Nat
  BY DEF QueueInv, ChainInv
<1>3. /\ chain' \in Seq(Calls) /\ Len(chain') = Len(chain) + 1 /\ chain'[Len(chain) + 1] = c
      /\ \A i \in 1..Len(chain) : chain'[i] = chain[i]
  BY <1>1, <1>2
<1>4. \A i \in 1..Len(chain) : chain[i] # c /\ chain[i] \in Calls
  BY <1>1 DEF QueueInv, ChainInv, TurnSteps
<1>5. /\ step' \in [Calls -> CallSteps] /\ step'[c] = "queued"
      /\ \A d \in Calls \ {c} : step'[d] = step[d]
  BY <1>1 DEF QueueInv, ChainInv, CallSteps
<1>6. \A i \in 1..Len(chain') : i \in 1..Len(chain) \/ i = Len(chain) + 1
  BY <1>2, <1>3
<1>7. \A i, j \in 1..Len(chain') : chain'[i] = chain'[j] => i = j
  BY <1>3, <1>4, <1>6 DEF QueueInv, ChainInv
<1>8. \A i \in 1..Len(chain') : step'[chain'[i]] \in {"queued"} \cup TurnSteps
  BY <1>3, <1>4, <1>5, <1>6 DEF QueueInv, ChainInv
<1>9. \A d \in Calls : Tokens!Serving(d) => Tokens!Serving(d)'
  <2> SUFFICES ASSUME NEW d \in Calls, Tokens!Serving(d) PROVE Tokens!Serving(d)'
    OBVIOUS
  <2>1. Len(chain) # 0 /\ chain[1] = d
    BY HeadOfChain
  <2>2. chain'[1] = d /\ Len(chain') # 0
    BY <1>2, <1>3, <2>1
  <2> QED
    BY <1>3, <2>2 DEF Tokens!Serving
<1>10. TurnInv'
  <2>1. \A d \in Calls : step'[d] \in TurnSteps => step'[d] = step[d]
    BY <1>5 DEF TurnSteps
  <2>2. step[c] \notin TurnSteps
    BY <1>1 DEF TurnSteps
  <2> QED
    BY <1>1, <1>5, <1>9, <2>1, <2>2 DEF QueueInv, TurnInv, TurnSteps, Tokens!Nobody
<1> QED
  BY <1>3, <1>5, <1>7, <1>8, <1>10 DEF QueueInv, ChainInv, Tokens!Nobody

\* A call that is served, and its widget.
LEMMA ServedCall ==
  ASSUME QueueInv, NEW c \in Calls, step[c] \in TurnSteps
  PROVE  Tokens!Serving(c)
BY DEF QueueInv, TurnInv

LEMMA FinishStep ==
  ASSUME QueueInv, NEW c \in Calls, step[c] \in {"frame", "challenge"},
         NEW outcome \in Tokens!Outcomes, Tokens!Finish(c, outcome)
  PROVE  QueueInv'
<1>1. Tokens!Serving(c)
  BY ServedCall DEF TurnSteps
<1> QED
  BY <1>1, ChainSettles DEF Tokens!Finish

\* A call without a widget leaves.
LEMMA CallLeaves ==
  ASSUME QueueInv, NEW c \in Calls, Tokens!Serving(c), step[c] \in {"queued", "waiting"},
         NEW outcome \in Tokens!Outcomes, Tokens!Settle(c, outcome), UNCHANGED <<widgets, active>>
  PROVE  QueueInv'
<1>1. widgets' = widgets \ {c}
  BY DEF QueueInv, TurnInv
<1> QED
  BY <1>1, ChainSettles

LEMMA IssueStep ==
  ASSUME QueueInv, NEW c \in Calls, Tokens!IssueToken(c)
  PROVE  QueueInv'
<1>1. Tokens!Serving(c) /\ step[c] = "queued" /\ UNCHANGED widgets
  BY DEF Tokens!IssueToken
<1>2. CASE Tokens!Settle(c, "aborted") /\ UNCHANGED active
  BY <1>1, <1>2, CallLeaves DEF Tokens!Outcomes
<1>3. CASE Tokens!Settle(c, "unavailable") /\ UNCHANGED active
  BY <1>1, <1>3, CallLeaves DEF Tokens!Outcomes
<1>4. CASE Tokens!Set(c, "frame") /\ active' = c /\ UNCHANGED chain
  BY <1>1, <1>4, TurnStep DEF Tokens!Set, TurnSteps
<1>5. CASE Tokens!Set(c, "waiting") /\ UNCHANGED <<chain, active>>
  BY <1>1, <1>5, TurnStep DEF Tokens!Set, TurnSteps
<1> QED
  BY <1>2, <1>3, <1>4, <1>5 DEF Tokens!IssueToken

\* The one call that waits for the script hears of it.
LEMMA WaiterIsServed ==
  ASSUME QueueInv, Tokens!Waiting # {}
  PROVE  /\ Head(chain) \in Calls /\ Tokens!Serving(Head(chain)) /\ step[Head(chain)] = "waiting"
         /\ Tokens!Waiting = {Head(chain)}
BY DEF QueueInv, TurnInv, Tokens!Waiting, Tokens!Serving, TurnSteps

LEMMA ScriptStep ==
  ASSUME QueueInv, Tokens!ScriptLoads \/ Tokens!ScriptFails
  PROVE  QueueInv'
<1>1. CASE Tokens!Waiting = {}
  <2>1. UNCHANGED <<chain, widgets, active>>
    BY <1>1 DEF Tokens!ScriptLoads, Tokens!ScriptFails, Tokens!challenge
  <2>2. UNCHANGED step
    BY <1>1 DEF Tokens!ScriptLoads, Tokens!ScriptFails, QueueInv, ChainInv
  <2> QED
    BY <2>1, <2>2, QueueStays
<1>2. CASE Tokens!Waiting # {} /\ Tokens!ScriptLoads
  <2> DEFINE c == Head(chain)
  <2>1. c \in Calls /\ Tokens!Serving(c) /\ step[c] = "waiting" /\ Tokens!Waiting = {c}
    BY <1>2, WaiterIsServed
  <2>2. step' = [step EXCEPT ![c] = "frame"]
    BY <1>2, <2>1 DEF Tokens!ScriptLoads, QueueInv, ChainInv
  <2>3. UNCHANGED <<chain, widgets>> /\ active' = c
    BY <1>2 DEF Tokens!ScriptLoads
  <2> HIDE DEF c
  <2> QED
    BY <2>1, <2>2, <2>3, TurnStep DEF TurnSteps
<1>3. CASE Tokens!Waiting # {} /\ Tokens!ScriptFails
  <2> DEFINE c == Head(chain)
  <2>1. c \in Calls /\ Tokens!Serving(c) /\ step[c] = "waiting"
    BY <1>3, WaiterIsServed
  <2>2. Tokens!Settle(c, "unavailable") /\ UNCHANGED <<widgets, active>>
    BY <1>3 DEF Tokens!ScriptFails, Tokens!challenge
  <2> HIDE DEF c
  <2> QED
    BY <2>1, <2>2, CallLeaves DEF Tokens!Outcomes
<1> QED
  BY <1>1, <1>2, <1>3

LEMMA AbortStep ==
  ASSUME QueueInv, NEW c \in Calls, Tokens!Abort(c)
  PROVE  QueueInv'
<1>1. step[c] \in CallSteps /\ step[c] \notin {"new"} \cup Tokens!Outcomes
  BY DEF Tokens!Abort, QueueInv, ChainInv
<1>2. CASE step[c] = "queued"
  BY <1>2, QueueStays DEF Tokens!Abort, Tokens!challenge
<1>3. CASE step[c] = "waiting"
  <2>1. Tokens!Settle(c, "aborted") /\ UNCHANGED <<widgets, active>>
    BY <1>3 DEF Tokens!Abort, Tokens!challenge
  <2> QED
    BY <1>3, <2>1, ServedCall, CallLeaves DEF Tokens!Outcomes, TurnSteps
<1>4. CASE step[c] \in {"frame", "challenge"}
  <2>1. Tokens!Finish(c, "aborted")
    BY <1>4 DEF Tokens!Abort
  <2> QED
    BY <1>4, <2>1, FinishStep DEF Tokens!Outcomes
<1> QED
  BY <1>1, <1>2, <1>3, <1>4 DEF CallSteps, TurnSteps

LEMMA QueueNext ==
  ASSUME QueueInv, [Tokens!Next]_(Tokens!vars)
  PROVE  QueueInv'
<1>1. CASE UNCHANGED Tokens!vars \/ Tokens!ScriptIsLate \/ Tokens!RetryScript
  BY <1>1, QueueStays DEF Tokens!vars, Tokens!ScriptIsLate, Tokens!RetryScript, Tokens!challenge
<1>2. ASSUME NEW c \in Calls, Tokens!WaitTimesOut(c) PROVE QueueInv'
  <2>1. step[c] = "waiting" /\ Tokens!Settle(c, "timeout") /\ UNCHANGED <<widgets, active>>
    BY <1>2 DEF Tokens!WaitTimesOut, Tokens!challenge
  <2> QED
    BY <2>1, ServedCall, CallLeaves DEF Tokens!Outcomes, TurnSteps
<1>3. ASSUME NEW c \in Calls, Tokens!Render(c) PROVE QueueInv'
  <2>1. step[c] = "frame" /\ Tokens!Serving(c)
    BY <1>3, ServedCall DEF Tokens!Render, TurnSteps
  <2>2. CASE Tokens!Set(c, "challenge") /\ widgets' = widgets \cup {c} /\ UNCHANGED <<chain, active>>
    <3>1. active' = c
      BY <2>1, <2>2 DEF QueueInv, TurnInv
    <3> QED
      BY <2>1, <2>2, <3>1, TurnStep DEF Tokens!Set, TurnSteps
  <2>3. CASE Tokens!Finish(c, "refused")
    BY <2>1, <2>3, FinishStep DEF Tokens!Outcomes
  <2> QED
    BY <1>3, <2>2, <2>3 DEF Tokens!Render
<1>4. ASSUME NEW c \in Calls, Tokens!Answer(c) \/ Tokens!ChallengeTimesOut(c) PROVE QueueInv'
  <2>1. step[c] = "challenge"
        /\ \E outcome \in {"token", "refused", "timeout"} : Tokens!Finish(c, outcome)
    BY <1>4 DEF Tokens!Answer, Tokens!ChallengeTimesOut
  <2> QED
    BY <2>1, FinishStep DEF Tokens!Outcomes
<1> QED
  BY <1>1, <1>2, <1>3, <1>4, JoinStep, IssueStep, ScriptStep, AbortStep
  DEF Tokens!Next, Tokens!Browser

\* However many calls ask for a token, are aborted or time out, there is one challenge at
\* a time, of the call whose turn it is, and the page names that call: the safety of
\* EveryCallIsAnswered.
THEOREM ChallengesTakeTurns ==
  Tokens!TokenQueueAssumption => (Tokens!Spec => []Tokens!OneChallenge)
<1> SUFFICES ASSUME Tokens!TokenQueueAssumption
             PROVE  Tokens!Spec => []Tokens!OneChallenge
  OBVIOUS
<1>1. Tokens!Init => QueueInv
  BY QueueInit DEF Tokens!TokenQueueAssumption, Tokens!Nobody
<1>2. QueueInv /\ [Tokens!Next]_(Tokens!vars) => QueueInv'
  BY QueueNext
<1>3. QueueInv => Tokens!OneChallenge
  BY DEF QueueInv, TurnInv, Tokens!OneChallenge, TurnSteps
<1> QED
  BY <1>1, <1>2, <1>3, PTL DEF Tokens!Spec
=============================================================================
