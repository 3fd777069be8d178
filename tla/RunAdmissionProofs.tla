------------------------- MODULE RunAdmissionProofs -------------------------
(***************************************************************************)
(* Safety of RunAdmission for every set of callers, every length of the    *)
(* clocks and any number of faults.  The invariant is a conjunction of     *)
(* named parts; each part is preserved by every action of Next.            *)
(***************************************************************************)
EXTENDS RunAdmission, TLAPS

\* A caller is about to contact Workflow, or Workflow was contacted.
Contacting(c) == pc[c] = "start"
Contacted == starts > 0 \/ \E c \in Caller : Contacting(c)

\* The dispatch was claimed or used.
Dispatched == claim # Nobody \/ Contacted

\* At most one caller gets to contact Workflow, and only before it was contacted;
\* a queued row that was dispatched carries the claim.
StartInv ==
  /\ starts <= 1
  /\ \A c, d \in Caller : Contacting(c) /\ Contacting(d) => c = d
  /\ (\E c \in Caller : Contacting(c)) => starts = 0
  /\ Contacted /\ status = "queued" => claim # Nobody

\* While a caller in preflight holds the lease nobody has claimed the dispatch,
\* and what it has prepared so far is in place.
PreflightInv ==
  \A c \in Caller : lease = c /\ status = "queued" =>
    /\ pc[c] \in PreflightSteps => claim = Nobody
    /\ pc[c] \in {"claimIncoming", "reserve", "claimDispatch"} => ceiling = "full"
    /\ pc[c] \in {"reserve", "claimDispatch"} => grant \in {"claimed", "swept"}
    /\ pc[c] = "claimDispatch" => budget \in {"held", "charged"}

\* A caller in cleanup has withdrawn the run; one that will give the reservation
\* back knows that it was never dispatched.
CleanupInv ==
  \A c \in Caller :
    /\ pc[c] \in CleanupSteps \ {"revoke"} => status \in WithdrawnStatuses \cup {"removed"}
    /\ pc[c] \in {"settleZero", "remove"} => c \in releasing
    /\ pc[c] \in CleanupSteps /\ c \in releasing => status # "queued" /\ ~Dispatched
    /\ pc[c] \in {"confirm", "settleZero", "remove"} /\ c \in purged => grant \in {"fenced", "swept"}
    /\ pc[c] = "remove" => c \in purged
    /\ pc[c] = "purge" => c \notin purged

\* What the row and the reservation say about each other.
RowInv ==
  /\ Dispatched /\ status # "removed" => budget \in {"held", "charged"}
  /\ budget = "released" => status # "queued"
  /\ status = "expired" => grant \in {"fenced", "swept"} /\ claim = Nobody
  /\ status \in {"queued", "validating"} => grant # "fenced"
  /\ (status = "queued" /\ Dispatched) \/ status = "validating"
       => grant \in {"claimed", "swept"} /\ ceiling = "full"
  /\ status \in {"queued", "validating", "ready", "removed"} \cup WithdrawnStatuses

IInv == TypeOK /\ StartInv /\ PreflightInv /\ CleanupInv /\ RowInv

-----------------------------------------------------------------------------
(* Types *)

LEMMA InitType == Init => TypeOK
<1> SUFFICES ASSUME Init PROVE TypeOK
  OBVIOUS
<1>1. due \in BOOLEAN /\ paid \in BOOLEAN
  BY Zenon DEF Init
<1>2. pc \in [Caller -> Steps] /\ goal \in [Caller -> {"failed", "expired"}]
      /\ seen \in [Caller -> Caller \cup {Nobody}]
  BY DEF Init, Steps
<1> QED
  BY <1>1, <1>2, CallersAssumption, TicksAssumption
     DEF Init, TypeOK, RunTypeOK, Caller, RunStatuses

LEMMA NextType == TypeOK /\ [Next]_vars => TypeOK'
<1> SUFFICES ASSUME TypeOK, [Next]_vars PROVE TypeOK'
  OBVIOUS
<1> USE CallersAssumption, TicksAssumption
    DEF TypeOK, RunTypeOK, Steps, PreflightSteps, CleanupSteps, RunStatuses, LeasedStatuses,
        ReleasedStatuses, WithdrawnStatuses, Goto, Rest, NoFault, Fault, Acknowledged,
        KeepDispatch, KeepWork, KeepRest, runVars, localVars
<1>1. ASSUME NEW c \in Caller, Crash(c) PROVE TypeOK'
  BY <1>1 DEF Crash
<1>2. ASSUME NEW c \in Caller, Replay(c) PROVE TypeOK'
  BY <1>2 DEF Replay
<1>3. ASSUME NEW c \in Caller, Delete(c) PROVE TypeOK'
  BY <1>3 DEF Delete
<1>4. ASSUME NEW c \in Caller, Recover(c) PROVE TypeOK'
  BY <1>4 DEF Recover
<1>5. ASSUME NEW c \in Caller, ExpireDue(c) PROVE TypeOK'
  BY <1>5 DEF ExpireDue
<1>6. ASSUME NEW c \in Caller, ForgetExpired(c) PROVE TypeOK'
  BY <1>6 DEF ForgetExpired
<1>7. ASSUME NEW c \in Caller, RetryCleanup(c) PROVE TypeOK'
  BY <1>7 DEF RetryCleanup
<1>8. ASSUME NEW c \in Caller, ClaimAdmission(c) PROVE TypeOK'
  BY <1>8 DEF ClaimAdmission
<1>9. ASSUME NEW c \in Caller, RaiseReservation(c) PROVE TypeOK'
  BY <1>9 DEF RaiseReservation
<1>10. ASSUME NEW c \in Caller, ClaimIncoming(c) PROVE TypeOK'
  BY <1>10 DEF ClaimIncoming
<1>11. ASSUME NEW c \in Caller, Reserve(c) PROVE TypeOK'
  BY <1>11 DEF Reserve
<1>12. ASSUME NEW c \in Caller, ClaimDispatch(c) PROVE TypeOK'
  BY <1>12 DEF ClaimDispatch
<1>13. ASSUME NEW c \in Caller, Start(c) PROVE TypeOK'
  BY <1>13 DEF Start
<1>14. ASSUME NEW c \in Caller, Settle(c) PROVE TypeOK'
  BY <1>14 DEF Settle, SettleDispatch
<1>15. ASSUME NEW c \in Caller, SettleUncertain(c) PROVE TypeOK'
  BY <1>15 DEF SettleUncertain, SettleDispatch
<1>16. ASSUME NEW c \in Caller, FailAdmission(c) PROVE TypeOK'
  BY <1>16 DEF FailAdmission
<1>17. ASSUME NEW c \in Caller, FailStranded(c) PROVE TypeOK'
  BY <1>17 DEF FailStranded
<1>18. ASSUME NEW c \in Caller, Revoke(c) PROVE TypeOK'
  BY <1>18 DEF Revoke, TerminalWinner
<1>19. ASSUME NEW c \in Caller, Purge(c) PROVE TypeOK'
  BY <1>19 DEF Purge
<1>20. ASSUME NEW c \in Caller, Confirm(c) PROVE TypeOK'
  BY <1>20 DEF Confirm, TerminalWinner
<1>21. ASSUME NEW c \in Caller, SettleZero(c) PROVE TypeOK'
  BY <1>21 DEF SettleZero
<1>22. ASSUME NEW c \in Caller, Remove(c) PROVE TypeOK'
  BY <1>22 DEF Remove
<1>23. ASSUME WorkerClaim PROVE TypeOK'
  BY <1>23 DEF WorkerClaim
<1>24. ASSUME WorkerPays PROVE TypeOK'
  BY <1>24 DEF WorkerPays
<1>25. ASSUME WorkerSettles PROVE TypeOK'
  BY <1>25 DEF WorkerSettles
<1>26. ASSUME WorkerEnds PROVE TypeOK'
  <2>1. PICK outcome \in {"ready", "failed", "cleanup_pending"} : status' = outcome
    BY <1>26, Zenon DEF WorkerEnds
  <2>2. grant' \in {"uploaded", "unusable", "claimed", "fenced", "swept"}
        /\ afterCleanup' \in {"none", "failed", "expired"}
    BY <1>26 DEF WorkerEnds
  <2> QED
    BY <1>26, <2>1, <2>2 DEF WorkerEnds
<1>27. ASSUME LeaseElapses PROVE TypeOK'
  BY <1>27 DEF LeaseElapses
<1>28. ASSUME BecomesDue PROVE TypeOK'
  BY <1>28 DEF BecomesDue
<1>29. ASSUME Tick PROVE TypeOK'
  BY <1>29 DEF Tick
<1>31. ASSUME SweepGrant PROVE TypeOK'
  BY <1>31 DEF SweepGrant
<1>30. CASE UNCHANGED vars
  BY <1>30 DEF vars
<1> QED
  BY <1>1, <1>2, <1>3, <1>4, <1>5, <1>6, <1>7, <1>8, <1>9, <1>10, <1>11, <1>12, <1>13, <1>14, <1>15, <1>16, <1>17, <1>18, <1>19, <1>20, <1>21, <1>22, <1>23, <1>24, <1>25, <1>26, <1>27, <1>28, <1>29, <1>30, <1>31
     DEF Next, CallerStep, Entry, Admit, Reject, Worker, Time

-----------------------------------------------------------------------------
(* The invariant *)

LEMMA InitInv == Init => IInv
<1> SUFFICES ASSUME Init PROVE IInv
  OBVIOUS
<1>1. TypeOK
  BY InitType
<1>2. \A c \in Caller : pc[c] \in {"claimAdmission", "idle"}
  BY DEF Init
<1> QED
  BY <1>1, <1>2, CallersAssumption
     DEF Init, IInv, StartInv, PreflightInv, CleanupInv, RowInv, Dispatched, Contacted,
         Contacting, PreflightSteps, CleanupSteps, WithdrawnStatuses

LEMMA NextInv == IInv /\ [Next]_vars => IInv'
<1> SUFFICES ASSUME IInv, [Next]_vars PROVE IInv'
  OBVIOUS
<1>0. TypeOK /\ TypeOK'
  BY NextType DEF IInv
<1> USE <1>0, CallersAssumption
    DEF IInv, TypeOK, RunTypeOK, Steps, PreflightSteps, CleanupSteps, WithdrawnStatuses,
        StartInv, PreflightInv, CleanupInv, RowInv, Dispatched, Contacted, Contacting,
        Goto, Rest, NoFault, Fault, Acknowledged,
        KeepDispatch, KeepWork, KeepRest, runVars, localVars
<1>1. ASSUME NEW c \in Caller, Crash(c) PROVE IInv'
  BY <1>1 DEF Crash
<1>2. ASSUME NEW c \in Caller, Replay(c) PROVE IInv'
  BY <1>2 DEF Replay
<1>3. ASSUME NEW c \in Caller, Delete(c) PROVE IInv'
  BY <1>3 DEF Delete
<1>4. ASSUME NEW c \in Caller, Recover(c) PROVE IInv'
  BY <1>4 DEF Recover
<1>5. ASSUME NEW c \in Caller, ExpireDue(c) PROVE IInv'
  BY <1>5 DEF ExpireDue
<1>6. ASSUME NEW c \in Caller, ForgetExpired(c) PROVE IInv'
  BY <1>6 DEF ForgetExpired
<1>7. ASSUME NEW c \in Caller, RetryCleanup(c) PROVE IInv'
  BY <1>7 DEF RetryCleanup
<1>8. ASSUME NEW c \in Caller, ClaimAdmission(c) PROVE IInv'
  BY <1>8 DEF ClaimAdmission
<1>9. ASSUME NEW c \in Caller, RaiseReservation(c) PROVE IInv'
  BY <1>9 DEF RaiseReservation
<1>10. ASSUME NEW c \in Caller, ClaimIncoming(c) PROVE IInv'
  BY <1>10 DEF ClaimIncoming
<1>11. ASSUME NEW c \in Caller, Reserve(c) PROVE IInv'
  BY <1>11 DEF Reserve
<1>12. ASSUME NEW c \in Caller, ClaimDispatch(c) PROVE IInv'
  BY <1>12 DEF ClaimDispatch
<1>13. ASSUME NEW c \in Caller, Start(c) PROVE IInv'
  BY <1>13 DEF Start
<1>14. ASSUME NEW c \in Caller, Settle(c) PROVE IInv'
  BY <1>14 DEF Settle, SettleDispatch
<1>15. ASSUME NEW c \in Caller, SettleUncertain(c) PROVE IInv'
  BY <1>15 DEF SettleUncertain, SettleDispatch
<1>16. ASSUME NEW c \in Caller, FailAdmission(c) PROVE IInv'
  BY <1>16 DEF FailAdmission
<1>17. ASSUME NEW c \in Caller, FailStranded(c) PROVE IInv'
  BY <1>17 DEF FailStranded
<1>18. ASSUME NEW c \in Caller, Revoke(c) PROVE IInv'
  BY <1>18 DEF Revoke, TerminalWinner
<1>19. ASSUME NEW c \in Caller, Purge(c) PROVE IInv'
  BY <1>19 DEF Purge
<1>20. ASSUME NEW c \in Caller, Confirm(c) PROVE IInv'
  BY <1>20 DEF Confirm, TerminalWinner
<1>21. ASSUME NEW c \in Caller, SettleZero(c) PROVE IInv'
  BY <1>21 DEF SettleZero
<1>22. ASSUME NEW c \in Caller, Remove(c) PROVE IInv'
  BY <1>22 DEF Remove
<1>23. ASSUME WorkerClaim PROVE IInv'
  BY <1>23 DEF WorkerClaim
<1>24. ASSUME WorkerPays PROVE IInv'
  BY <1>24 DEF WorkerPays
<1>25. ASSUME WorkerSettles PROVE IInv'
  BY <1>25 DEF WorkerSettles
<1>26. ASSUME WorkerEnds PROVE IInv'
  BY <1>26 DEF WorkerEnds
<1>27. ASSUME LeaseElapses PROVE IInv'
  BY <1>27 DEF LeaseElapses
<1>28. ASSUME BecomesDue PROVE IInv'
  BY <1>28 DEF BecomesDue
<1>29. ASSUME Tick PROVE IInv'
  BY <1>29 DEF Tick
<1>31. ASSUME SweepGrant PROVE IInv'
  BY <1>31 DEF SweepGrant
<1>30. CASE UNCHANGED vars
  BY <1>30 DEF vars
<1> QED
  BY <1>1, <1>2, <1>3, <1>4, <1>5, <1>6, <1>7, <1>8, <1>9, <1>10, <1>11, <1>12, <1>13, <1>14, <1>15, <1>16, <1>17, <1>18, <1>19, <1>20, <1>21, <1>22, <1>23, <1>24, <1>25, <1>26, <1>27, <1>28, <1>29, <1>30, <1>31
     DEF Next, CallerStep, Entry, Admit, Reject, Worker, Time

-----------------------------------------------------------------------------
(* Theorems *)

\* Every variable keeps its type.
THEOREM TypeCorrect == Spec => []TypeOK
<1>1. Init => TypeOK
  BY InitType
<1>2. TypeOK /\ [Next]_vars => TypeOK'
  BY NextType
<1> QED
  BY <1>1, <1>2, PTL DEF Spec

\* The strengthened invariant is inductive.
THEOREM Inductive == Spec => []IInv
<1>1. Init => IInv
  BY InitInv
<1>2. IInv /\ [Next]_vars => IInv'
  BY NextInv
<1> QED
  BY <1>1, <1>2, PTL DEF Spec

\* However many callers admit, replay, recover and crash, the analysis Workflow
\* is accepted at most once for a run.
THEOREM StartedOnce == Spec => []AtMostOneStart
<1>1. IInv => AtMostOneStart
  BY DEF IInv, StartInv, AtMostOneStart
<1> QED
  BY <1>1, Inductive, PTL

\* A reservation is never given back once the dispatch was claimed.
THEOREM ReservationKept == Spec => []DispatchKeepsReservation
<1>1. IInv => DispatchKeepsReservation
  BY DEF IInv, RowInv, Dispatched, Contacted, DispatchKeepsReservation
<1> QED
  BY <1>1, Inductive, PTL

\* A run is analysed only with its upload claimed and its ceiling recorded.
THEOREM Prepared == Spec => []AnalysisIsPrepared
<1>1. IInv => AnalysisIsPrepared
  BY DEF IInv, RowInv, Dispatched, Contacted, AnalysisIsPrepared
<1> QED
  BY <1>1, Inductive, PTL

\* No step takes a withdrawn run back.
THEOREM WithdrawalFinal == Spec => WithdrawnStaysWithdrawn
<1>1. IInv /\ [Next]_vars
        => (status \in WithdrawnStatuses => status' \in WithdrawnStatuses \cup {"removed"})
  <2> SUFFICES ASSUME IInv, [Next]_vars, status \in WithdrawnStatuses
               PROVE  status' \in WithdrawnStatuses \cup {"removed"}
    OBVIOUS
  <2> USE DEF IInv, TypeOK, RunTypeOK, WithdrawnStatuses
  <2>1. ASSUME NEW c \in Caller, CallerStep(c) \/ Crash(c)
        PROVE  status' \in WithdrawnStatuses \cup {"removed"}
    <3>1. CASE Crash(c) \/ Entry(c)
      BY <3>1 DEF Crash, Entry, Replay, Delete, Recover, ExpireDue, ForgetExpired,
                  RetryCleanup, runVars
    <3>2. CASE Admit(c)
      BY <3>2 DEF Admit, ClaimAdmission, RaiseReservation, ClaimIncoming, Reserve,
                  ClaimDispatch, Start, Settle, SettleUncertain, runVars
    <3>3. CASE Reject(c)
      BY <3>3 DEF Reject, FailAdmission, FailStranded, Revoke, Purge, Confirm, SettleZero,
                  Remove, runVars, TerminalWinner
    <3> QED
      BY <2>1, <3>1, <3>2, <3>3 DEF CallerStep
  <2>2. CASE Worker
    BY <2>2 DEF Worker, WorkerClaim, WorkerPays, WorkerSettles, WorkerEnds, runVars
  <2>3. CASE Time \/ UNCHANGED vars
    BY <2>3 DEF Time, LeaseElapses, SweepGrant, BecomesDue, Tick, vars, runVars
  <2> QED
    BY <2>1, <2>2, <2>3 DEF Next
<1> QED
  BY <1>1, Inductive, PTL DEF Spec, WithdrawnStaysWithdrawn

\* A row disappears only with its upload purged and, unless it expired, never
\* dispatched.
THEOREM RemovalClean == Spec => RemovalLeavesNothing
<1>1. IInv /\ [Next]_vars
        => ((status' = "removed" /\ status # "removed")
              => (grant \in {"fenced", "swept"} /\ claim = Nobody /\ (status # "expired" => starts = 0)))
  <2> SUFFICES ASSUME IInv, [Next]_vars, status' = "removed", status # "removed"
               PROVE  grant \in {"fenced", "swept"} /\ claim = Nobody /\ (status # "expired" => starts = 0)
    OBVIOUS
  <2> USE DEF IInv, TypeOK, RunTypeOK, WithdrawnStatuses
  <2>1. ASSUME NEW c \in Caller, CallerStep(c) \/ Crash(c)
        PROVE  ForgetExpired(c) \/ Remove(c)
    <3>1. CASE Crash(c) \/ Entry(c)
      BY <3>1 DEF Crash, Entry, Replay, Delete, Recover, ExpireDue, RetryCleanup, runVars
    <3>2. CASE Admit(c)
      BY <3>2 DEF Admit, ClaimAdmission, RaiseReservation, ClaimIncoming, Reserve,
                  ClaimDispatch, Start, Settle, SettleUncertain, runVars
    <3>3. CASE Reject(c)
      BY <3>3 DEF Reject, FailAdmission, FailStranded, Revoke, Purge, Confirm, SettleZero,
                  runVars, TerminalWinner
    <3> QED
      BY <2>1, <3>1, <3>2, <3>3 DEF CallerStep
  <2>2. ASSUME Worker PROVE FALSE
    <3>1. status' \in {"validating", "ready", "failed", "cleanup_pending"} \/ status' = status
      BY <2>2 DEF Worker, WorkerClaim, WorkerPays, WorkerSettles, WorkerEnds, runVars
    <3> QED
      BY <3>1
  <2>3. ASSUME Time \/ UNCHANGED vars PROVE FALSE
    BY <2>3 DEF Time, LeaseElapses, SweepGrant, BecomesDue, Tick, vars, runVars
  <2>4. PICK c \in Caller : ForgetExpired(c) \/ Remove(c)
    BY <2>1, <2>2, <2>3 DEF Next
  <2>5. CASE ForgetExpired(c)
    BY <2>5 DEF ForgetExpired, RowInv
  <2>6. CASE Remove(c)
    BY <2>6 DEF Remove, CleanupInv, CleanupSteps, Dispatched, Contacted
  <2> QED
    BY <2>4, <2>5, <2>6
<1> QED
  BY <1>1, Inductive, PTL DEF Spec, RemovalLeavesNothing
=============================================================================
