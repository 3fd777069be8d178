---------------------------- MODULE RunAdmission ----------------------------
(***************************************************************************)
(* Admission of one run: src/lib/runs/create.ts with the store operations  *)
(* it calls (src/db/neon-store.ts), the budget guard, the dispatch of the  *)
(* analysis Workflow and the recovery pass of the maintenance route.       *)
(*                                                                         *)
(* Callers run concurrently.  An API caller serves one POST /runs (the     *)
(* Creator inserted the row, the others replay its idempotency key) or one *)
(* DELETE; a Cron caller is one maintenance process, which runs its pass   *)
(* over and over.  A cleanup-retry Workflow takes an API caller's place.   *)
(* Each store call is one atomic step; between two of them every other     *)
(* caller, the Workflow and the clock may move.  A fault is a crash, a     *)
(* refused call, or a commit whose acknowledgement is lost.                *)
(*                                                                         *)
(* Clock fields are kept as the time left or elapsed, in minutes: the      *)
(* admission lease is 2, the recovery delay and the dispatch grace are 1,  *)
(* the cleanup cadence is 5.                                               *)
(***************************************************************************)
EXTENDS RunStatus, Naturals

CONSTANTS
  Api,         \* API requests, each served once
  Cron,        \* maintenance processes
  Creator,     \* the API request whose store.create inserted the row
  Nobody,
  LeaseTicks,  \* ADMISSION_LEASE_MS
  DelayTicks,  \* ADMISSION_RECOVERY_DELAY_MS
  GraceTicks,  \* ANALYSIS_DISPATCH_RECOVERY_GRACE_MS
  CadenceTicks, \* CLEANUP_PENDING_MAINTENANCE_CADENCE_MS
  MaxFaults,   \* bound on crashes, refusals and lost acknowledgements
  LocalMode    \* TRUE: scheduleRun queues processRun in this process

Caller == Api \cup Cron

ASSUME CallersAssumption ==
  /\ Creator \in Api
  /\ Api \cap Cron = {}
  /\ Nobody \notin Caller
ASSUME TicksAssumption ==
  /\ LeaseTicks \in Nat \ {0}
  /\ DelayTicks \in Nat
  /\ GraceTicks \in Nat
  /\ CadenceTicks \in Nat
  /\ DelayTicks <= CadenceTicks
  /\ MaxFaults \in Nat
  /\ LocalMode \in BOOLEAN

VARIABLES
  (* the run row *)
  status,        \* RunStatus, or "removed" once the row is deleted
  key,           \* idempotencyKey: "set" or "none"
  lease,         \* admissionLeaseId: the caller that holds it
  leaseLeft,     \* time until admissionLeaseExpiresAt
  claim,         \* analysisDispatchClaimId: the caller that took it
  claimAge,      \* time since analysisDispatchClaimedAt
  dispatch,      \* analysisDispatchStatus; workflowRunId is set iff "scheduled"
  quiet,         \* time since updatedAt
  due,           \* expiresAt has passed
  ceiling,       \* reservedMicroUsd: "old" until raised to the configured "full"
  afterCleanup,  \* terminalAfterCleanup
  paid,          \* paidProviderAttemptStartedAt is set
  worker,        \* the processing lease: "never" claimed, "live", or "gone"
  (* around the row *)
  budget,        \* the reservation: none, held, released (settled 0), charged
  grant,         \* the upload: uploaded, unusable, claimed, fenced (purged), swept
  starts,        \* analysis Workflows accepted so far
  (* the callers *)
  pc,
  goal,          \* the terminal status a cleanup was called with
  releasing,     \* the callers whose cleanup ends in a zero-cost settlement
  purged,        \* the callers whose purge was confirmed, then: may remove the row
  seen,          \* the dispatch claim a recovery pass listed
  faults

runVars == <<status, key, lease, leaseLeft, claim, claimAge, dispatch, quiet, due,
             ceiling, afterCleanup, paid, worker>>
localVars == <<goal, releasing, purged, seen>>
vars == <<runVars, budget, grant, starts, pc, localVars, faults>>

PreflightSteps == {"raise", "claimIncoming", "reserve", "claimDispatch", "failAdmission"}
CleanupSteps == {"revoke", "purge", "confirm", "settleZero", "remove"}
Steps == {"idle", "claimAdmission", "start", "settle", "settleUncertain",
          "failStranded", "done"} \cup PreflightSteps \cup CleanupSteps

RunTypeOK ==
  /\ status \in RunStatuses \cup {"removed"}
  /\ key \in {"set", "none"}
  /\ lease \in Caller \cup {Nobody}
  /\ leaseLeft \in 0..LeaseTicks
  /\ claim \in Caller \cup {Nobody}
  /\ claimAge \in 0..GraceTicks
  /\ dispatch \in {"none", "dispatching", "scheduled", "not_dispatched", "dispatch_uncertain"}
  /\ quiet \in 0..CadenceTicks
  /\ due \in BOOLEAN
  /\ ceiling \in {"old", "full"}
  /\ afterCleanup \in {"none", "failed", "expired"}
  /\ paid \in BOOLEAN
  /\ worker \in {"never", "live", "gone"}

\* The type invariant: every variable has the shape the code stores.
TypeOK ==
  /\ RunTypeOK
  /\ budget \in {"none", "held", "released", "charged"}
  /\ grant \in {"uploaded", "unusable", "claimed", "fenced", "swept"}
  /\ starts \in Nat
  /\ pc \in [Caller -> Steps]
  /\ goal \in [Caller -> {"failed", "expired"}]
  /\ releasing \in SUBSET Caller
  /\ purged \in SUBSET Caller
  /\ seen \in [Caller -> Caller \cup {Nobody}]
  /\ faults \in Nat

(***************************************************************************)
(* The row as newRunRecord builds it, just inserted by the Creator, which  *)
(* goes on to admit it.  The reservation field may predate a raise of the  *)
(* configured maximum; the upload may be unusable (expired or mismatched). *)
(***************************************************************************)
Init ==
  /\ status = "queued"
  /\ key \in {"set", "none"}
  /\ lease = Nobody /\ leaseLeft = 0
  /\ claim = Nobody /\ claimAge = 0
  /\ dispatch = "none"
  /\ quiet = 0 /\ due = FALSE
  /\ ceiling \in {"old", "full"}
  /\ afterCleanup = "none"
  /\ paid = FALSE /\ worker = "never"
  /\ budget = "none"
  /\ grant \in {"uploaded", "unusable"}
  /\ starts = 0
  /\ pc = [c \in Caller |-> IF c = Creator THEN "claimAdmission" ELSE "idle"]
  /\ goal = [c \in Caller |-> "failed"]
  /\ releasing = {} /\ purged = {}
  /\ seen = [c \in Caller |-> Nobody]
  /\ faults = 0

-----------------------------------------------------------------------------
(* Control of a caller *)

\* A request is over; a maintenance process waits for its next pass.
Rest(c) == IF c \in Cron THEN "idle" ELSE "done"

Goto(c, step) == pc' = [pc EXCEPT ![c] = step]

NoFault == UNCHANGED faults
Fault == faults < MaxFaults /\ faults' = faults + 1

\* Either the call is acknowledged, or it committed and the caller never learns.
Acknowledged(c, next, onLoss) ==
  \/ Goto(c, next) /\ NoFault
  \/ Goto(c, onLoss) /\ Fault

\* An update that is not a terminal write leaves these fields of the row alone.
KeepDispatch == UNCHANGED <<claim, claimAge, dispatch>>
KeepWork == UNCHANGED <<paid, worker>>
KeepRest == UNCHANGED <<key, due>>

\* A caller dies, or a call it makes is refused and the exception ends it.
Crash(c) ==
  /\ pc[c] \notin {"idle", "done"}
  /\ Goto(c, Rest(c))
  /\ Fault
  /\ UNCHANGED <<runVars, budget, grant, starts, localVars>>

-----------------------------------------------------------------------------
(* Entry: POST /runs replay, DELETE /runs/:id, the maintenance pass *)

\* createRun after store.create found the row by its idempotency key.
Replay(c) ==
  /\ c \in Api /\ pc[c] = "idle"
  /\ key = "set" /\ status \notin {"expired", "removed"}
  /\ Goto(c, IF status = "queued" /\ claim = Nobody
             THEN "claimAdmission" ELSE "done")
  /\ UNCHANGED <<runVars, budget, grant, starts, localVars, faults>>

\* DELETE expires the run whatever its status.
Delete(c) ==
  /\ c \in Api /\ pc[c] = "idle"
  /\ status \notin {"expired", "removed"}
  /\ Goto(c, "revoke")
  /\ goal' = [goal EXCEPT ![c] = "expired"]
  /\ releasing' = releasing \ {c}
  /\ UNCHANGED <<runVars, budget, grant, starts, purged, seen, faults>>

\* Mutant: a row that carries a dispatch claim is left alone for good.
Recover_SkipsFenced(c) ==
  /\ c \in Cron /\ pc[c] = "idle"
  /\ status = "queued" /\ quiet >= DelayTicks /\ ~due
  /\ IF claim # Nobody
     THEN FALSE /\ UNCHANGED pc
     ELSE Goto(c, "claimAdmission")
  /\ seen' = [seen EXCEPT ![c] = claim]
  /\ UNCHANGED <<runVars, budget, grant, starts, goal, releasing, purged, faults>>

\* recoverUnscheduledRuns: a queued row that has been quiet for the delay is
\* admitted again unless it carries a permanent dispatch fence; a fenced one is
\* left alone during the grace and declared stranded after it.
Recover(c) ==
  /\ c \in Cron /\ pc[c] = "idle"
  /\ status = "queued" /\ quiet >= DelayTicks /\ ~due
  /\ IF claim # Nobody
     THEN claimAge >= GraceTicks /\ Goto(c, "failStranded")
     ELSE Goto(c, "claimAdmission")
  /\ seen' = [seen EXCEPT ![c] = claim]
  /\ UNCHANGED <<runVars, budget, grant, starts, goal, releasing, purged, faults>>

\* expireDueRuns: expire a row that is due or whose worker's lease has elapsed,
\* resume the cleanup of a pending one.
ExpireDue(c) ==
  /\ c \in Cron /\ pc[c] = "idle"
  /\ status \notin {"expired", "removed"}
  /\ \/ due
     \/ status \in LeasedStatuses /\ worker # "live"
     \/ status = "cleanup_pending" /\ quiet >= CadenceTicks
  /\ Goto(c, "revoke")
  /\ goal' = [goal EXCEPT ![c] =
                IF status = "cleanup_pending" /\ afterCleanup # "none"
                THEN afterCleanup ELSE "expired"]
  /\ releasing' = releasing \ {c}
  /\ UNCHANGED <<runVars, budget, grant, starts, purged, seen, faults>>

\* expireDueRuns deletes an expired row once its audit retention has run out.
ForgetExpired(c) ==
  /\ c \in Cron /\ pc[c] = "idle"
  /\ status = "expired"
  /\ status' = "removed" /\ budget' = "none"
  /\ KeepDispatch /\ KeepWork /\ KeepRest
  /\ UNCHANGED <<lease, leaseLeft, quiet, ceiling, afterCleanup, grant, starts, pc,
                 localVars, faults>>

\* retryCleanupStep: the standalone retry of a pending cleanup.
RetryCleanup(c) ==
  /\ c \in Api /\ pc[c] = "idle"
  /\ status = "cleanup_pending"
  /\ Goto(c, "revoke")
  /\ goal' = [goal EXCEPT ![c] = IF afterCleanup = "none" THEN "failed" ELSE afterCleanup]
  /\ releasing' = releasing \ {c}
  /\ UNCHANGED <<runVars, budget, grant, starts, purged, seen, faults>>

-----------------------------------------------------------------------------
(* admitQueuedRun *)

\* claimAdmission: one caller at a time holds the two-minute admission lease.
ClaimAdmission(c) ==
  /\ pc[c] = "claimAdmission"
  /\ \/ /\ status = "queued" /\ claim = Nobody
        /\ lease = Nobody \/ leaseLeft = 0
        /\ lease' = c /\ leaseLeft' = LeaseTicks /\ quiet' = 0
        /\ Acknowledged(c, "raise", Rest(c))
     \/ /\ ~(/\ status = "queued" /\ claim = Nobody
             /\ lease = Nobody \/ leaseLeft = 0)
        /\ Goto(c, Rest(c)) /\ NoFault
        /\ UNCHANGED <<lease, leaseLeft, quiet>>
  /\ KeepDispatch /\ KeepWork /\ KeepRest
  /\ UNCHANGED <<status, ceiling, afterCleanup, budget, grant, starts, localVars>>

\* The lease-guarded raise of reservedMicroUsd, skipped when it is high enough.
RaiseReservation(c) ==
  /\ pc[c] = "raise"
  /\ IF ceiling = "full" \/ lease # c \/ status = "removed"
     THEN /\ Goto(c, IF ceiling = "full" THEN "claimIncoming" ELSE "failAdmission")
          /\ NoFault
          /\ UNCHANGED <<ceiling, quiet>>
     ELSE /\ ceiling' = "full" /\ quiet' = 0
          /\ Acknowledged(c, "claimIncoming", "failAdmission")
  /\ KeepDispatch /\ KeepWork /\ KeepRest
  /\ UNCHANGED <<status, lease, leaseLeft, afterCleanup, budget, grant, starts, localVars>>

\* Mutant: a refused upload claim does not stop the admission.
ClaimIncoming_IgnoresRefusal(c) ==
  /\ pc[c] = "claimIncoming"
  /\ IF grant \in {"uploaded", "claimed", "fenced"}
     THEN /\ grant' = IF grant = "fenced" THEN grant ELSE "claimed"
          /\ Acknowledged(c, "reserve", "failAdmission")
     ELSE Goto(c, "reserve") /\ NoFault /\ UNCHANGED grant
  /\ UNCHANGED <<runVars, budget, starts, localVars>>

\* uploadStorage.claimIncoming: idempotent for this run even once its upload is
\* fenced, refused for an unusable or a swept one.
ClaimIncoming(c) ==
  /\ pc[c] = "claimIncoming"
  /\ IF grant \in {"uploaded", "claimed", "fenced"}
     THEN /\ grant' = IF grant = "fenced" THEN grant ELSE "claimed"
          /\ Acknowledged(c, "reserve", "failAdmission")
     ELSE Goto(c, "failAdmission") /\ NoFault /\ UNCHANGED grant
  /\ UNCHANGED <<runVars, budget, starts, localVars>>

\* budget.reserve: refused by a quota or the daily cap when this run has no
\* reservation; an existing one for the same amount is accepted as it is.
Reserve(c) ==
  /\ pc[c] = "reserve"
  /\ \/ /\ budget = "none" /\ status # "removed"
        /\ budget' = "held"
        /\ Acknowledged(c, "claimDispatch", "failAdmission")
     \/ /\ budget = "none"
        /\ Goto(c, "failAdmission") /\ NoFault /\ UNCHANGED budget
     \/ /\ budget # "none"
        /\ Acknowledged(c, "claimDispatch", "failAdmission") /\ UNCHANGED budget
  /\ UNCHANGED <<runVars, grant, starts, localVars>>

\* Mutant: the claim is written whoever holds the lease or claimed before.
ClaimDispatch_Unconditional(c) ==
  /\ pc[c] = "claimDispatch"
  /\ IF status = "queued"
     THEN /\ claim' = c /\ claimAge' = 0 /\ dispatch' = "dispatching" /\ quiet' = 0
          /\ Acknowledged(c, "start", Rest(c))
     ELSE /\ Goto(c, Rest(c)) /\ NoFault
          /\ UNCHANGED <<claim, claimAge, dispatch, quiet>>
  /\ KeepWork /\ KeepRest
  /\ UNCHANGED <<status, lease, leaseLeft, ceiling, afterCleanup,
                 budget, grant, starts, localVars>>

\* claimAnalysisDispatch: the permanent fence, taken before Workflow is called.
ClaimDispatch(c) ==
  /\ pc[c] = "claimDispatch"
  /\ IF status = "queued" /\ lease = c /\ claim = Nobody
     THEN /\ claim' = c /\ claimAge' = 0 /\ dispatch' = "dispatching" /\ quiet' = 0
          /\ Acknowledged(c, "start", Rest(c))
     ELSE /\ Goto(c, Rest(c)) /\ NoFault
          /\ UNCHANGED <<claim, claimAge, dispatch, quiet>>
  /\ KeepWork /\ KeepRest
  /\ UNCHANGED <<status, lease, leaseLeft, ceiling, afterCleanup,
                 budget, grant, starts, localVars>>

\* schedule(): Workflow accepts, accepts without the caller learning it, or refuses.
Start(c) ==
  /\ pc[c] = "start"
  /\ \/ starts' = starts + 1 /\ Acknowledged(c, "settle", "settleUncertain")
     \/ UNCHANGED starts /\ Goto(c, "settleUncertain") /\ Fault
  /\ UNCHANGED <<runVars, budget, grant, localVars>>

\* settleAnalysisDispatch writes the outcome once, while it is still open.
SettleDispatch(c, outcome) ==
  IF claim = c /\ dispatch = "dispatching" /\ status # "removed"
  THEN /\ dispatch' = outcome
       /\ lease' = Nobody /\ leaseLeft' = 0 /\ quiet' = 0
  ELSE UNCHANGED <<dispatch, lease, leaseLeft, quiet>>

Settle(c) ==
  /\ pc[c] = "settle"
  /\ \/ /\ SettleDispatch(c, IF LocalMode THEN "not_dispatched" ELSE "scheduled")
        /\ Acknowledged(c, Rest(c), "settleUncertain")
     \/ /\ UNCHANGED <<dispatch, lease, leaseLeft, quiet>>
        /\ Goto(c, "settleUncertain") /\ Fault
  /\ KeepWork /\ KeepRest
  /\ UNCHANGED <<status, claim, claimAge, ceiling, afterCleanup, budget, grant,
                 starts, localVars>>

\* The catch clause records that the dispatch may have happened.
SettleUncertain(c) ==
  /\ pc[c] = "settleUncertain"
  /\ SettleDispatch(c, "dispatch_uncertain")
  /\ Goto(c, Rest(c)) /\ NoFault
  /\ KeepWork /\ KeepRest
  /\ UNCHANGED <<status, claim, claimAge, ceiling, afterCleanup, budget, grant,
                 starts, localVars>>

-----------------------------------------------------------------------------
(* failAdmission and failStrandedAnalysisDispatch *)

\* Mutant: the failure is written without the admission lease.
FailAdmission_Unguarded(c) ==
  /\ pc[c] = "failAdmission"
  /\ IF status = "removed"
     THEN /\ Goto(c, Rest(c)) /\ NoFault
          /\ UNCHANGED <<status, lease, leaseLeft, quiet, goal, releasing>>
     ELSE /\ lease' = Nobody /\ leaseLeft' = 0
          /\ IF status = "queued"
             THEN /\ status' = "failed" /\ quiet' = 0
                  /\ goal' = [goal EXCEPT ![c] = "failed"]
                  /\ releasing' = releasing \cup {c}
                  /\ Acknowledged(c, "revoke", Rest(c))
             ELSE /\ Goto(c, Rest(c)) /\ NoFault
                  /\ UNCHANGED <<status, quiet, goal, releasing>>
  /\ KeepDispatch /\ KeepWork /\ KeepRest
  /\ UNCHANGED <<ceiling, afterCleanup, budget, grant, starts, purged, seen>>

\* The write that fails the run, guarded by the admission lease: a caller whose
\* lease was taken over changes nothing and reports the current record.
FailAdmission(c) ==
  /\ pc[c] = "failAdmission"
  /\ IF lease # c \/ status = "removed"
     THEN /\ Goto(c, Rest(c)) /\ NoFault
          /\ UNCHANGED <<status, lease, leaseLeft, quiet, goal, releasing>>
     ELSE /\ lease' = Nobody /\ leaseLeft' = 0
          /\ IF status = "queued"
             THEN /\ status' = "failed" /\ quiet' = 0
                  /\ goal' = [goal EXCEPT ![c] = "failed"]
                  /\ releasing' = releasing \cup {c}
                  /\ Acknowledged(c, "revoke", Rest(c))
             ELSE /\ Goto(c, Rest(c)) /\ NoFault
                  /\ UNCHANGED <<status, quiet, goal, releasing>>
  /\ KeepDispatch /\ KeepWork /\ KeepRest
  /\ UNCHANGED <<ceiling, afterCleanup, budget, grant, starts, purged, seen>>

\* Mutant: a stranded dispatch is settled as a zero-cost failure.
FailStranded_Releases(c) ==
  /\ pc[c] = "failStranded"
  /\ IF status = "queued" /\ seen[c] # Nobody /\ claim = seen[c] /\ ~paid
     THEN /\ status' = "failed" /\ lease' = Nobody /\ leaseLeft' = 0 /\ quiet' = 0
          /\ goal' = [goal EXCEPT ![c] = "failed"]
          /\ releasing' = releasing \cup {c}
          /\ Acknowledged(c, "revoke", Rest(c))
     ELSE /\ Goto(c, Rest(c)) /\ NoFault
          /\ UNCHANGED <<status, lease, leaseLeft, quiet, goal, releasing>>
  /\ KeepDispatch /\ KeepWork /\ KeepRest
  /\ UNCHANGED <<ceiling, afterCleanup, budget, grant, starts, purged, seen>>

\* The unguarded write of recovery: only a row still queued under the very
\* dispatch it saw, with no paid attempt, is failed; the reservation is kept.
FailStranded(c) ==
  /\ pc[c] = "failStranded"
  /\ IF status = "queued" /\ seen[c] # Nobody /\ claim = seen[c] /\ ~paid
     THEN /\ status' = "failed" /\ lease' = Nobody /\ leaseLeft' = 0 /\ quiet' = 0
          /\ goal' = [goal EXCEPT ![c] = "failed"]
          /\ releasing' = releasing \ {c}
          /\ Acknowledged(c, "revoke", Rest(c))
     ELSE /\ Goto(c, Rest(c)) /\ NoFault
          /\ UNCHANGED <<status, lease, leaseLeft, quiet, goal, releasing>>
  /\ KeepDispatch /\ KeepWork /\ KeepRest
  /\ UNCHANGED <<ceiling, afterCleanup, budget, grant, starts, purged, seen>>

-----------------------------------------------------------------------------
(* cleanupRun, for whichever caller reached it *)

\* First write: withdraw the run and every lease on it.
Revoke(c) ==
  /\ pc[c] = "revoke"
  /\ IF status \in {"expired", "removed"}
     THEN /\ Goto(c, IF status = "expired" /\ c \in releasing THEN "settleZero" ELSE Rest(c))
          /\ purged' = IF key = "none" THEN purged \cup {c} ELSE purged \ {c}
          /\ NoFault
          /\ UNCHANGED <<status, afterCleanup, lease, leaseLeft, quiet>>
     ELSE /\ status' = "cleanup_pending"
          /\ afterCleanup' = TerminalWinner(afterCleanup, goal[c])
          /\ lease' = Nobody /\ leaseLeft' = 0 /\ quiet' = 0
          /\ purged' = purged \ {c}
          /\ Acknowledged(c, "purge", Rest(c))
  /\ KeepDispatch /\ KeepWork /\ KeepRest
  /\ UNCHANGED <<ceiling, budget, grant, starts, goal, releasing, seen>>

\* executeCleanup never throws: a failed deletion is a failed receipt.  An upload
\* this run never claimed is not purged for it: the deletion always fails, until
\* the sweep of expired grants has removed the object and its ledger row.
Purge(c) ==
  /\ pc[c] = "purge"
  /\ \/ /\ grant \in {"claimed", "fenced", "swept"}
        /\ grant' = IF grant = "swept" THEN grant ELSE "fenced"
        /\ purged' = purged \cup {c} /\ NoFault
     \/ /\ UNCHANGED <<grant, purged>>
        /\ IF grant \in {"uploaded", "unusable"} THEN NoFault ELSE Fault
  /\ Goto(c, "confirm")
  /\ UNCHANGED <<runVars, budget, starts, goal, releasing, seen>>

\* Second write: terminal once everything is purged and no worker may still be
\* alive, pending otherwise; an expired row is scrubbed of its identifiers.
Confirm(c) ==
  /\ pc[c] = "confirm"
  /\ LET confirmed == c \in purged /\ worker # "live"
         winner == TerminalWinner(afterCleanup, goal[c])
         next == IF c \in releasing THEN "settleZero" ELSE Rest(c)
     IN  /\ IF status \in {"expired", "removed"}
            THEN UNCHANGED <<status, afterCleanup, quiet, claim, claimAge, dispatch, key, lease, leaseLeft>>
            ELSE /\ quiet' = 0
                 /\ status' = IF confirmed THEN winner ELSE "cleanup_pending"
                 /\ afterCleanup' = IF confirmed THEN "none" ELSE winner
                 /\ IF confirmed /\ winner = "expired"
                    THEN /\ claim' = Nobody /\ claimAge' = 0 /\ dispatch' = "none"
                         /\ key' = "none"
                         /\ lease' = Nobody /\ leaseLeft' = 0
                    ELSE UNCHANGED <<claim, claimAge, dispatch, key,
                                     lease, leaseLeft>>
         /\ purged' = IF status' # "cleanup_pending" /\ key' = "none"
                        THEN purged \cup {c} ELSE purged \ {c}
         /\ IF status = "removed"
            THEN Goto(c, Rest(c)) /\ NoFault
            ELSE Acknowledged(c, next, Rest(c))
  /\ KeepWork
  /\ UNCHANGED <<due, ceiling, budget, grant, starts, goal, releasing, seen>>

\* budget.settle(id, 0): a settled amount never decreases.
SettleZero(c) ==
  /\ pc[c] = "settleZero"
  /\ budget' = IF budget = "held" THEN "released" ELSE budget
  /\ Acknowledged(c, IF c \in Api /\ c \in purged THEN "remove" ELSE Rest(c), Rest(c))
  /\ UNCHANGED <<runVars, grant, starts, localVars>>

\* store.remove of a rejected run nobody else can name; its reservation row
\* is deleted with it.
Remove(c) ==
  /\ pc[c] = "remove"
  /\ status' = "removed" /\ budget' = "none"
  /\ Goto(c, Rest(c)) /\ NoFault
  /\ KeepDispatch /\ KeepWork /\ KeepRest
  /\ UNCHANGED <<lease, leaseLeft, quiet, ceiling, afterCleanup, grant, starts, localVars>>

-----------------------------------------------------------------------------
(* The Workflow, once accepted: processRun seen from admission *)

\* Mutant: a delivery claims the run whatever its status.
WorkerClaim_AnyStatus ==
  /\ starts > 0
  /\ status \in {"queued", "failed", "cleanup_pending"} /\ ~paid
  /\ status' = "validating" /\ worker' = "live" /\ quiet' = 0
  /\ KeepDispatch /\ KeepRest
  /\ UNCHANGED <<lease, leaseLeft, ceiling, afterCleanup, paid, budget, grant,
                 starts, pc, localVars, faults>>

\* A delivery, early, late or repeated, gets the run only while it is queued. (That a
\* delivery may take over an elapsed lease, unless a watchdog is armed: RunProcessing.)
WorkerClaim ==
  /\ starts > 0
  /\ status = "queued" /\ ~paid
  /\ status' = "validating" /\ worker' = "live" /\ quiet' = 0
  /\ KeepDispatch /\ KeepRest
  /\ UNCHANGED <<lease, leaseLeft, ceiling, afterCleanup, paid, budget, grant,
                 starts, pc, localVars, faults>>

\* A paid provider attempt is recorded under the processing lease.
WorkerPays ==
  /\ status = "validating" /\ ~paid
  /\ paid' = TRUE /\ quiet' = 0
  /\ KeepDispatch /\ KeepRest
  /\ UNCHANGED <<status, lease, leaseLeft, ceiling, afterCleanup, worker,
                 budget, grant, starts, pc, localVars, faults>>

\* budget.settle with the cost incurred, also by a worker that was fenced out.
WorkerSettles ==
  /\ worker # "never" /\ budget \in {"held", "released"}
  /\ budget' = "charged"
  /\ UNCHANGED <<runVars, grant, starts, pc, localVars, faults>>

\* The last guarded write of processRun ("validating" stands for every stage). The
\* guards before it, that of source-reader.ts after staging among them, are in RunProcessing.
WorkerEnds ==
  /\ status = "validating"
  /\ \E outcome \in {"ready", "failed", "cleanup_pending"} :
       /\ status' = outcome
       /\ afterCleanup' = IF outcome = "cleanup_pending" THEN "failed" ELSE "none"
       /\ grant' = IF outcome = "cleanup_pending" \/ grant = "swept"
                    THEN grant ELSE "fenced"
       /\ outcome = "ready" => budget = "charged"
  /\ worker' = "gone" /\ quiet' = 0
  /\ KeepDispatch /\ KeepRest
  /\ UNCHANGED <<lease, leaseLeft, ceiling, paid, budget, starts, pc,
                 localVars, faults>>

-----------------------------------------------------------------------------
(* Time *)

LeaseElapses ==
  /\ worker = "live" /\ worker' = "gone"
  /\ UNCHANGED <<status, key, lease, leaseLeft, claim, claimAge, dispatch,
                 quiet, due, ceiling, afterCleanup, paid, budget, grant, starts,
                 pc, localVars, faults>>

\* sweepExpiredIncoming, at the end of a maintenance pass: the object of an
\* expired grant is deleted whoever claimed it.
SweepGrant ==
  /\ grant # "swept" /\ grant' = "swept"
  /\ UNCHANGED <<runVars, budget, starts, pc, localVars, faults>>

BecomesDue ==
  /\ ~due /\ due' = TRUE
  /\ UNCHANGED <<status, key, lease, leaseLeft, claim, claimAge, dispatch,
                 quiet, ceiling, afterCleanup, paid, worker, budget, grant,
                 starts, pc, localVars, faults>>

\* Mutant: the quiet time is not capped.
Tick_Unbounded ==
  /\ leaseLeft' = IF leaseLeft = 0 THEN 0 ELSE leaseLeft - 1
  /\ quiet' = quiet + 1
  /\ claimAge' = IF claimAge < GraceTicks THEN claimAge + 1 ELSE claimAge
  /\ UNCHANGED <<status, key, lease, claim, dispatch, due, ceiling,
                 afterCleanup, paid, worker, budget, grant, starts, pc, localVars,
                 faults>>

\* A minute passes; a clock past its last deadline stands still.
Tick ==
  /\ leaseLeft' = IF leaseLeft = 0 THEN 0 ELSE leaseLeft - 1
  /\ quiet' = IF quiet < CadenceTicks THEN quiet + 1 ELSE quiet
  /\ claimAge' = IF claimAge < GraceTicks THEN claimAge + 1 ELSE claimAge
  /\ UNCHANGED <<status, key, lease, claim, dispatch, due, ceiling,
                 afterCleanup, paid, worker, budget, grant, starts, pc, localVars,
                 faults>>

-----------------------------------------------------------------------------
Entry(c) ==
  \/ Replay(c) \/ Delete(c) \/ Recover(c) \/ ExpireDue(c) \/ ForgetExpired(c)
  \/ RetryCleanup(c)

Admit(c) ==
  \/ ClaimAdmission(c) \/ RaiseReservation(c) \/ ClaimIncoming(c) \/ Reserve(c)
  \/ ClaimDispatch(c) \/ Start(c) \/ Settle(c) \/ SettleUncertain(c)

Reject(c) ==
  \/ FailAdmission(c) \/ FailStranded(c) \/ Revoke(c) \/ Purge(c) \/ Confirm(c)
  \/ SettleZero(c) \/ Remove(c)

CallerStep(c) == Entry(c) \/ Admit(c) \/ Reject(c)

Worker == WorkerClaim \/ WorkerPays \/ WorkerSettles \/ WorkerEnds

Time == LeaseElapses \/ SweepGrant \/ BecomesDue \/ Tick

Next == (\E c \in Caller : CallerStep(c) \/ Crash(c)) \/ Worker \/ Time

Spec == Init /\ [][Next]_vars

\* Time passes, and the scheduler keeps invoking the maintenance route, whose
\* pass takes its next step unless it crashes and sweeps expired grants.
\* Nothing is assumed of API requests or of the Workflow: they may stop anywhere.
Fairness ==
  /\ WF_vars(Tick) /\ WF_vars(LeaseElapses) /\ WF_vars(SweepGrant)
  /\ \A c \in Cron : WF_vars(CallerStep(c))

FairSpec == Spec /\ Fairness

-----------------------------------------------------------------------------
(* Properties *)

\* The analysis Workflow of a run is started at most once, whatever is retried,
\* lost, crashed or taken over: it is the only way money is spent twice.
AtMostOneStart == starts <= 1

\* From the moment a caller may have started the Workflow the reservation is
\* never given back as a zero-cost failure: it stays held or is charged.
DispatchKeepsReservation ==
  (claim # Nobody \/ starts > 0) /\ status # "removed"
    => budget \in {"held", "charged"}

\* A run that may be, or is being, analysed has its upload claimed, unless the
\* grant has since expired and was swept, and its full per-run ceiling recorded.
AnalysisIsPrepared ==
  (status = "queued" /\ starts > 0) \/ status = "validating"
    => grant \in {"claimed", "swept"} /\ ceiling = "full"

\* Withdrawing a run is final: a late Workflow, a stale admission or a replay
\* never brings it back into analysis or to a result.
WithdrawnStaysWithdrawn ==
  [][(status \in WithdrawnStatuses => status' \in WithdrawnStatuses \cup {"removed"})]_vars

\* A row is deleted only after its upload was purged, and the row of a rejected
\* run only if no Workflow was ever started for it.
RemovalLeavesNothing ==
  [][(status' = "removed" /\ status # "removed")
       => (grant \in {"fenced", "swept"} /\ claim = Nobody /\ (status # "expired" => starts = 0))]_vars

\* With maintenance invoked again and again and finitely many faults, the run
\* stops counting against its owner's one-active-run limit: whatever was lost or
\* crashed, it is released, rejected, or withdrawn with its cleanup confirmed.
SlotIsFreed == (status \in ActiveStatuses) ~> (status \notin ActiveStatuses)
=============================================================================
