---------------------------- MODULE CleanupRetry ----------------------------
(***************************************************************************)
(* The one standalone retry of a cleanup (src/lib/runs/scheduler.ts,       *)
(* scheduleCleanupRetry; claimCleanupRetry, settleCleanupRetryDispatch and *)
(* listCleanupCandidates in src/db/neon-store.ts; retry-cleanup-step.ts).  *)
(* Callers claim the retry, ask the Workflow service for it and record the *)
(* answer; every one of these calls may be lost on the way there or back.  *)
(* What cleanupRun does to a run is one step here; RunProcessing and       *)
(* Maintenance take it apart.                                              *)
(***************************************************************************)
EXTENDS Integers, FiniteSets

CONSTANTS
  Callers,      \* DELETE requests and failing admissions, in one or more instances
  Nobody,
  Storms,       \* deletions that fail before the bucket recovers
  MaxFaults     \* lost calls and crashes in a run of the model

ASSUME CleanupRetryAssumption ==
  /\ Nobody \notin Callers
  /\ Storms \in Nat /\ MaxFaults \in Nat

VARIABLES
  row,       \* the run's row: status, terminal, claim, dispatch, uncertain
  claimAge,  \* 0 since cleanupRetryClaimedAt, 1 past the grace, 2 past the cadence
  rowAge,    \* the same since updatedAt
  pc,        \* where each caller is
  wire,      \* a request to start the Workflow that is still on its way
  started,   \* Workflows the service has started
  ran,       \* the step of the Workflow has run
  local,     \* there is no Workflow service here: a dispatch is a no-op
  storms, faults

vars == <<row, claimAge, rowAge, pc, wire, started, ran, local, storms, faults>>

Terminals == {"failed", "expired"}
Dispatches == {"none", "dispatching", "scheduled", "dispatch_uncertain", "not_dispatched"}
Steps == {"idle", "claim", "dispatch", "scheduled", "not_dispatched", "uncertain", "done"}

Init ==
  /\ row = [status |-> "failed", terminal |-> "failed", claim |-> Nobody,
            dispatch |-> "none", uncertain |-> FALSE]
  /\ claimAge = 0 /\ rowAge = 0
  /\ pc = [c \in Callers |-> "idle"]
  /\ wire = FALSE /\ started = 0 /\ ran = FALSE /\ local \in BOOLEAN
  /\ storms = 0 /\ faults = 0

-----------------------------------------------------------------------------
(* A cleanup *)

Pending == row.status = "cleanup_pending"

Older(a, b) == IF "expired" \in {a, b} THEN "expired" ELSE "failed"

\* The audit record of an expired run keeps nothing of its dispatches.
Ended(old, terminal) ==
  IF terminal = "expired"
  THEN [status |-> "expired", terminal |-> "expired", claim |-> Nobody,
        dispatch |-> "none", uncertain |-> FALSE]
  ELSE [old EXCEPT !.status = "failed"]

Deleted(terminal) ==
  /\ row' = Ended(row, Older(row.terminal, terminal))
  /\ UNCHANGED storms

Refused(terminal) ==
  /\ storms < Storms /\ storms' = storms + 1
  /\ row' = [row EXCEPT !.status = "cleanup_pending", !.terminal = Older(@, terminal)]

CleanUp(terminal) ==
  /\ rowAge' = 0
  /\ Deleted(terminal) \/ Refused(terminal)

-----------------------------------------------------------------------------
(* A caller *)

Move(c, step) == pc' = [pc EXCEPT ![c] = step]

Lose == faults < MaxFaults /\ faults' = faults + 1

Network == <<wire, started, ran, local>>

\* A DELETE, or an admission that fails: cleanupRun, and scheduleCleanupRetry
\* when it left the run pending.
Ask(c, terminal) ==
  /\ pc[c] = "idle" /\ row.status # "expired"
  /\ CleanUp(terminal)
  /\ Move(c, IF row'.status = "cleanup_pending" THEN "claim" ELSE "done")
  /\ UNCHANGED <<claimAge, Network, faults>>

\* Mutant: the claim is taken whoever holds it.
Claimable_AnyTime == Pending

Claimable == Pending /\ row.claim = Nobody

Claimed(c) ==
  /\ row' = [row EXCEPT !.claim = c, !.dispatch = "dispatching"]
  /\ claimAge' = 0 /\ rowAge' = 0

\* Mutant: a lost acknowledgement of the claim lets its caller dispatch.
ClaimLost_Dispatches(c) ==
  /\ pc[c] = "claim" /\ Lose
  /\ (Claimable /\ Claimed(c)) \/ UNCHANGED <<row, claimAge, rowAge>>
  /\ Move(c, "dispatch")
  /\ UNCHANGED <<Network, storms>>

Claim(c) ==
  /\ pc[c] = "claim" /\ Claimable
  /\ Claimed(c) /\ Move(c, "dispatch")
  /\ UNCHANGED <<Network, storms, faults>>

ClaimMisses(c) ==
  /\ pc[c] = "claim" /\ ~Claimable
  /\ Move(c, "done")
  /\ UNCHANGED <<row, claimAge, rowAge, Network, storms, faults>>

\* The update or its acknowledgement is lost: the caller gives up either way.
ClaimLost(c) ==
  /\ pc[c] = "claim" /\ Lose
  /\ (Claimable /\ Claimed(c)) \/ UNCHANGED <<row, claimAge, rowAge>>
  /\ Move(c, "done")
  /\ UNCHANGED <<Network, storms>>

DispatchLocally(c) ==
  /\ pc[c] = "dispatch" /\ local
  /\ Move(c, "not_dispatched")
  /\ UNCHANGED <<row, claimAge, rowAge, Network, storms, faults>>

Dispatch(c) ==
  /\ pc[c] = "dispatch" /\ ~local
  /\ started' = started + 1 /\ Move(c, "scheduled")
  /\ UNCHANGED <<row, claimAge, rowAge, wire, ran, local, storms, faults>>

\* Mutant: a dispatch that throws is recorded as one that never happened.
DispatchLost_NotSent(c) ==
  /\ pc[c] = "dispatch" /\ ~local /\ Lose
  /\ \/ started' = started + 1 /\ UNCHANGED wire
     \/ wire' = TRUE /\ UNCHANGED started
     \/ UNCHANGED <<wire, started>>
  /\ Move(c, "not_dispatched")
  /\ UNCHANGED <<row, claimAge, rowAge, ran, local, storms>>

\* start() throws: the service accepted the Workflow, or will, or never does.
DispatchLost(c) ==
  /\ pc[c] = "dispatch" /\ ~local /\ Lose
  /\ \/ started' = started + 1 /\ UNCHANGED wire
     \/ wire' = TRUE /\ UNCHANGED started
     \/ UNCHANGED <<wire, started>>
  /\ Move(c, "uncertain")
  /\ UNCHANGED <<row, claimAge, rowAge, ran, local, storms>>

\* Mutant: only a local no-op is made eligible for maintenance at once.
Settled_LocalOnly(c, status) ==
  IF row.claim = c
  THEN /\ row' = [row EXCEPT !.dispatch = status, !.uncertain = status = "not_dispatched"]
       /\ rowAge' = claimAge
  ELSE UNCHANGED <<row, rowAge>>

\* settleCleanupRetryDispatch: the row is found by the claim alone, and takes
\* the time the call began.
Settled(c, status) ==
  IF row.claim = c
  THEN /\ row' = [row EXCEPT !.dispatch = status, !.uncertain = status # "scheduled"]
       /\ rowAge' = claimAge
  ELSE UNCHANGED <<row, rowAge>>

Settle(c) ==
  /\ pc[c] \in {"scheduled", "not_dispatched"}
  /\ Settled(c, pc[c]) /\ Move(c, "done")
  /\ UNCHANGED <<claimAge, Network, storms, faults>>

\* A settlement that throws, committed or not, is one the caller calls uncertain.
SettleLost(c) ==
  /\ pc[c] \in {"scheduled", "not_dispatched"} /\ Lose
  /\ Settled(c, pc[c]) \/ UNCHANGED <<row, rowAge>>
  /\ Move(c, "uncertain")
  /\ UNCHANGED <<claimAge, Network, storms>>

SettleUncertain(c) ==
  /\ pc[c] = "uncertain"
  /\ Settled(c, "dispatch_uncertain") /\ Move(c, "done")
  /\ UNCHANGED <<claimAge, Network, storms, faults>>

\* The caller dies where it stands, or loses its last update.
Die(c) ==
  /\ pc[c] \notin {"idle", "done"} /\ Lose
  /\ Move(c, "done")
  /\ UNCHANGED <<row, claimAge, rowAge, Network, storms>>

-----------------------------------------------------------------------------
(* The Workflow service, maintenance and time *)

AcceptLate ==
  /\ wire /\ wire' = FALSE /\ started' = started + 1
  /\ UNCHANGED <<row, claimAge, rowAge, pc, ran, local, storms, faults>>

\* One attempt: the step is not retried.
RunRetry ==
  /\ started > 0 /\ ~ran /\ ran' = TRUE
  /\ IF Pending THEN CleanUp(row.terminal) ELSE UNCHANGED <<row, rowAge, storms>>
  /\ UNCHANGED <<claimAge, pc, wire, started, local, faults>>

\* Mutant: a claim whose caller disappeared waits for its Workflow.
Due_TrustsClaim ==
  Pending /\ (row.uncertain \/ (rowAge = 2 /\ row.dispatch # "dispatching"))

Due ==
  /\ Pending
  /\ \/ row.uncertain
     \/ row.dispatch = "dispatching" /\ claimAge >= 1
     \/ rowAge = 2

Maintain ==
  /\ Due /\ CleanUp(row.terminal)
  /\ UNCHANGED <<claimAge, pc, Network, faults>>

Grow(age) == IF age < 2 THEN age + 1 ELSE age

Tick ==
  /\ Pending /\ (rowAge < 2 \/ claimAge < 2)
  /\ rowAge' = Grow(rowAge)
  /\ claimAge' = IF row.claim = Nobody THEN claimAge ELSE Grow(claimAge)
  /\ UNCHANGED <<row, pc, Network, storms, faults>>

CallerStep(c) ==
  \/ \E t \in Terminals : Ask(c, t)
  \/ Claim(c) \/ ClaimMisses(c) \/ ClaimLost(c)
  \/ DispatchLocally(c) \/ Dispatch(c) \/ DispatchLost(c)
  \/ Settle(c) \/ SettleLost(c) \/ SettleUncertain(c) \/ Die(c)

Next ==
  \/ \E c \in Callers : CallerStep(c)
  \/ AcceptLate \/ RunRetry \/ Maintain \/ Tick

Spec == Init /\ [][Next]_vars

\* Maintenance is invoked on a schedule and time passes; callers, the service
\* and the retry may stop for good.
Fairness == WF_vars(Maintain) /\ WF_vars(Tick)

FairSpec == Spec /\ Fairness

-----------------------------------------------------------------------------
(* Properties *)

TypeOK ==
  /\ row \in [status : {"failed", "expired", "cleanup_pending"}, terminal : Terminals,
              claim : Callers \cup {Nobody}, dispatch : Dispatches, uncertain : BOOLEAN]
  /\ claimAge \in 0..2 /\ rowAge \in 0..2
  /\ pc \in [Callers -> Steps]
  /\ wire \in BOOLEAN /\ started \in Nat
  /\ ran \in BOOLEAN /\ local \in BOOLEAN
  /\ storms \in 0..Storms /\ faults \in 0..MaxFaults

\* However many callers ask and however their calls are lost, at most one
\* standalone retry is ever asked for: the cost bound of a run counts one.
AtMostOneRetry == started + (IF wire THEN 1 ELSE 0) <= 1

\* What the row says of the retry is true: a scheduled one was started, and one
\* not dispatched never will be. An acknowledgement lost after the row said
\* "scheduled" may turn it into "uncertain", never the other way.
DispatchIsTold ==
  /\ row.dispatch = "scheduled" => started = 1
  /\ row.dispatch = "not_dispatched" => started = 0 /\ ~wire

\* A claimed retry that no service has started does not strand the cleanup: the
\* grace over, maintenance takes the run, whichever call was lost.
UnstartedRetryIsDue ==
  Pending /\ row.claim # Nobody /\ started = 0 /\ claimAge >= 1 => Due

\* A pending cleanup ends though every caller dies, the claim stays taken for
\* good and the retry itself fails: maintenance goes on.
PendingEnds == Pending ~> ~Pending

-----------------------------------------------------------------------------
(* The promise it keeps *)

Scrubbed == row.status = "expired"

Said ==
  CASE Scrubbed -> "forgotten"
    [] ~Scrubbed /\ row.dispatch = "scheduled" -> "accepted"
    [] ~Scrubbed /\ row.dispatch = "not_dispatched" -> "never"
    [] ~Scrubbed /\ row.dispatch = "dispatch_uncertain" -> "unsure"
    [] OTHER -> "nothing"

OD == INSTANCE OneDispatch WITH
  claimed <- Scrubbed \/ row.claim # Nobody,
  sent <- wire \/ started > 0,
  accepted <- started > 0,
  said <- Said

\* The claim in the row is a right to dispatch once, told of truthfully.
KeepsOneDispatch == OD!Spec
=============================================================================
