--------------------------- MODULE RedeliveryProbe ---------------------------
(***************************************************************************)
(* The destructive redelivery probe: scripts/live-recovery-probe.mjs       *)
(* starts one Workflow in a Preview deployment, whose only step kills its  *)
(* own process at its first attempt and completes at its second            *)
(* (src/workflows/redelivery-probe-policy.ts), and turns the event log of  *)
(* the run into evidence that the platform delivers a step again.          *)
(* scripts/vercel-sigkill-log-receipt.mjs later looks for the kill in the  *)
(* logs of the deployment.                                                 *)
(***************************************************************************)
EXTENDS Integers, Sequences, FiniteSets, SequencesExt

CONSTANTS
  Invocations,   \* runs of the script
  MaxRetries,    \* REDELIVERY_PROBE_MAX_RETRIES
  MaxFaults      \* bound: crashes of the platform, calls and answers lost

RedeliveryAssumption == MaxRetries \in Nat /\ MaxFaults \in Nat

VARIABLES
  deployment,  \* what the binding of the operator names: its kind and its commit
  pc,          \* where each invocation is
  mode,        \* "start" or "verify-existing"
  wire,        \* invocations whose request to start a run is on its way
  started,     \* runs each invocation has started
  run,         \* runs, named after the invocation that started them first
  hit,         \* deployments in which a process was killed
  evidence,    \* the runs there is evidence of, as the file tells it
  receipt,     \* what the log receipt says of a run
  faults

script == <<deployment, pc, mode>>
vars == <<script, wire, started, run, hit, evidence, receipt, faults>>

Modes == {"start", "verify-existing"}
Deployments == {"preview", "production", "another"}
Terminal == {"completed", "failed", "cancelled"}

\* The step of a run: the attempt in hand (0 when there is none), where it runs,
\* and how every attempt ended; the lifecycle events, in the order of the log.
NewRun == [status |-> "none", attempt |-> 0, in |-> "preview", busy |-> FALSE,
           events |-> <<>>, ends |-> <<>>, log |-> {}]

Init ==
  /\ deployment \in [kind : {"preview", "production"}, commit : BOOLEAN]
  /\ pc = [i \in Invocations |-> "idle"]
  /\ mode \in [Invocations -> Modes]
  /\ wire = {} /\ started = [i \in Invocations |-> 0]
  /\ run = [i \in Invocations |-> NewRun]
  /\ hit = {} /\ evidence = [i \in Invocations |-> {}]
  /\ receipt = [i \in Invocations |-> "none"]
  /\ faults = 0

Move(i, step) == pc' = [pc EXCEPT ![i] = step] /\ UNCHANGED <<deployment, mode>>
Fault == faults < MaxFaults /\ faults' = faults + 1
Set(r, new) == run' = [run EXCEPT ![r] = new]
World == <<wire, started, run, hit>>
Findings == <<evidence, receipt>>

-----------------------------------------------------------------------------
(* The script *)

\* Nothing is started unless the deployment is the Preview of the bound commit.
VerifyPreviewDeployment(i) ==
  /\ pc[i] = "idle"
  /\ Move(i, IF deployment.kind # "preview" \/ ~deployment.commit THEN "stopped"
             ELSE IF mode[i] = "start" THEN "start" ELSE "poll")
  /\ UNCHANGED <<World, Findings, faults>>

Accepted(i) ==
  /\ started' = [started EXCEPT ![i] = @ + 1]
  /\ run' = [run EXCEPT ![i].status = IF @ = "none" THEN "running" ELSE @]

\* Mutant: a start that was not acknowledged is tried again.
StartLost_Retries(i) ==
  /\ pc[i] = "start" /\ Fault
  /\ \/ Accepted(i) /\ UNCHANGED wire
     \/ wire' = wire \cup {i} /\ UNCHANGED <<started, run>>
     \/ UNCHANGED <<wire, started, run>>
  /\ UNCHANGED <<script, hit, Findings>>

StartWorkflow(i) ==
  /\ pc[i] = "start"
  /\ Accepted(i) /\ Move(i, "poll")
  /\ UNCHANGED <<wire, hit, Findings, faults>>

\* The child throws, times out or dies: its request was accepted, will be, or never
\* is. The script stops for good either way.
StartLost(i) ==
  /\ pc[i] = "start" /\ Fault
  /\ \/ Accepted(i) /\ UNCHANGED wire
     \/ wire' = wire \cup {i} /\ UNCHANGED <<started, run>>
     \/ UNCHANGED <<wire, started, run>>
  /\ Move(i, "stopped")
  /\ UNCHANGED <<hit, Findings>>

\* A run is polled to its end: its own, or the one the operator names.
Pollable(i, r) == run[r].status # "none" /\ (mode[i] = "start" => r = i)

PollTerminalRun(i) ==
  /\ pc[i] = "poll"
  /\ \/ \E r \in Invocations : Pollable(i, r) /\ run[r].status = "completed" /\ Move(i, "read")
     \/ (\E r \in Invocations : Pollable(i, r) /\ run[r].status \in Terminal) /\ Move(i, "stopped")
     \/ Move(i, "stopped") \* the deadline
  /\ UNCHANGED <<World, Findings, faults>>

Of(r, type) == {k \in DOMAIN run[r].events : run[r].events[k].type = type}
Attempts(r) == {run[r].events[k].attempt : k \in Of(r, "step_started")}

\* Mutant: a retry the step asked for counts as a redelivery.
Silent_Retried(r) == Of(r, "step_failed") = {}

\* No attempt reported a failure.
Silent(r) == Of(r, "step_failed") = {} /\ Of(r, "step_retrying") = {}

\* The platform may leave the attempts out of all events, and then only the order
\* of the two starts and the attempt of the step are known; out of some is no order.
Observed(r, shown) ==
  /\ Cardinality(Of(r, "step_started")) = 2 /\ Cardinality(Of(r, "step_completed")) = 1
  /\ Silent(r) /\ run[r].attempt = 2
  /\ \/ shown = "all" /\ Attempts(r) = {1, 2}
     \/ shown = "none"

BuildRecoveryEvidence(i) ==
  /\ pc[i] = "read" /\ Move(i, "stopped")
  /\ \E r \in Invocations, shown \in {"all", "none", "some"} :
       /\ Pollable(i, r) /\ run[r].status = "completed"
       /\ evidence' = IF Observed(r, shown)
                      THEN [evidence EXCEPT ![r] = @ \cup {[start |-> mode[i] = "start", by |-> i]}]
                      ELSE evidence
  /\ UNCHANGED <<World, receipt, faults>>

-----------------------------------------------------------------------------
(* The step *)

\* Mutant: the step trusts the preflight of the script.
Decide_Anywhere(in, attempt) ==
  CASE attempt = 1 -> "kill"
    [] attempt = 2 -> "complete"
    [] OTHER -> "reject"

\* decideRedeliveryProbe, in the process the platform gave it.
Decide(in, attempt) ==
  CASE in # "preview" -> "reject"
    [] in = "preview" /\ attempt = 1 -> "kill"
    [] in = "preview" /\ attempt = 2 -> "complete"
    [] OTHER -> "reject"

Event(type, attempt) == [type |-> type, attempt |-> attempt]
Ends(r, end, events) ==
  Set(r, [run[r] EXCEPT !.busy = FALSE, !.ends = Append(@, end), !.events = @ \o events])

\* The kill may not take effect and return, which the step reports as an error.
Kill(r) ==
  /\ run[r].busy /\ Decide(run[r].in, run[r].attempt) = "kill"
  /\ \/ /\ run' = [run EXCEPT ![r].busy = FALSE, ![r].ends = Append(@, "killed"),
                              ![r].log = @ \cup {"SIGKILL"}]
        /\ hit' = hit \cup {run[r].in} /\ UNCHANGED faults
     \/ /\ Fault /\ UNCHANGED hit
        /\ Ends(r, "threw", <<Event("step_retrying", run[r].attempt)>>)
  /\ UNCHANGED <<script, wire, started, Findings>>

Complete(r) ==
  /\ run[r].busy /\ Decide(run[r].in, run[r].attempt) = "complete"
  /\ Ends(r, "completed", <<Event("step_completed", run[r].attempt)>>)
  /\ UNCHANGED <<script, wire, started, hit, Findings, faults>>

\* An attempt that may be retried asks for it; the last one fails the run.
Reject(r) ==
  /\ run[r].busy /\ Decide(run[r].in, run[r].attempt) = "reject"
  /\ IF run[r].attempt <= MaxRetries
     THEN Ends(r, "threw", <<Event("step_retrying", run[r].attempt)>>)
     ELSE Set(r, [run[r] EXCEPT !.busy = FALSE, !.ends = Append(@, "threw"), !.status = "failed",
                                !.events = Append(@, Event("step_failed", run[r].attempt))])
  /\ UNCHANGED <<script, wire, started, hit, Findings, faults>>

-----------------------------------------------------------------------------
(* The platform *)

AcceptLate(i) ==
  /\ i \in wire /\ wire' = wire \ {i}
  /\ Accepted(i)
  /\ UNCHANGED <<script, hit, Findings, faults>>

Done(r) == "completed" \in ToSet(run[r].ends)

\* A step whose attempt is gone without a result is delivered again, each time as one
\* attempt more; a delivery that goes astray reaches a process of something else.
Deliver(r) ==
  /\ run[r].status = "running" /\ ~run[r].busy /\ ~Done(r)
  /\ run[r].attempt <= MaxRetries + 1
  /\ \E in \in Deployments :
       /\ IF in = deployment.kind THEN UNCHANGED faults ELSE Fault
       /\ Set(r, [run[r] EXCEPT !.attempt = @ + 1, !.in = in, !.busy = TRUE,
                                !.events = Append(@, Event("step_started", run[r].attempt + 1))])
  /\ UNCHANGED <<script, wire, started, hit, Findings>>

\* The instance is lost: before the step, or when its result was not stored.
Crash(r) ==
  /\ run[r].busy /\ Fault
  /\ Ends(r, "lost", <<>>)
  /\ UNCHANGED <<script, wire, started, hit, Findings>>

RunEnds(r) ==
  /\ run[r].status = "running" /\ ~run[r].busy
  /\ \/ Done(r) /\ Set(r, [run[r] EXCEPT !.status = "completed"])
     \/ ~Done(r) /\ run[r].attempt > MaxRetries + 1 /\ Set(r, [run[r] EXCEPT !.status = "failed"])
     \/ ~Done(r) /\ Set(r, [run[r] EXCEPT !.status = "cancelled"])
  /\ UNCHANGED <<script, wire, started, hit, Findings, faults>>

\* Other rows of the deployment may hold a SIGKILL, and rows may be missing.
Logged(r) == "SIGKILL" \in run[r].log

\* Mutant: a kill anywhere in the window is taken for this run's.
Binding_Window(r, rows) == IF rows # {} THEN "exact_run" ELSE "none"

\* Exactly one SIGKILL is in the rows; whose it is only its row can tell.
Binding(r, rows) ==
  IF Cardinality(rows) # 1 THEN "none"
  ELSE IF r \in rows THEN "exact_run" ELSE "deployment_window"

TakeReceipt(r) ==
  /\ receipt[r] = "none" /\ run[r].status = "completed"
  /\ \E rows \in SUBSET {q \in Invocations : Logged(q)} :
       receipt' = [receipt EXCEPT ![r] = Binding(r, rows)]
  /\ UNCHANGED <<script, World, evidence, faults>>

Next ==
  \/ \E i \in Invocations :
       \/ VerifyPreviewDeployment(i) \/ StartWorkflow(i) \/ StartLost(i)
       \/ PollTerminalRun(i) \/ BuildRecoveryEvidence(i) \/ AcceptLate(i)
  \/ \E r \in Invocations :
       \/ Kill(r) \/ Complete(r) \/ Reject(r)
       \/ Deliver(r) \/ Crash(r) \/ RunEnds(r) \/ TakeReceipt(r)

Spec == Init /\ [][Next]_vars

-----------------------------------------------------------------------------
(* Properties *)

\* Evidence is written only of a run whose first attempt died without a word, in a
\* process of the bound Preview or on the way to it, and whose second and last one
\* completed; and of no more than one start, whatever was lost in between.
EvidenceIsTrue ==
  \A r \in Invocations : evidence[r] # {} =>
    /\ run[r].ends \in {<<"killed", "completed">>, <<"lost", "completed">>}
    /\ run[r].in = "preview" /\ deployment.kind = "preview" /\ deployment.commit
    /\ \A e \in evidence[r] : e.start => started[e.by] = 1 /\ e.by = r

\* The probe kills nothing but a process of the Preview it is bound to, though a
\* delivery goes astray; an invocation starts one run at most, though it is not told;
\* and a receipt that is bound to a run means the kill of that run.
ProbeIsContained ==
  /\ hit \subseteq {"preview"} /\ (hit # {} => deployment.kind = "preview")
  /\ \A i \in Invocations : started[i] <= 1 /\ (mode[i] # "start" => started[i] = 0)
  /\ \A r \in Invocations : receipt[r] = "exact_run" => "killed" \in ToSet(run[r].ends)
=============================================================================
