----------------------------- MODULE RunStatus -----------------------------
(***************************************************************************)
(* The statuses of an analysis run and the moves transitionRun permits     *)
(* between them (src/lib/runs/state-machine.ts, src/lib/runs/types.ts).    *)
(* Every module about runs extends this one.                               *)
(***************************************************************************)

\* The stages a worker drives a run through while it holds a processing lease.
LeasedStatuses ==
  {"validating", "staging", "page_indexing", "parsing", "purging_source",
   "extracting", "reconciling", "verifying"}

\* The statuses that publish a result.
ReleasedStatuses == {"ready", "partial"}

\* The statuses of a run that will never publish a result again.
WithdrawnStatuses == {"failed", "cleanup_pending", "expired"}

\* The statuses that count against the one-active-run-per-owner rule.
ActiveStatuses == {"queued", "cleanup_pending"} \cup LeasedStatuses

RunStatuses == {"queued"} \cup LeasedStatuses \cup ReleasedStatuses \cup WithdrawnStatuses

\* The transition table: the statuses reachable from each status in one move.
Transitions(from) ==
  CASE from = "queued"         -> {"validating"} \cup WithdrawnStatuses
    [] from = "validating"     -> {"staging"} \cup WithdrawnStatuses
    [] from = "staging"        -> {"page_indexing"} \cup WithdrawnStatuses
    [] from = "page_indexing"  -> {"parsing"} \cup WithdrawnStatuses
    [] from = "parsing"        -> {"purging_source"} \cup WithdrawnStatuses
    [] from = "purging_source" -> {"extracting"} \cup WithdrawnStatuses
    [] from = "extracting"     -> {"reconciling", "partial"} \cup WithdrawnStatuses
    [] from = "reconciling"    -> {"verifying", "partial"} \cup WithdrawnStatuses
    [] from = "verifying"      -> {"ready", "partial"} \cup WithdrawnStatuses
    [] from \in {"ready", "partial", "failed"} -> {"cleanup_pending", "expired"}
    [] from = "cleanup_pending" -> {"failed", "expired"}
    [] from = "expired"        -> {}

\* transitionRun returns (rather than throws) exactly when this holds: the same
\* status is returned unchanged, anything else must be in the table, and a
\* result is published only after the cleanup was confirmed.
CanTransition(from, to, cleanupConfirmed) ==
  \/ from = to
  \/ /\ to \in Transitions(from)
     /\ to \in ReleasedStatuses => cleanupConfirmed

\* terminalWinner: a run asked to both fail and expire expires.
TerminalWinner(current, requested) ==
  IF "expired" \in {current, requested} THEN "expired" ELSE "failed"
=============================================================================
