------------------------------ MODULE Heartbeat ------------------------------
(***************************************************************************)
(* The heartbeat of maintenance: invocations of the maintenance route      *)
(* (src/app/api/internal/maintenance/route.ts) that overlap, run into      *)
(* their deadline with the write of the heartbeat still on its way, and    *)
(* read clocks that differ; and the admission of new runs that reads the   *)
(* row (src/lib/health/maintenance.ts).                                    *)
(***************************************************************************)
EXTENDS Integers, FiniteSets

CONSTANTS
  Invocations,
  Budget,    \* MAINTENANCE_INVOCATION_BUDGET_MS
  MaxAge,    \* MAINTENANCE_HEARTBEAT_MAX_AGE_MS
  Skew,      \* MAINTENANCE_HEARTBEAT_MAX_FUTURE_SKEW_MS, and how far clocks differ
  LastTime   \* bound: the end of time

HeartbeatAssumption ==
  Budget \in Nat \ {0} /\ MaxAge \in Nat /\ Skew \in Nat /\ LastTime \in Nat

VARIABLES
  now,
  inv,       \* each invocation: its step, its clock's reading at the start, its duration
  wire,      \* the heartbeats whose write has not landed
  row,       \* maintenance_heartbeats: completed_at and duration, or Missing
  completed, \* true times at which an invocation finished both passes
  reading    \* what the last admission made of the row

vars == <<now, inv, wire, row, completed, reading>>

Missing == [at |-> -1, duration |-> 0]
Idle == [step |-> "none", start |-> 0, clock |-> 0, duration |-> 0]

Init ==
  /\ now = 0
  /\ inv = [i \in Invocations |-> Idle] /\ wire = {} /\ row = Missing
  /\ completed = {} /\ reading = "none"

Elapsed(i) == now - inv[i].start
Set(i, step) == inv' = [inv EXCEPT ![i].step = step]

Start(i) ==
  /\ inv[i].step = "none"
  /\ \E clock \in {now, now + Skew} :
       inv' = [inv EXCEPT ![i] = [step |-> "working", start |-> now, clock |-> clock, duration |-> 0]]
  /\ UNCHANGED <<now, wire, row, completed, reading>>

\* recoverUnscheduledRuns and expireDueRuns; a failure or the deadline ends it: 503.
Fail(i) ==
  /\ inv[i].step \in {"working", "recording"} /\ Set(i, "over")
  /\ UNCHANGED <<now, wire, row, completed, reading>>

Passes(i) ==
  /\ inv[i].step = "working" /\ Elapsed(i) < Budget
  /\ inv' = [inv EXCEPT ![i].step = "recording", ![i].duration = Elapsed(i)]
  /\ completed' = completed \cup {now}
  /\ UNCHANGED <<now, wire, row, reading>>

Summary(i) == [at |-> inv[i].clock + inv[i].duration, duration |-> inv[i].duration]

\* The write is sent before the deadline; it may land after it.
Record(i) ==
  /\ inv[i].step = "recording" /\ Elapsed(i) < Budget
  /\ Set(i, "sent")
  /\ wire' = wire \cup {Summary(i)}
  /\ UNCHANGED <<now, row, completed, reading>>

\* Mutant: the row takes whatever is written last.
Recorded_Last(beat) == beat

Recorded(beat) == IF row = Missing \/ row.at <= beat.at THEN beat ELSE row

Land(beat) ==
  /\ beat \in wire /\ wire' = wire \ {beat}
  /\ row' = Recorded(beat)
  /\ UNCHANGED <<now, inv, completed, reading>>

Drop(beat) ==
  /\ beat \in wire /\ wire' = wire \ {beat}
  /\ UNCHANGED <<now, inv, row, completed, reading>>

Bounded(beat) == beat.duration <= Budget

Recent(beat) == now - beat.at <= MaxAge /\ beat.at - now <= Skew

\* An admission reads the row; without an answer there is no admission.
Probe ==
  /\ \/ reading' = CASE row = Missing -> "missing"
                     [] row # Missing /\ Bounded(row) /\ Recent(row) -> "fresh"
                     [] OTHER -> "stale"
     \/ reading' = "unreachable"
  /\ UNCHANGED <<now, inv, wire, row, completed>>

Tick ==
  /\ now < LastTime /\ now' = now + 1 /\ reading' = "none"
  /\ UNCHANGED <<inv, wire, row, completed>>

Next ==
  \/ Probe \/ Tick
  \/ \E i \in Invocations : Start(i) \/ Passes(i) \/ Fail(i) \/ Record(i)
  \/ \E beat \in wire : Land(beat) \/ Drop(beat)

Spec == Init /\ [][Next]_vars

-----------------------------------------------------------------------------
(* Properties *)

\* A service that takes new runs has had both passes completed within the age the
\* heartbeat may have.
FreshIsTrue == reading = "fresh" => \E t \in completed : now - t <= MaxAge + Skew

\* A heartbeat that lands late never makes the row older: of every step.
NeverOlder == row = Missing \/ row'.at >= row.at
=============================================================================
