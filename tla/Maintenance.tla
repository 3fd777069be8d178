---------------------------- MODULE Maintenance ----------------------------
(***************************************************************************)
(* Maintenance over several runs (src/lib/runs/expiry.ts, expireDueRuns;   *)
(* listCleanupCandidates in src/db/neon-store.ts): a bounded batch is      *)
(* listed once, oldest change first, and worked off while workers, owners  *)
(* and other passes go on; a pass may reach its deadline between any two   *)
(* steps.                                                                  *)
(***************************************************************************)
EXTENDS Integers, Sequences, FiniteSetsExt, RunStatus

CONSTANTS
  Runs,
  Stuck,    \* runs with an object that cannot be deleted
  Owned,    \* runs whose owner may delete them
  OwnerOf,  \* the owner of each run: the rows of an owner share an index
  Passes,   \* maintenance invocations, which may overlap
  Batch     \* runs a pass takes on at most

ASSUME MaintenanceAssumption ==
  /\ Stuck \subseteq Runs /\ Owned \subseteq Runs /\ DOMAIN OwnerOf = Runs
  /\ Runs \cap Passes = {} /\ IsFiniteSet(Runs) /\ Batch \in Nat \ {0}

VARIABLES
  row,    \* the rows
  at,     \* the order of updatedAt of a run, and of the time a pass began
  todo,   \* what each pass has listed and not finished, as it was listed
  pc

vars == <<row, at, todo, pc>>

Working == "verifying"   \* stands for every status a worker holds a lease in

NewRow ==
  [status |-> Working, lease |-> "live", terminal |-> "none",
   aged |-> FALSE,      \* expiresAt, or auditExpiresAt of an expired run, has passed
   rested |-> FALSE]    \* unchanged for the cadence, or a grace of its retry dispatch over

ReadyRow == [NewRow EXCEPT !.status = "ready", !.lease = "none"]

Held(status) == status \in {Working, "cleanup_pending"}

\* Another run of the same owner holds the slot of runs_owner_active_unique: a
\* statement that would make r active again is refused.
SlotTaken(r) ==
  /\ ~Held(row[r].status)
  /\ \E other \in Runs \ {r} : OwnerOf[other] = OwnerOf[r] /\ Held(row[other].status)

\* An owner has one run at work; the earlier ones have ended.
Init ==
  /\ row \in [Runs -> {NewRow, ReadyRow}]
  /\ \A r \in Runs : ~Held(row[r].status) <=> SlotTaken(r)
  /\ at = [x \in Runs \cup Passes |-> 0]
  /\ todo = [p \in Passes |-> <<>>]
  /\ pc = [p \in Passes |-> "idle"]

-----------------------------------------------------------------------------
(* The order of times *)

\* Only the order matters: times are renumbered without gaps.
Ranked(times) ==
  LET used == {times[x] : x \in DOMAIN times} \cup {0}
  IN [x \in DOMAIN times |-> Cardinality({t \in used : t < times[x]})]

Later == 1 + Max({at[x] : x \in Runs \cup Passes})

ChangedAt(r, time) == at' = Ranked([at EXCEPT ![r] = time])

\* Mutant: a revocation leaves updatedAt alone when the run was already pending.
ChangedBy_KeepsPlace(p, r) ==
  IF row[r].status = "cleanup_pending" THEN UNCHANGED at ELSE ChangedAt(r, at[p])

\* A pass writes the time it began, not the time at which it writes.
ChangedBy(p, r) == ChangedAt(r, at[p])

-----------------------------------------------------------------------------
(* Workers, owners and time *)

Rewrite(r, new) == row' = [row EXCEPT ![r] = new] /\ ChangedAt(r, Later)

Outside == UNCHANGED <<todo, pc>>

Heartbeat(r) ==
  /\ row[r].status = Working
  /\ Rewrite(r, [row[r] EXCEPT !.lease = "live", !.rested = FALSE])
  /\ Outside

Publish(r) ==
  /\ row[r].status = Working
  /\ Rewrite(r, [row[r] EXCEPT !.status = "ready", !.lease = "none", !.rested = FALSE])
  /\ Outside

\* A worker fails before its sources are gone.
WorkerFails(r) ==
  /\ row[r].status = Working
  /\ Rewrite(r, [row[r] EXCEPT !.status = "cleanup_pending", !.lease = "none",
                               !.terminal = "failed", !.rested = FALSE])
  /\ Outside

\* Mutant: the last caller decides how the run will end.
Revoked_LastWins(old, terminal) ==
  [old EXCEPT !.status = "cleanup_pending", !.rested = FALSE, !.terminal = terminal,
              !.aged = @ \/ old.lease = "elapsed"]

\* What cleanupRun makes of a row before it deletes anything.
Revoked(old, terminal) ==
  [old EXCEPT !.status = "cleanup_pending", !.rested = FALSE,
              !.terminal = TerminalWinner(@, terminal),
              !.aged = @ \/ old.lease = "elapsed"]

\* A DELETE that comes no further than its revocation.
Delete(r) ==
  /\ r \in Owned /\ row[r].status \notin {"expired", "removed"}
  /\ row[r].terminal # "expired" /\ ~SlotTaken(r)
  /\ Rewrite(r, Revoked(row[r], "expired"))
  /\ Outside

\* The revocation has moved expiresAt to the deadline of the lease.
LeaseElapses(r) ==
  /\ row[r].lease = "live"
  /\ row' = [row EXCEPT ![r].lease = "elapsed", ![r].aged = @ \/ row[r].status = "cleanup_pending"]
  /\ UNCHANGED at /\ Outside

Ages(r) ==
  /\ ~row[r].aged /\ row[r].status # "removed"
  /\ row' = [row EXCEPT ![r].aged = TRUE]
  /\ UNCHANGED at /\ Outside

Rests(r) ==
  /\ ~row[r].rested /\ row[r].status = "cleanup_pending"
  /\ row' = [row EXCEPT ![r].rested = TRUE]
  /\ UNCHANGED at /\ Outside

-----------------------------------------------------------------------------
(* A pass *)

\* Mutant: only retention makes a run due, and pending ones their cadence.
Due_Retention(r) ==
  \/ row[r].status # "removed" /\ row[r].aged
  \/ row[r].status = "cleanup_pending" /\ row[r].rested

\* The conditions of listCleanupCandidates.
Due(r) ==
  \/ row[r].status # "removed" /\ row[r].aged
  \/ row[r].status = Working /\ row[r].lease = "elapsed"
  \/ row[r].status = "cleanup_pending" /\ row[r].rested

DueRuns == {r \in Runs : Due(r)}

\* The oldest changes first, in any order among equals.
Batches ==
  {s \in [1..Min({Batch, Cardinality(DueRuns)}) -> DueRuns] :
     /\ \A i, j \in DOMAIN s : i < j => s[i] # s[j] /\ at[s[i]] <= at[s[j]]
     /\ \A r \in DueRuns \ {s[i] : i \in DOMAIN s}, i \in DOMAIN s : at[s[i]] <= at[r]}

Goto(p, step) == pc' = [pc EXCEPT ![p] = step]

Begin(p) ==
  /\ pc[p] = "idle" /\ Goto(p, "list")
  /\ at' = Ranked([at EXCEPT ![p] = Later])
  /\ UNCHANGED <<row, todo>>

List(p) ==
  /\ pc[p] = "list" /\ Goto(p, "next")
  /\ \E s \in Batches :
       todo' = [todo EXCEPT ![p] = [i \in DOMAIN s |->
                  [run |-> s[i], status |-> row[s[i]].status, terminal |-> row[s[i]].terminal]]]
  /\ UNCHANGED <<row, at>>

\* How the pass wants the run to end, by what it has listed.
Wanted(item) ==
  IF item.status = "cleanup_pending" /\ item.terminal # "none" THEN item.terminal ELSE "expired"

NextItem(p) == todo' = [todo EXCEPT ![p] = Tail(@)] /\ Goto(p, "next")

Remove(p) ==
  /\ pc[p] = "next" /\ todo[p] # <<>> /\ Head(todo[p]).status = "expired"
  /\ row' = [row EXCEPT ![Head(todo[p]).run].status = "removed"]
  /\ NextItem(p) /\ UNCHANGED at

\* Mutant: the rest of the list is kept for the next pass.
Stop_KeepsList(p) ==
  /\ Goto(p, "idle") /\ at' = Ranked([at EXCEPT ![p] = 0]) /\ UNCHANGED todo

\* The pass ends, without looking at the rest of its list.
Stop(p) ==
  /\ todo' = [todo EXCEPT ![p] = <<>>] /\ Goto(p, "idle")
  /\ at' = Ranked([at EXCEPT ![p] = 0])

\* cleanupRun is called for what was listed, whatever has become of the run since; what
\* the store refuses ends the whole pass.
Revoke(p) ==
  /\ pc[p] = "next" /\ todo[p] # <<>> /\ Head(todo[p]).status # "expired"
  /\ LET r == Head(todo[p]).run
     IN \/ /\ row[r].status = "removed"
           /\ Stop(p) /\ UNCHANGED row
        \/ /\ row[r].status = "expired"
           /\ NextItem(p) /\ UNCHANGED <<row, at>>
        \/ /\ SlotTaken(r) /\ row[r].status \notin {"removed", "expired"}
           /\ Stop(p) /\ UNCHANGED row
        \/ /\ ~SlotTaken(r) /\ row[r].status \notin {"removed", "expired"}
           /\ row' = [row EXCEPT ![r] = Revoked(@, Wanted(Head(todo[p])))]
           /\ ChangedBy(p, r)
           /\ Goto(p, "confirm") /\ UNCHANGED todo

Ended(old, terminal) ==
  [old EXCEPT !.status = terminal, !.terminal = "none", !.lease = "none", !.rested = FALSE,
              !.aged = @ /\ terminal # "expired"]

\* Everything is deleted and the former worker is quiet.
Confirm(p, r) ==
  /\ pc[p] = "confirm" /\ r = Head(todo[p]).run
  /\ r \notin Stuck /\ row[r].lease # "live"
  /\ row[r].status \notin {"removed", "expired"}
  /\ row' = [row EXCEPT ![r] = Ended(@, TerminalWinner(@.terminal, Wanted(Head(todo[p]))))]
  /\ ChangedBy(p, r) /\ NextItem(p)

\* Something is not, or another cleanup was first.
Keep(p) ==
  /\ pc[p] = "confirm"
  /\ LET r == Head(todo[p]).run
     IN \/ row[r].status = "removed" /\ Stop(p) /\ UNCHANGED row
        \/ row[r].status = "expired" /\ NextItem(p) /\ UNCHANGED <<row, at>>
        \/ /\ row[r].status \notin {"removed", "expired"}
           /\ row' = [row EXCEPT ![r] = [Revoked(@, Wanted(Head(todo[p]))) EXCEPT !.aged = row[r].aged]]
           /\ ChangedBy(p, r) /\ NextItem(p)

Finish(p) == pc[p] = "next" /\ todo[p] = <<>> /\ Stop(p) /\ UNCHANGED row

\* The deadline, a failing store, or the end of the function.
Abort(p) == pc[p] # "idle" /\ Stop(p) /\ UNCHANGED row

PassStep(p) == List(p) \/ Remove(p) \/ Revoke(p) \/ Keep(p) \/ Finish(p) \/ \E r \in Runs : Confirm(p, r)

Next ==
  \/ \E r \in Runs : \/ Heartbeat(r) \/ Publish(r) \/ WorkerFails(r) \/ Delete(r)
                     \/ LeaseElapses(r) \/ Ages(r) \/ Rests(r)
  \/ \E p \in Passes : Begin(p) \/ PassStep(p) \/ Abort(p)

Spec == Init /\ [][Next]_vars

\* Passes are started again and again and none waits for ever.  Not every pass is cut
\* off before its first run, and not every cleanup of a run between its two writes.
Fairness ==
  /\ WF_vars(\E p \in Passes : Begin(p))
  /\ \A p \in Passes : WF_vars(PassStep(p))
  /\ SF_vars(\E p \in Passes : List(p))
  /\ SF_vars(\E p \in Passes : Remove(p) \/ Revoke(p))
  /\ \A r \in Runs : /\ SF_vars(\E p \in Passes : Confirm(p, r))
                     /\ WF_vars(Rests(r)) /\ WF_vars(LeaseElapses(r))

FairSpec == Spec /\ Fairness

-----------------------------------------------------------------------------
(* Properties *)

Statuses == {Working, "ready", "failed", "cleanup_pending", "expired", "removed"}

TypeOK ==
  /\ row \in [Runs -> [status : Statuses, lease : {"none", "live", "elapsed"},
                       terminal : {"none", "failed", "expired"},
                       aged : BOOLEAN, rested : BOOLEAN]]
  /\ at \in [Runs \cup Passes -> 0..Cardinality(Runs \cup Passes)]
  /\ pc \in [Passes -> {"idle", "list", "next", "confirm"}]
  /\ \A p \in Passes :
       /\ Len(todo[p]) <= Batch
       /\ \A i \in DOMAIN todo[p] :
            todo[p][i] \in [run : Runs, status : Statuses, terminal : {"none", "failed", "expired"}]
       /\ pc[p] \in {"idle", "list"} => todo[p] = <<>>
       /\ pc[p] = "confirm" => todo[p] # <<>>

\* A run that nothing keeps from being cleaned is cleaned, whatever runs are stuck
\* and however often passes are cut off: a full batch of hopeless runs does not keep
\* the others from their turn.
PendingRunsEnd ==
  \A r \in Runs \ Stuck :
    row[r].status = "cleanup_pending" ~> row[r].status \in {"failed", "expired", "removed"}

\* A run whose worker died in its lease does not stay as it is.
OrphansAreFound ==
  \A r \in Runs :
    row[r].status = Working /\ row[r].lease = "elapsed"
      ~> (row[r].status # Working \/ row[r].lease = "live")

\* A run that is to expire does not end as failed, although a pass may still want
\* that by what it has listed.
ExpiryWins ==
  [][\A r \in Runs :
       row[r].terminal = "expired" => row'[r].terminal = "expired" \/ row'[r].status = "expired"]_vars
=============================================================================
