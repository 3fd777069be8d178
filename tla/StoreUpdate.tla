---------------------------- MODULE StoreUpdate ----------------------------
(***************************************************************************)
(* NeonRunStore.update and updateIfProcessingLeaseExpired as they are: a   *)
(* SELECT, the updater, an UPDATE on the version that was read, and up to  *)
(* Attempts rounds of that, with every other writer of the row in between  *)
(* (src/db/neon-store.ts).                                                 *)
(***************************************************************************)
EXTENDS StoreRow

CONSTANTS
  Attempts,    \* rounds of the loop
  MaxTime,     \* bound on the clock
  MaxVersion   \* bound on the version, for the writers that do not end

ASSUME BoundsAssumption == Attempts \in Nat \ {0} /\ MaxTime \in Nat /\ MaxVersion \in Nat

VARIABLES
  row, version,   \* the stored row and its version column
  now,            \* the clock
  call,           \* the claim and the time each call was made with
  pc,             \* where each call is
  copy,           \* the row and version each call has read
  attempt,        \* the rounds each call has lost
  began           \* the version when each call was made, for the properties

vars == <<row, version, now, call, pc, copy, attempt, began>>

NoCopy == [row |-> FirstRow, version |-> 0]

Init ==
  /\ row = FirstRow /\ version = 0 /\ now = 1
  /\ call = [p \in Writers |-> NoCall]
  /\ pc = [p \in Writers |-> "idle"]
  /\ copy = [p \in Writers |-> NoCopy]
  /\ attempt = [p \in Writers |-> 0]
  /\ began = [p \in Writers |-> 0]

Goto(p, step) == pc' = [pc EXCEPT ![p] = step]

\* A call that is over forgets what it has read.
Over(p, outcome) == Goto(p, outcome) /\ copy' = [copy EXCEPT ![p] = NoCopy]

Begin(p) ==
  /\ pc[p] = "idle" /\ Goto(p, "read")
  /\ \E made \in Calls(p, row, now) : call' = [call EXCEPT ![p] = made]
  /\ began' = [began EXCEPT ![p] = version]
  /\ UNCHANGED <<row, version, now, copy, attempt>>

\* Without a row the call throws; with a live lease the conditional one declines.
Read(p) ==
  /\ pc[p] = "read"
  /\ \/ ~Exists(row) /\ Over(p, "threw")
     \/ /\ Exists(row) /\ p \in Expiring /\ ~Expirable(row, call[p].at)
        /\ Over(p, "declined")
     \/ /\ Exists(row) /\ (p \in Expiring => Expirable(row, call[p].at))
        /\ copy' = [copy EXCEPT ![p] = [row |-> row, version |-> version]]
        /\ Goto(p, "write")
  /\ UNCHANGED <<row, version, now, call, attempt, began>>

Commit(p) ==
  /\ row' = Mutated(p, copy[p].row) /\ version' = version + 1
  /\ \E outcome \in {"returned", "threw"} : Over(p, outcome)
  /\ UNCHANGED attempt

Retry(p, step) ==
  /\ attempt' = [attempt EXCEPT ![p] = @ + 1]
  /\ IF attempt[p] + 1 = Attempts THEN Over(p, "threw") ELSE Goto(p, step) /\ UNCHANGED copy
  /\ UNCHANGED <<row, version>>

\* Mutant: the UPDATE is not conditional on the version.
Write_AnyVersion(p) ==
  /\ pc[p] = "write"
  /\ IF Permitted(p, call[p], row) THEN Commit(p) ELSE Retry(p, "read")
  /\ UNCHANGED <<now, call, began>>

\* Mutant: a lost round is repeated with the row it was lost with.
Write_SameCopy(p) ==
  /\ pc[p] = "write"
  /\ IF version = copy[p].version /\ Permitted(p, call[p], row)
     THEN Commit(p) ELSE Retry(p, "write")
  /\ UNCHANGED <<now, call, began>>

\* Mutant: the loop checks its bound before it counts.
Write_OneMore(p) ==
  /\ pc[p] = "write"
  /\ IF version = copy[p].version /\ Permitted(p, call[p], row)
     THEN Commit(p)
     ELSE /\ attempt' = [attempt EXCEPT ![p] = @ + 1]
          /\ IF attempt[p] = Attempts THEN Over(p, "threw") ELSE Goto(p, "read") /\ UNCHANGED copy
          /\ UNCHANGED <<row, version>>
  /\ UNCHANGED <<now, call, began>>

\* The UPDATE, whose answer may be lost.
Write(p) ==
  /\ pc[p] = "write"
  /\ IF version = copy[p].version /\ Permitted(p, call[p], row)
     THEN Commit(p) ELSE Retry(p, "read")
  /\ UNCHANGED <<now, call, began>>

\* The updater throws, or a statement fails without effect.
Fail(p) ==
  /\ pc[p] \in {"read", "write"} /\ Over(p, "threw")
  /\ UNCHANGED <<row, version, now, call, attempt, began>>

\* Every other statement that changes the row counts its version up.
Statement(r) ==
  /\ version < MaxVersion /\ row' = r /\ version' = version + 1
  /\ UNCHANGED <<now, call, pc, copy, attempt, began>>

ClaimProcessing == Claimable(row, now) /\ Statement(Leased(row, now))

\* Mutant: a heartbeat does not count as a change of the row.
Heartbeat_KeepsVersion ==
  /\ row.status = "leased" /\ row' = Beaten(row, now)
  /\ UNCHANGED <<version, now, call, pc, copy, attempt, began>>

Heartbeat == row.status = "leased" /\ Statement(Beaten(row, now))

Remove ==
  /\ Exists(row) /\ row' = Gone(row)
  /\ UNCHANGED <<version, now, call, pc, copy, attempt, began>>

Tick ==
  /\ now < MaxTime /\ now' = now + 1
  /\ UNCHANGED <<row, version, call, pc, copy, attempt, began>>

Next ==
  \/ \E p \in Writers : Begin(p) \/ Read(p) \/ Write(p) \/ Fail(p)
  \/ ClaimProcessing \/ Heartbeat \/ Remove \/ Tick

Spec == Init /\ [][Next]_vars

-----------------------------------------------------------------------------
(* Properties *)

Rows == [status : Statuses, holder : Nat, fence : Nat, deadline : Nat, times : [Writers -> Nat]]

Outcomes == {"returned", "threw", "declined"}

TypeOK ==
  /\ row \in Rows /\ version \in Nat /\ now \in Nat
  /\ call \in [Writers -> [lease : Nat, at : Nat]]
  /\ pc \in [Writers -> {"idle", "read", "write"} \cup Outcomes]
  /\ copy \in [Writers -> [row : Rows, version : Nat]]
  /\ attempt \in [Writers -> 0..Attempts]
  /\ began \in [Writers -> Nat]

\* What the caller of a call sees: the rounds of the loop are one running call.
Result == [p \in Writers |-> IF pc[p] \in {"read", "write"} THEN "running" ELSE pc[p]]

Atomic == INSTANCE AtomicUpdate WITH result <- Result

\* The loop is indistinguishable from a single guarded step: whatever is written
\* between its SELECT and its UPDATE is neither overwritten nor taken for current,
\* a claim is checked against the row it changes, and so is the deadline of a lease.
RefinesAtomicUpdate == Atomic!Spec

\* A call that returned was applied once and is still to be seen in the row; one
\* that threw may have been, once; one that declined, or is still running, was not.
AppliedAsReported ==
  \A p \in Writers :
    /\ pc[p] = "returned" => row.times[p] = 1
    /\ pc[p] = "threw" => row.times[p] \in {0, 1}
    /\ pc[p] \notin {"returned", "threw"} => row.times[p] = 0

\* A call whose claim is good gives up only after losing every round to a write of
\* somebody else: a stale copy is never to blame twice.
LosesOnlyToOthers ==
  \A p \in Writers :
    Exists(row) /\ (p \in Claimed => row.holder = call[p].lease)
      => attempt[p] <= version - began[p]
=============================================================================
