---------------------------- MODULE AtomicUpdate ----------------------------
(***************************************************************************)
(* What the modules of the run take NeonRunStore.update to be: one step    *)
(* that reads the row, checks the claim and writes.  The caller learns of  *)
(* it, or sees an exception, whether or not the step was taken.            *)
(***************************************************************************)
EXTENDS StoreRow

CONSTANT MaxTime   \* bound on the clock

VARIABLES
  row,      \* the row
  now,      \* the clock
  call,     \* the claim and the time each call was made with
  result    \* what each call has come to

vars == <<row, now, call, result>>

Init ==
  /\ row = FirstRow /\ now = 1
  /\ call = [p \in Writers |-> NoCall]
  /\ result = [p \in Writers |-> "idle"]

Ends(p, outcomes) == \E o \in outcomes : result' = [result EXCEPT ![p] = o]

Begin(p) ==
  /\ result[p] = "idle"
  /\ \E made \in Calls(p, row, now) : call' = [call EXCEPT ![p] = made]
  /\ Ends(p, {"running"})
  /\ UNCHANGED <<row, now>>

Apply(p) ==
  /\ result[p] = "running" /\ Permitted(p, call[p], row)
  /\ row' = Mutated(p, row)
  /\ Ends(p, {"returned", "threw"})
  /\ UNCHANGED <<now, call>>

Decline(p) ==
  /\ result[p] = "running" /\ p \in Expiring
  /\ Exists(row) /\ ~Expirable(row, call[p].at)
  /\ Ends(p, {"declined"})
  /\ UNCHANGED <<row, now, call>>

Fail(p) ==
  /\ result[p] = "running"
  /\ Ends(p, {"threw"})
  /\ UNCHANGED <<row, now, call>>

ClaimProcessing ==
  /\ Claimable(row, now) /\ row' = Leased(row, now)
  /\ UNCHANGED <<now, call, result>>

Heartbeat ==
  /\ row.status = "leased" /\ row' = Beaten(row, now)
  /\ UNCHANGED <<now, call, result>>

Remove ==
  /\ Exists(row) /\ row' = Gone(row)
  /\ UNCHANGED <<now, call, result>>

Tick ==
  /\ now < MaxTime /\ now' = now + 1
  /\ UNCHANGED <<row, call, result>>

Next ==
  \/ \E p \in Writers : Begin(p) \/ Apply(p) \/ Decline(p) \/ Fail(p)
  \/ ClaimProcessing \/ Heartbeat \/ Remove \/ Tick

Spec == Init /\ [][Next]_vars
=============================================================================
