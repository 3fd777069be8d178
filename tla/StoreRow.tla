------------------------------ MODULE StoreRow ------------------------------
(***************************************************************************)
(* One row of the runs table as its writers see it: the processing lease,  *)
(* the fence, and which updates have been applied to it.  What an update   *)
(* does otherwise is in the modules of the run.                            *)
(***************************************************************************)
EXTENDS Integers

CONSTANTS
  Writers,   \* calls of NeonRunStore.update and of updateIfProcessingLeaseExpired
  Claimed,   \* those that carry the claim of a worker
  Final,     \* those among them that end the run and give the lease back
  Expiring   \* the calls of updateIfProcessingLeaseExpired

ASSUME WritersAssumption ==
  /\ Claimed \subseteq Writers /\ Expiring \subseteq Writers
  /\ Final \subseteq Claimed /\ Claimed \cap Expiring = {}

NoLease == 0

\* The row as it was inserted.  Leases are numbered by their fence, deadlines by
\* the clock; times counts how often an update was applied.
FirstRow ==
  [status |-> "queued", holder |-> NoLease, fence |-> 0, deadline |-> NoLease,
   times |-> [p \in Writers |-> 0]]

Statuses == {"queued", "leased", "pending", "ended", "removed"}

Exists(r) == r.status # "removed"

\* What a call is made with: a claim is some lease that was given, which need not be
\* the present one; a conditional call has the time it was made.
NoCall == [lease |-> NoLease, at |-> 0]
Calls(p, r, now) ==
  IF p \in Claimed THEN {[NoCall EXCEPT !.lease = l] : l \in 1..r.fence}
  ELSE IF p \in Expiring THEN {[NoCall EXCEPT !.at = now]}
  ELSE {NoCall}

\* updateIfProcessingLeaseExpired acts on an elapsed lease only.
Expirable(r, at) ==
  /\ r.status \in {"leased", "pending"}
  /\ r.deadline # NoLease /\ r.deadline <= at

\* The conditions of the UPDATE statement, but for the version.
Permitted(p, call, r) ==
  /\ Exists(r)
  /\ p \in Claimed => r.holder = call.lease
  /\ p \in Expiring => Expirable(r, call.at)

\* What the updater makes of the row it is shown.
Mutated(p, r) ==
  LET counted == [r EXCEPT !.times[p] = @ + 1]
  IN IF p \in Expiring
     THEN [counted EXCEPT !.status = "pending", !.holder = NoLease,
                          !.fence = IF r.holder = NoLease THEN @ ELSE @ + 1]
     ELSE IF p \in Final
     THEN [counted EXCEPT !.status = "ended", !.holder = NoLease, !.deadline = NoLease]
     ELSE counted

\* The statements that change the row without having read it.
Claimable(r, now) ==
  \/ r.status = "queued"
  \/ r.status = "leased" /\ r.deadline <= now

Leased(r, now) ==
  [r EXCEPT !.status = "leased", !.holder = r.fence + 1, !.fence = r.fence + 1,
            !.deadline = now + 1]

Beaten(r, now) == [r EXCEPT !.deadline = now + 1]

Gone(r) == [r EXCEPT !.status = "removed", !.holder = NoLease]
=============================================================================
