---------------------------- MODULE RunCreation ----------------------------
(***************************************************************************)
(* Many POST /runs at once (src/lib/runs/create.ts, createRun; create in   *)
(* src/db/neon-store.ts; src/lib/security/budget.ts): the idempotency key  *)
(* and the one active run of an owner, the daily quota of a quota key, and *)
(* the daily cap that all runs share, from the insertion to the            *)
(* settlement. RunAdmission takes the admission of one run apart, with its *)
(* lease; here it is what it shares with other runs, and a run that was    *)
(* left queued is admitted by a replay of its request.                     *)
(***************************************************************************)
EXTENDS Integers, FiniteSetsExt

CONSTANTS
  Posts,      \* requests; the run a request would insert has its name
  NoRun,
  Owner, Key, QuotaKey,  \* of each request
  Hashes,     \* what the requests may ask for: functions to request hashes
  NoKey,
  RunsPerDay, \* of one quota key
  Price,      \* MAX_RUN_COST_MICRO_USD, reserved for each run
  DailyCap,   \* DAILY_COST_CAP_MICRO_USD
  Costs,      \* what a run may come to cost
  LastDay,
  MaxFaults

RunCreationAssumption ==
  /\ IsFiniteSet(Posts) /\ NoRun \notin Posts
  /\ RunsPerDay \in Nat \ {0} /\ Price \in Nat /\ DailyCap \in Nat
  /\ Costs \subseteq 0..Price
  /\ LastDay \in Nat /\ MaxFaults \in Nat

VARIABLES
  run,     \* rows: status, the day of createdAt, whether the key is still in it
  reserve, \* rows of budget_reservations: day, settled (-1 while it is not)
  work,    \* what the Workflow of each run has come to
  spent,   \* what the run has really cost
  hash,    \* what each request asks for
  pc,      \* where each request and the recovery is, or how it was answered
  target,  \* the run it works on, or was answered with
  today, faults

vars == <<run, reserve, work, spent, hash, pc, target, today, faults>>

Answers == {"answered", "conflict", "busy", "retry", "refused", "lost"}
Days == 0..LastDay
Unsettled == -1
NoReserve == [day |-> -1, settled |-> Unsettled]
Active == {"queued", "running"}
Rows == {r \in Posts : run[r].status \notin {"none", "removed"}}

Init ==
  /\ run = [r \in Posts |-> [status |-> "none", day |-> 0, keyed |-> FALSE]]
  /\ reserve = [r \in Posts |-> NoReserve]
  /\ work = [r \in Posts |-> "none"]
  /\ spent = [r \in Posts |-> 0]
  /\ hash \in Hashes
  /\ pc = [p \in Posts |-> "idle"]
  /\ target = [p \in Posts |-> NoRun]
  /\ today = 0 /\ faults = 0

Move(p, step) == pc' = [pc EXCEPT ![p] = step]

Answer(p, what) ==
  /\ Move(p, what)
  /\ target' = IF what = "answered" THEN target ELSE [target EXCEPT ![p] = NoRun]

Onward(p, step) == Move(p, step) /\ UNCHANGED target

Money == <<reserve, work, spent, hash>>

Fault == faults < MaxFaults /\ faults' = faults + 1

-----------------------------------------------------------------------------
(* Insertion *)

SameKey(q) ==
  {r \in Rows : Key[q] # NoKey /\ run[r].keyed /\ Owner[r] = Owner[q] /\ Key[r] = Key[q]}

ActiveOf(owner) == {r \in Rows : Owner[r] = owner /\ run[r].status \in Active}

\* Mutant: the keys of runs that ended are free again.
Conflicts_ActiveOnly(q) == ActiveOf(Owner[q]) # {}

\* The two unique indexes.
Conflicts(q) == SameKey(q) # {} \/ ActiveOf(Owner[q]) # {}

Insert(q) ==
  /\ pc[q] = "idle" /\ ~Conflicts(q)
  /\ run' = [run EXCEPT ![q] = [status |-> "queued", day |-> today, keyed |-> Key[q] # NoKey]]
  /\ target' = [target EXCEPT ![q] = q]
  /\ Move(q, "reserve")
  /\ UNCHANGED <<Money, today, faults>>

InsertMisses(q) ==
  /\ pc[q] = "idle" /\ Conflicts(q)
  /\ Move(q, IF Key[q] = NoKey THEN "active" ELSE "lookup")
  /\ UNCHANGED <<run, Money, target, today, faults>>

\* Mutant: a replay is not compared with the request it repeats.
Repeats_AnyRequest(q, r) == TRUE

Repeats(q, r) == hash[q] = hash[r]

\* A run that was inserted but not dispatched is admitted on.
Lookup(q) ==
  /\ pc[q] = "lookup"
  /\ \/ \E r \in SameKey(q) :
          /\ Repeats(q, r)
          /\ target' = [target EXCEPT ![q] = r]
          /\ Move(q, IF run[r].status = "queued" THEN "reserve" ELSE "answered")
     \/ (\E r \in SameKey(q) : ~Repeats(q, r)) /\ Answer(q, "conflict")
     \/ SameKey(q) = {} /\ Onward(q, "active")
  /\ UNCHANGED <<run, Money, today, faults>>

LookupActive(q) ==
  /\ pc[q] = "active"
  /\ Answer(q, IF ActiveOf(Owner[q]) # {} THEN "busy" ELSE "retry")
  /\ UNCHANGED <<run, Money, today, faults>>

-----------------------------------------------------------------------------
(* budget.reserve: under one lock per day *)

Reserved(day) == {r \in Rows : reserve[r].day = day}

\* Mutant: a reservation that is not settled yet counts nothing.
Committed_Settled(day) ==
  MapThenSumSet(LAMBDA r : IF reserve[r].settled = Unsettled THEN 0 ELSE reserve[r].settled,
                Reserved(day))

Committed(day) ==
  MapThenSumSet(LAMBDA r : IF reserve[r].settled = Unsettled THEN Price ELSE reserve[r].settled,
                Reserved(day))

CreatedToday(quota) == {r \in Rows : QuotaKey[r] = quota /\ run[r].day = today}

\* Mutant: the count leaves out the run that asks.
WithinQuota_Excluding(r) == Cardinality(CreatedToday(QuotaKey[r]) \ {r}) <= RunsPerDay

\* The run that asks is among the counted, if it was created today.
WithinQuota(r) == Cardinality(CreatedToday(QuotaKey[r])) <= RunsPerDay

Granted(r) == Committed(today) + Price <= DailyCap /\ WithinQuota(r)

\* An exact reservation of the run is as good as a new one; a run that is gone
\* cannot have one.
Reserve(p) ==
  /\ pc[p] = "reserve"
  /\ LET r == target[p]
     IN \/ /\ r \in Rows /\ reserve[r] = NoReserve /\ Granted(r)
           /\ reserve' = [reserve EXCEPT ![r].day = today]
           /\ \/ Move(p, "dispatch") /\ UNCHANGED faults
              \/ Fault /\ Move(p, "fail")
        \/ /\ r \in Rows /\ reserve[r] # NoReserve
           /\ Move(p, "dispatch") /\ UNCHANGED <<reserve, faults>>
        \/ /\ r \notin Rows \/ (reserve[r] = NoReserve /\ ~Granted(r))
           /\ Move(p, "fail") /\ UNCHANGED <<reserve, faults>>
  /\ UNCHANGED <<run, work, spent, hash, target, today>>

\* claimAnalysisDispatch and start: of a run that is still queued, once.
Dispatch(p) ==
  /\ pc[p] = "dispatch"
  /\ IF run[target[p]].status = "queued"
     THEN /\ run' = [run EXCEPT ![target[p]].status = "running"]
          /\ work' = [work EXCEPT ![target[p]] = "working"]
     ELSE UNCHANGED <<run, work>>
  /\ Answer(p, "answered")
  /\ UNCHANGED <<reserve, spent, hash, today, faults>>

-----------------------------------------------------------------------------
(* failAdmission *)

Greatest(a, b) == IF a > b THEN a ELSE b

\* settle: no reservation, no settlement; and never less than before.
Settled(r, amount) ==
  IF r \in Rows /\ reserve[r] # NoReserve
  THEN reserve' = [reserve EXCEPT ![r].settled = Greatest(@, amount)]
  ELSE UNCHANGED reserve

FailRun(p) ==
  /\ pc[p] = "fail"
  /\ IF target[p] \in Rows /\ run[target[p]].status = "queued"
     THEN /\ run' = [run EXCEPT ![target[p]].status = "failed"]
          /\ Onward(p, "release")
     ELSE UNCHANGED run /\ Answer(p, "answered")
  /\ UNCHANGED <<Money, today, faults>>

Release(p) ==
  /\ pc[p] = "release"
  /\ Settled(target[p], 0)
  /\ IF run[target[p]].keyed
     THEN Answer(p, "refused")
     ELSE Onward(p, "remove")
  /\ UNCHANGED <<run, work, spent, hash, today, faults>>

\* Nobody can have been told of a run without a key. Its reservation goes too.
RemoveRun(p) ==
  /\ pc[p] = "remove"
  /\ run' = [run EXCEPT ![target[p]].status = "removed"]
  /\ reserve' = [reserve EXCEPT ![target[p]] = NoReserve]
  /\ Answer(p, "refused")
  /\ UNCHANGED <<work, spent, hash, today, faults>>

Die(p) ==
  /\ pc[p] \notin {"idle"} \cup Answers /\ Fault
  /\ Answer(p, "lost")
  /\ UNCHANGED <<run, Money, today>>

-----------------------------------------------------------------------------
(* The run, its owner and the day *)

Pay(r) ==
  /\ work[r] = "working" /\ work' = [work EXCEPT ![r] = "paid"]
  /\ \E cost \in Costs : spent' = [spent EXCEPT ![r] = cost]
  /\ UNCHANGED <<run, reserve, hash, pc, target, today, faults>>

\* The gate of the release: settled at what it cost, before the result is shown.
SettleCost(r) ==
  /\ work[r] = "paid" /\ work' = [work EXCEPT ![r] = "settled"]
  /\ Settled(r, spent[r])
  /\ UNCHANGED <<run, spent, hash, pc, target, today, faults>>

Publish(r) ==
  /\ work[r] = "settled" /\ run[r].status = "running"
  /\ run' = [run EXCEPT ![r].status = "ready"]
  /\ work' = [work EXCEPT ![r] = "over"]
  /\ UNCHANGED <<reserve, spent, hash, pc, target, today, faults>>

\* Mutant: a failed run is settled at nothing.
FailureSettlement_Zero == 0

\* A live run that fails keeps its whole reservation, even after SettleCost.
FailureSettlement == Price

FailWork(r) ==
  /\ work[r] \in {"working", "paid", "settled"}
  /\ run' = IF run[r].status = "running" THEN [run EXCEPT ![r].status = "failed"] ELSE run
  /\ work' = [work EXCEPT ![r] = "over"]
  /\ Settled(r, FailureSettlement)
  /\ UNCHANGED <<spent, hash, pc, target, today, faults>>

\* DELETE or retention: the key is scrubbed with the rest. The row and its
\* reservation stay for thirty days.
Expire(r) ==
  /\ r \in Rows /\ run[r].status # "expired"
  /\ run' = [run EXCEPT ![r].status = "expired", ![r].keyed = FALSE]
  /\ UNCHANGED <<Money, pc, target, today, faults>>

NextDay ==
  /\ today < LastDay /\ today' = today + 1
  /\ UNCHANGED <<run, Money, pc, target, faults>>

PostStep(q) == Insert(q) \/ InsertMisses(q) \/ Lookup(q) \/ LookupActive(q)

AdmissionStep(p) ==
  Reserve(p) \/ Dispatch(p) \/ FailRun(p) \/ Release(p) \/ RemoveRun(p) \/ Die(p)

RunStep(r) ==
  Pay(r) \/ SettleCost(r) \/ Publish(r) \/ FailWork(r) \/ Expire(r)

Next ==
  \/ \E q \in Posts : PostStep(q)
  \/ \E p \in Posts : AdmissionStep(p)
  \/ \E r \in Posts : RunStep(r)
  \/ NextDay

Spec == Init /\ [][Next]_vars

-----------------------------------------------------------------------------
(* Properties *)

TypeOK ==
  /\ run \in [Posts -> [status : {"none", "queued", "running", "ready", "failed", "expired",
                                  "removed"}, day : Days, keyed : BOOLEAN]]
  /\ reserve \in [Posts -> [day : Days \cup {-1}, settled : 0..Price \cup {Unsettled}]]
  /\ work \in [Posts -> {"none", "working", "paid", "settled", "over"}]
  /\ spent \in [Posts -> 0..Price]
  /\ hash \in Hashes
  /\ pc \in [Posts -> {"idle", "lookup", "active", "reserve", "dispatch", "fail", "release",
                       "remove"} \cup Answers]
  /\ target \in [Posts -> Posts \cup {NoRun}]
  /\ today \in Days /\ faults \in 0..MaxFaults

\* What the runs of a day really cost stays within the cap of the day, though
\* reservations are released, settled low and raised again while others reserve.
SpendWithinCap ==
  \A day \in Days :
    MapThenSumSet(LAMBDA r : spent[r], {r \in Posts : reserve[r].day = day}) <= DailyCap

\* Of the runs created and admitted on one day, a quota key dispatches no more than
\* its quota, though rejected runs leave the count again.
AdmittedWithinQuota ==
  \A quota \in {QuotaKey[q] : q \in Posts}, day \in Days :
    Cardinality({r \in Posts : /\ QuotaKey[r] = quota /\ work[r] # "none"
                               /\ run[r].day = day /\ reserve[r].day = day}) <= RunsPerDay

\* A run is dispatched only with a reservation that still holds its price or what
\* it was settled at: no release races its dispatch.
DispatchIsFunded ==
  \A r \in Posts : work[r] # "none" =>
    reserve[r] # NoReserve /\ (reserve[r].settled = Unsettled \/ reserve[r].settled >= spent[r])

\* Two requests with one key are answered with one run, and only if they ask for the
\* same, for as long as that run keeps its key.
KeyedAnswersAgree ==
  \A p, q \in Posts :
    /\ pc[p] = "answered" /\ pc[q] = "answered"
    /\ Key[p] # NoKey /\ Owner[p] = Owner[q] /\ Key[p] = Key[q]
    /\ run[target[p]].keyed /\ run[target[q]].keyed
    => target[p] = target[q] /\ hash[p] = hash[q]
=============================================================================
