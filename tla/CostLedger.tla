----------------------------- MODULE CostLedger -----------------------------
(***************************************************************************)
(* What one analysis spends, what its row says it may have spent, and what *)
(* its reservation is settled at: assertPaidProviderPlan, the parallel     *)
(* paid parser calls, the paid model batches, the release gate and the     *)
(* catch clause of processRun (src/lib/pipeline.ts), the two ledger        *)
(* operations of src/lib/runs/paid-cost-ledger.ts, the batch loop of       *)
(* src/lib/providers/openai.ts and settle of src/lib/security/budget.ts.   *)
(*                                                                         *)
(* A paid call is an attempt.  Its event is committed as pending, with the *)
(* most the call may cost, before the call is made, and replaced by what   *)
(* the provider reported.  claimProcessing refuses a row with a paid       *)
(* attempt, so one worker makes them all; a DELETE or an expiry may take   *)
(* its lease away between any two of its steps.  Sources and their cleanup *)
(* are in RunProcessing: here a cleanup that fails is one more failing     *)
(* step.                                                                   *)
(***************************************************************************)
EXTENDS Integers, Sequences, FiniteSetsExt

CONSTANTS
  N,              \* documents, each parsed by one paid call
  Batch,          \* MONID_PARSE_CONCURRENCY
  ParseReserve,   \* MONID_PARSE_RESERVE_MICRO_USD
  ParseCharges,   \* what the parser may charge for a call
  InputTokens,    \* of each model batch, counted by the preflight
  OutputFloors,   \* the output tokens each model batch needs at least
  LaterFloors,    \* what the batches after each one need together
  OutputTokens,   \* OPENAI_MAX_OUTPUT_TOKENS, over all batches
  ExcessTokens,   \* output tokens the model may report beyond a batch's maximum
  ModelReserve,   \* OPENAI_RUN_RESERVE_MICRO_USD
  Infra,          \* the infrastructure estimate
  Reserved,       \* reservedMicroUsd of the row and of its budget reservation
  MaxRunCost,     \* MAX_RUN_COST_MICRO_USD
  MaxFaults       \* bound on lost acknowledgements, refused calls and expired deadlines

Docs == 1..N
Batches == 1..Len(InputTokens)
Parse(d) == <<"parse", d>>
Model(k) == <<"model", k>>
Attempts == {Parse(d) : d \in Docs} \cup {Model(k) : k \in Batches}

ASSUME LedgerAssumption ==
  /\ N \in Nat \ {0} /\ Batch \in Nat \ {0}
  /\ ParseReserve \in Nat /\ ParseCharges \subseteq Nat /\ 0 \in ParseCharges
  /\ InputTokens \in Seq(Nat) /\ InputTokens # <<>>
  /\ OutputFloors \in [Batches -> Nat \ {0}] /\ LaterFloors \in [Batches -> Nat]
  /\ \A k \in Batches : LaterFloors[k] = IF k = Len(InputTokens) THEN 0
                                          ELSE OutputFloors[k + 1] + LaterFloors[k + 1]
  /\ {OutputTokens, ExcessTokens, ModelReserve, Infra, Reserved, MaxRunCost, MaxFaults}
       \subseteq Nat

VARIABLES
  row,      \* the lease, the status and the cost fields of the run's row
  wk,       \* what the worker has in memory
  charged,  \* what the provider has really charged for each attempt
  settled,  \* settled_micro_usd of the reservation
  refused,  \* has a check of the ledger refused a commitment
  faults

vars == <<row, wk, charged, settled, refused, faults>>

Unsettled == -1

\* A cost event: actual_micro_usd, or else estimated_micro_usd, is its amount.
NoEvent == [state |-> "none", amount |-> 0]
Event(state, amount) == [state |-> state, amount |-> amount]
EventStates == {"none", "pending", "succeeded", "failed"}

Total(events) == MapThenSumSet(LAMBDA a : events[a].amount, Attempts)
Spent == MapThenSumSet(LAMBDA a : charged[a], Attempts)

\* A document of parseDocument, and the steps of the worker.
DocSteps == {"waiting", "ready", "dispatch", "capture", "parsed", "failed"}
WorkerSteps == {"plan", "parse", "merge", "preflight", "markBatch", "call", "settleBatch",
                "billed", "lost", "verify", "settle", "publish", "recover",
                "settleFailure", "over"}

Init ==
  /\ row = [lease |-> "held", status |-> "running", infra |-> 0, cost |-> 0,
            events |-> [a \in Attempts |-> NoEvent]]
  /\ wk = [at |-> "plan", first |-> 1, doc |-> [d \in Docs |-> "waiting"],
           mem |-> [a \in Attempts |-> NoEvent],
           k |-> 1, used |-> 0, started |-> {}, outcome |-> NoEvent, due |-> 0]
  /\ charged = [a \in Attempts |-> 0]
  /\ settled = Unsettled
  /\ refused = "no"
  /\ faults = 0

-----------------------------------------------------------------------------
(* Prices *)

\* estimateOpenAiCostMicroUsd: 0.75 and 4.5 micro-USD a token, rounded up.
Price(in, out) == (3 * in + 18 * out + 3) \div 4

InputFrom(k) == MapThenSumSet(LAMBDA i : InputTokens[i], k..Len(InputTokens))

\* estimateOpenAiMultiBatchCostMicroUsd of the batches from k on.
MultiPrice(k, out) ==
  IF k > Len(InputTokens) THEN 0
  ELSE Price(InputFrom(k), out) + Len(InputTokens) - k

\* protectedOutputTokenCap: what is left once the floors of later batches are kept.
OutputCap(k, used) == OutputTokens - used - LaterFloors[k]
MaxCost(k, used) == Price(InputTokens[k], OutputCap(k, used))

\* The usage of a call that reported none.
NoUsage == -1

\* observedCostOrMaximum: a call without usage is taken to have cost its maximum.
ObservedOrMaximum(k, used, tokens) ==
  IF tokens = NoUsage THEN MaxCost(k, used) ELSE Price(InputTokens[k], tokens)

-----------------------------------------------------------------------------
(* The store *)

NoFault == UNCHANGED faults
Fault == faults < MaxFaults /\ faults' = faults + 1

\* A write under the processing lease: it commits and is acknowledged, it commits
\* and the answer is lost, or it is refused because the lease is gone, the row
\* was contended five times or the database failed.
Guarded(new, done, failed) ==
  \/ row.lease = "held" /\ row' = new /\ wk' = done /\ NoFault
  \/ row.lease = "held" /\ row' = new /\ wk' = failed /\ Fault
  \/ row.lease = "held" /\ row' = row /\ wk' = failed /\ Fault
  \/ row.lease = "gone" /\ row' = row /\ wk' = failed /\ NoFault

\* Mutant: the ledger never refuses.
Fits_Always(cost, remaining) == cost >= 0

\* assertDurableCommitmentFits
Fits(cost, remaining) ==
  /\ Reserved <= MaxRunCost
  /\ cost + remaining <= Reserved

WithEvent(a, event) ==
  LET events == [row.events EXCEPT ![a] = event]
  IN [row EXCEPT !.events = events, !.cost = Total(events)]

\* An attempt is recorded once, and only while everything still to come fits.
MarkPending(a, amount, remaining, done, failed) ==
  LET new == WithEvent(a, Event("pending", amount))
  IN IF row.events[a].state = "none" /\ Fits(new.cost, remaining)
     THEN Guarded(new, done, failed) /\ UNCHANGED refused
     ELSE /\ row' = row /\ wk' = failed /\ NoFault
          /\ refused' = IF row.events[a].state = "none" THEN "yes" ELSE refused

Goto(step) == [wk EXCEPT !.at = step]

\* mergeAttemptCosts: what the worker holds in memory replaces what the row says.
Merged(events) ==
  [a \in Attempts |-> IF wk.mem[a] = NoEvent THEN events[a] ELSE wk.mem[a]]

-----------------------------------------------------------------------------
(* processRun: the plan and the parser calls *)

ParsePlan == N * ParseReserve + ModelReserve

\* assertPaidProviderPlan: before anything is paid for, all of it must fit.
Plan ==
  /\ wk.at = "plan"
  /\ wk' = IF Fits(ParsePlan + Infra, 0)
           THEN [wk EXCEPT !.at = "parse",
                           !.doc = [d \in Docs |-> IF d <= Batch THEN "ready" ELSE "waiting"]]
           ELSE Goto("recover")
  /\ UNCHANGED <<row, charged, settled, refused, faults>>

Step(d, step) == [wk EXCEPT !.doc[d] = step]
Remember(d, step, event) == [wk EXCEPT !.doc[d] = step, !.mem[Parse(d)] = event]

\* The call never starts: too little time is left, or signing the URL failed.
NotStarted(d) ==
  /\ wk.at = "parse" /\ wk.doc[d] = "ready"
  /\ wk' = Step(d, "failed") /\ Fault
  /\ UNCHANGED <<row, charged, settled, refused>>

StartedDocs == {d \in Docs : row.events[Parse(d)].state # "none"}

\* Mutant: the attempt about to start is also counted among those to come.
MarkStarted_CountsTwice(d) ==
  /\ wk.at = "parse" /\ wk.doc[d] = "ready"
  /\ MarkPending(Parse(d), ParseReserve,
                 (N - Cardinality(StartedDocs)) * ParseReserve + ModelReserve,
                 Remember(d, "dispatch", Event("pending", ParseReserve)), Step(d, "failed"))
  /\ UNCHANGED <<charged, settled>>

\* Mutant: the cost of a call is committed once it is known.
MarkStarted_Unpriced(d) ==
  /\ wk.at = "parse" /\ wk.doc[d] = "ready"
  /\ MarkPending(Parse(d), 0,
                 (N - Cardinality(StartedDocs \cup {d})) * ParseReserve + ModelReserve,
                 Remember(d, "dispatch", Event("pending", ParseReserve)), Step(d, "failed"))
  /\ UNCHANGED <<charged, settled>>

\* markSourceProviderCallStarted: up to Batch documents do this at once.
MarkStarted(d) ==
  /\ wk.at = "parse" /\ wk.doc[d] = "ready"
  /\ MarkPending(Parse(d), ParseReserve,
                 (N - Cardinality(StartedDocs \cup {d})) * ParseReserve + ModelReserve,
                 Remember(d, "dispatch", Event("pending", ParseReserve)), Step(d, "failed"))
  /\ UNCHANGED <<charged, settled>>

\* The paid POST and its polls.  The parser answers with a result or a terminal
\* error, whose cost may be missing, or not at all.
Dispatch(d) ==
  /\ wk.at = "parse" /\ wk.doc[d] = "dispatch"
  /\ \E c \in ParseCharges :
       /\ charged' = [charged EXCEPT ![Parse(d)] = c]
       /\ \/ \E state \in {"succeeded", "failed"}, amount \in {c, ParseReserve} :
               /\ amount = c \/ c <= ParseReserve
               /\ wk' = Remember(d, "capture", Event(state, amount))
               /\ NoFault
          \/ wk' = Step(d, "failed") /\ Fault
  /\ UNCHANGED <<row, settled, refused>>

\* markSourceProviderResultCaptured; a result that could not be captured counts as
\* an unknown outcome, for the full reserve.
Capture(d) ==
  /\ wk.at = "parse" /\ wk.doc[d] = "capture"
  /\ LET event == wk.mem[Parse(d)]
     IN IF event.state = "succeeded"
        THEN Guarded(WithEvent(Parse(d), event), Step(d, "parsed"),
                     Remember(d, "failed", Event("pending", ParseReserve)))
        ELSE Guarded(WithEvent(Parse(d), event), Step(d, "failed"), Step(d, "failed"))
  /\ UNCHANGED <<charged, settled, refused>>

\* The source of a captured document could not be removed, or not recorded.
CleanupFails(d) ==
  /\ wk.at = "parse" /\ wk.doc[d] = "parsed" /\ d >= wk.first
  /\ wk' = Step(d, "failed") /\ Fault
  /\ UNCHANGED <<row, charged, settled, refused>>

\* A failure anywhere in a batch keeps the later batches from being paid for.
BatchEnds ==
  /\ wk.at = "parse"
  /\ \A d \in Docs : wk.doc[d] \in {"waiting", "parsed", "failed"}
  /\ LET next == wk.first + Batch
     IN wk' = IF next > N \/ \E d \in Docs : wk.doc[d] = "failed"
              THEN Goto("merge")
              ELSE [wk EXCEPT !.first = next,
                      !.doc = [d \in Docs |-> IF d >= next /\ d < next + Batch
                                              THEN "ready" ELSE wk.doc[d]]]
  /\ UNCHANGED <<row, charged, settled, refused, faults>>

\* afterSourceCleanup, which does not recompute the cost of the row.
Merge ==
  /\ wk.at = "merge"
  /\ Guarded([row EXCEPT !.events = Merged(row.events)],
             Goto(IF \A d \in Docs : wk.doc[d] = "parsed" THEN "preflight" ELSE "recover"),
             Goto("recover"))
  /\ UNCHANGED <<charged, settled, refused>>

-----------------------------------------------------------------------------
(* OpenAIResponsesAdapter.extract and the ledger callbacks it is given *)

\* All batches together must fit the model's reserve and its output tokens.
Preflight ==
  /\ wk.at = "preflight"
  /\ wk' = IF /\ OutputFloors[1] + LaterFloors[1] <= OutputTokens
              /\ MultiPrice(1, OutputTokens) <= ModelReserve
           THEN Goto("markBatch") ELSE Goto("recover")
  /\ UNCHANGED <<row, charged, settled, refused, faults>>

\* beforePaidBatchDispatch, for the batch k.
MarkBatch ==
  /\ wk.at = "markBatch"
  /\ LET k == wk.k
         cap == OutputCap(k, wk.used)
     IN IF cap < OutputFloors[k]
        THEN wk' = Goto("lost") /\ refused' = "yes" /\ UNCHANGED <<row, faults>>
        ELSE MarkPending(Model(k), MaxCost(k, wk.used),
                         MultiPrice(k + 1, LaterFloors[k]),
                         [wk EXCEPT !.at = "call", !.started = @ \cup {k}], Goto("lost"))
  /\ UNCHANGED <<charged, settled>>

Outcome(state, amount, used) ==
  [wk EXCEPT !.at = "settleBatch", !.outcome = Event(state, amount), !.used = @ + used]

\* One request without retries.  It may be out of time before it is sent, end
\* without an answer or usage, or answer with what it used; an answer that is
\* unusable, or that used more than it was allowed, fails the batch.  The input
\* tokens it reports are those that were counted before it was sent.
CallBatch ==
  /\ wk.at = "call"
  /\ LET k == wk.k
         cap == OutputCap(k, wk.used)
         Charge(out) == charged' = [charged EXCEPT ![Model(k)] = Price(InputTokens[k], out)]
     IN \/ /\ wk' = Outcome("failed", 0, 0)
           /\ UNCHANGED charged
           /\ Fault
        \/ \E out \in 0..cap, state \in {"succeeded", "failed"} :
             /\ Charge(out)
             /\ \/ wk' = Outcome(state, ObservedOrMaximum(k, wk.used, NoUsage), cap)
                \/ wk' = Outcome(state, ObservedOrMaximum(k, wk.used, out), out)
             /\ IF state = "failed" THEN Fault ELSE NoFault
        \/ \E out \in (cap + 1)..(cap + ExcessTokens) :
             /\ Charge(out)
             /\ wk' = Outcome("failed", ObservedOrMaximum(k, wk.used, out), cap)
             /\ NoFault
  /\ UNCHANGED <<row, settled, refused>>

\* settlePaidBatch: what was spent is committed first, then checked against what
\* is still to come.
SettleBatch ==
  /\ wk.at = "settleBatch"
  /\ LET k == wk.k
         last == k = Len(InputTokens)
         succeeded == wk.outcome.state = "succeeded"
         new == WithEvent(Model(k), wk.outcome)
         remaining == IF succeeded /\ ~last
                      THEN MultiPrice(k + 1, OutputTokens - wk.used) ELSE 0
         fits == Fits(new.cost, remaining)
     IN /\ Guarded(new,
                   IF ~fits \/ ~succeeded THEN Goto("lost")
                   ELSE IF last THEN Goto("billed")
                   ELSE [wk EXCEPT !.at = "markBatch", !.k = k + 1],
                   Goto("lost"))
        /\ refused' = IF fits THEN refused ELSE "yes"
  /\ UNCHANGED <<charged, settled>>

\* The worker reads back what the row says of the batches it started.
WithBilled ==
  [a \in Attempts |-> IF \E k \in wk.started : a = Model(k) THEN row.events[a] ELSE wk.mem[a]]

Billed ==
  /\ wk.at = "billed"
  /\ wk' = IF \E k \in wk.started : row.events[Model(k)].state = "pending"
           THEN Goto("lost")
           ELSE [wk EXCEPT !.at = "verify", !.mem = WithBilled]
  /\ UNCHANGED <<row, charged, settled, refused, faults>>

\* The same after a failure, where the read itself may fail.
Lost ==
  /\ wk.at = "lost"
  /\ \/ wk' = [wk EXCEPT !.at = "recover", !.mem = WithBilled] /\ NoFault
     \/ wk' = Goto("recover") /\ Fault
  /\ UNCHANGED <<row, charged, settled, refused>>

-----------------------------------------------------------------------------
(* The release gate, the catch clause and the settlement of the reservation *)

\* The memory of the worker becomes the cost ledger of the row.
Verify ==
  /\ wk.at = "verify"
  /\ LET cost == Total(wk.mem) + Infra
     IN Guarded([row EXCEPT !.events = wk.mem, !.infra = Infra, !.cost = cost],
                [wk EXCEPT !.at = "settle", !.due = cost], Goto("recover"))
  /\ UNCHANGED <<charged, settled, refused>>

Larger(a, b) == IF a >= b THEN a ELSE b

\* NeonBudgetGuard.settle refuses what exceeds the cap or the reservation.
Settleable(amount) == amount <= MaxRunCost /\ amount <= Reserved

\* ... and never lowers what was settled before.
SettleAt(amount, done, failed) ==
  \/ settled' = Larger(settled, amount) /\ wk' = done /\ NoFault
  \/ settled' = Larger(settled, amount) /\ wk' = failed /\ Fault
  \/ UNCHANGED settled /\ wk' = failed /\ Fault

\* The settlement is a gate: a result that cost too much is withheld.
Settle ==
  /\ wk.at = "settle"
  /\ IF Settleable(wk.due)
     THEN SettleAt(wk.due, Goto("publish"), Goto("recover")) /\ UNCHANGED refused
     ELSE /\ wk' = Goto("recover") /\ refused' = "yes"
          /\ UNCHANGED <<settled, faults>>
  /\ UNCHANGED <<row, charged>>

Publish ==
  /\ wk.at = "publish"
  /\ Guarded([row EXCEPT !.status = "released", !.lease = "gone"], Goto("over"), Goto("recover"))
  /\ UNCHANGED <<charged, settled, refused>>

\* A deadline has passed, the heartbeat failed, or a cleanup is not confirmed.
Interrupted ==
  /\ \/ wk.at \in {"merge", "preflight", "verify", "settle", "publish"} /\ wk' = Goto("recover")
     \/ wk.at = "markBatch" /\ wk' = Goto("lost")
  /\ Fault
  /\ UNCHANGED <<row, charged, settled, refused>>

\* Mutant: a failed run gives its reservation back.
FailureAmount_Nothing(cost) == 0

\* failureSettlementMicroUsd: a failed run keeps its whole reservation at least.
FailureAmount(cost) == Larger(Larger(cost, Total(wk.mem) + Infra), Reserved)

\* The catch clause: the failed row, or the row as it is when the write is refused.
Recover ==
  /\ wk.at = "recover"
  /\ LET events == Merged(row.events)
         new == [row EXCEPT !.events = events, !.infra = Infra, !.cost = Total(events) + Infra,
                            !.status = "failed", !.lease = "gone"]
     IN \/ /\ row.lease = "held" /\ row' = new
           /\ wk' = [wk EXCEPT !.at = "settleFailure", !.due = FailureAmount(new.cost)]
           /\ NoFault
        \/ /\ row' = row
           /\ wk' = [wk EXCEPT !.at = "settleFailure", !.due = FailureAmount(row.cost)]
           /\ IF row.lease = "held" THEN Fault ELSE NoFault
  /\ UNCHANGED <<charged, settled, refused>>

SettleFailure ==
  /\ wk.at = "settleFailure"
  /\ IF Settleable(wk.due)
     THEN SettleAt(wk.due, Goto("over"), Goto("over"))
     ELSE wk' = Goto("over") /\ UNCHANGED <<settled, faults>>
  /\ UNCHANGED <<row, charged, refused>>

\* The platform ends the function, wherever it is.
Killed ==
  /\ wk.at # "over" /\ wk' = Goto("over")
  /\ UNCHANGED <<row, charged, settled, refused, faults>>

\* A DELETE or an expiry takes the lease away.
Withdraw ==
  /\ row.lease = "held"
  /\ row' = [row EXCEPT !.lease = "gone", !.status = "withdrawn"]
  /\ UNCHANGED <<wk, charged, settled, refused, faults>>

-----------------------------------------------------------------------------
ParseDocument(d) ==
  \/ NotStarted(d) \/ MarkStarted(d) \/ Dispatch(d) \/ Capture(d) \/ CleanupFails(d)

Extract == Preflight \/ MarkBatch \/ CallBatch \/ SettleBatch \/ Billed \/ Lost

Finish == Verify \/ Settle \/ Publish \/ Interrupted \/ Recover \/ SettleFailure

Next ==
  \/ Plan \/ (\E d \in Docs : ParseDocument(d)) \/ BatchEnds \/ Merge
  \/ Extract \/ Finish \/ Killed \/ Withdraw

Spec == Init /\ [][Next]_vars

-----------------------------------------------------------------------------
(* Properties *)

Events == [state : EventStates, amount : Nat]

TypeOK ==
  /\ row \in [lease : {"held", "gone"}, status : {"running", "released", "failed", "withdrawn"},
              infra : {0, Infra}, cost : Nat, events : [Attempts -> Events]]
  /\ wk \in [at : WorkerSteps, first : Docs, doc : [Docs -> DocSteps],
             mem : [Attempts -> Events], k : Batches, used : 0..OutputTokens,
             started : SUBSET Batches, outcome : Events, due : Nat]
  /\ charged \in [Attempts -> Nat]
  /\ settled \in Nat \cup {Unsettled}
  /\ refused \in {"yes", "no"}
  /\ faults \in 0..MaxFaults

\* Providers that charge no more than they were allowed to.
Honest == ParseCharges \subseteq 0..ParseReserve /\ ExcessTokens = 0

\* At no moment has a provider charged more for an attempt than the row says it
\* may: not between the call and its capture, not after a lost answer, a kill, a
\* withdrawal, or a merge of what the worker remembers.
RowCoversSpend ==
  Honest => \A a \in Attempts : charged[a] <= row.events[a].amount

\* The daily cap adds up the settled, or else the reserved, amounts of the runs:
\* what the run counts for there is never less than what it has spent.
BudgetCoversSpend ==
  Honest => Spent <= (IF settled = Unsettled THEN Reserved ELSE settled)

\* A plan that was accepted is never refused half-way, however the parallel calls
\* interleave and whatever each of them costs within its bound: no run is paid for
\* and then failed by its own ledger.
AcceptedPlanIsNeverRefused ==
  Honest => refused = "no"

\* Even if a provider charges too much, a result is released only if all that was
\* charged is settled and within the reservation, with no attempt left pending.
ReleasedWithinReservation ==
  row.status = "released" =>
    /\ Spent + Infra <= settled /\ settled <= Reserved
    /\ \A a \in Attempts : row.events[a].state = "succeeded"

\* Overcharging stops the run: beyond the reservation it can only spend what the
\* calls of one parallel batch were overcharged, or one model batch.
ExposureIsBounded ==
  LET parseExcess == Batch * (Max(ParseCharges \cup {ParseReserve}) - ParseReserve)
      modelExcess == Price(0, ExcessTokens)
  IN Spent <= Reserved + Larger(parseExcess, modelExcess)
=============================================================================
