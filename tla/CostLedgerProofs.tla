-------------------------- MODULE CostLedgerProofs --------------------------
(***************************************************************************)
(* That the row of a run covers what was spent on it, that its place in    *)
(* the daily cap does too, that an accepted plan is never refused, that a  *)
(* released result is settled in full and how far an overcharge can get,   *)
(* for any number of documents and batches, all prices and reserves, and   *)
(* any number of faults.  The first takes each attempt by itself (LInv);   *)
(* the second and third are about sums of attempts (AInv), for which the   *)
(* module first proves what it needs to know of sums; the fourth (RInv)    *)
(* and the fifth (XInv) trust no provider.                                 *)
(***************************************************************************)
EXTENDS CostLedger, FiniteSetTheorems, TLAPS

Steps(ss) == wk.at \in ss

\* The steps before and during the model batches: their events are only in the row.
UpToBatches == {"plan", "parse", "merge", "preflight", "markBatch", "call",
                "settleBatch", "billed", "lost"}
UpToMark == {"plan", "parse", "merge", "preflight", "markBatch"}

\* What the steps that cite it need to know of the shape of the state.  The costs
\* are sums, of which nothing has to be known.
RowShape ==
  /\ row = [lease |-> row.lease, status |-> row.status, infra |-> row.infra,
            cost |-> row.cost, events |-> row.events]
  /\ row.events \in [Attempts -> Events]
  /\ charged \in [Attempts -> Nat]

WorkerShape ==
  /\ wk = [at |-> wk.at, first |-> wk.first, doc |-> wk.doc, mem |-> wk.mem, k |-> wk.k,
           used |-> wk.used, started |-> wk.started, outcome |-> wk.outcome,
           due |-> wk.due]
  /\ wk.doc \in [Docs -> DocSteps]
  /\ wk.mem \in [Attempts -> Events]
  /\ wk.k \in Batches /\ wk.used \in Int /\ wk.started \subseteq 1..wk.k
  /\ wk.outcome \in Events

Shape == RowShape /\ WorkerShape

Covered == \A a \in Attempts : charged[a] <= row.events[a].amount

\* The worker remembers at least what a parser call was charged, and a call that
\* is about to be made is committed for the whole reserve.
ParseInv ==
  \A d \in Docs :
    /\ charged[Parse(d)] <= ParseReserve
    /\ charged[Parse(d)] <= wk.mem[Parse(d)].amount
    /\ wk.doc[d] = "dispatch" => /\ row.events[Parse(d)].amount = ParseReserve
                                 /\ wk.mem[Parse(d)].amount = ParseReserve

\* Of a model batch it remembers nothing before it has read the row back; only a
\* started batch was charged, and the one about to be called not yet.
ModelInv ==
  /\ \A k \in Batches :
       /\ k \notin wk.started => charged[Model(k)] = 0
       /\ wk.mem[Model(k)] # NoEvent => charged[Model(k)] <= wk.mem[Model(k)].amount
       /\ Steps(UpToBatches) => wk.mem[Model(k)] = NoEvent
       /\ Steps({"verify"}) => charged[Model(k)] <= wk.mem[Model(k)].amount
  /\ Steps(UpToMark) => wk.k \notin wk.started
  /\ Steps({"call"}) => /\ wk.k \in wk.started /\ charged[Model(wk.k)] = 0
                        /\ row.events[Model(wk.k)].amount = MaxCost(wk.k, wk.used)
  /\ Steps({"settleBatch"}) => /\ wk.k \in wk.started
                               /\ charged[Model(wk.k)] <= wk.outcome.amount

LInv == Shape /\ Covered /\ ParseInv /\ ModelInv

-----------------------------------------------------------------------------
(* Attempts and prices *)

LEMMA AttemptIds ==
  /\ \A d \in Docs : Parse(d) \in Attempts
  /\ \A k \in Batches : Model(k) \in Attempts
  /\ \A a \in Attempts : (\E d \in Docs : a = Parse(d)) \/ (\E k \in Batches : a = Model(k))
  /\ \A d, e \in Docs : Parse(d) = Parse(e) => d = e
  /\ \A k, l \in Batches : Model(k) = Model(l) => k = l
  /\ \A d \in Docs, k \in Batches : Parse(d) # Model(k)
BY DEF Attempts, Parse, Model

LEMMA PriceIsNatural ==
  ASSUME NEW in \in Nat, NEW out \in Nat
  PROVE  Price(in, out) \in Nat
BY DEF Price

LEMMA PriceIsMonotone ==
  ASSUME NEW in \in Nat, NEW out \in Nat, NEW cap \in Int, out <= cap
  PROVE  Price(in, out) <= Price(in, cap)
BY DEF Price

LEMMA CapIsInteger ==
  ASSUME NEW k \in Batches, NEW used \in Int
  PROVE  OutputCap(k, used) \in Int /\ InputTokens[k] \in Nat
<1>1. OutputTokens \in Nat /\ LaterFloors[k] \in Nat
  BY LedgerAssumption
<1>2. InputTokens[k] \in Nat
  BY LedgerAssumption DEF Batches
<1> QED BY <1>1, <1>2 DEF OutputCap

LEMMA InitInv == Init => LInv
<1> SUFFICES ASSUME Init PROVE LInv
  OBVIOUS
<1> USE LedgerAssumption, AttemptIds
<1>1. Shape
  BY DEF Init, Shape, RowShape, WorkerShape, Events, EventStates, NoEvent, Docs, Batches, DocSteps
<1>2. Covered
  BY DEF Init, Covered, NoEvent
<1>3. ParseInv
  BY DEF Init, ParseInv, NoEvent, Docs
<1>4. ModelInv
  BY DEF Init, ModelInv, Steps, NoEvent, UpToMark, UpToBatches
<1> QED BY <1>1, <1>2, <1>3, <1>4 DEF LInv

-----------------------------------------------------------------------------
(* What the writes do to the row and to the worker's memory *)

LEMMA RowWithEvent ==
  ASSUME RowShape, NEW a \in Attempts, NEW e \in Events, row' = WithEvent(a, e),
         charged' = charged
  PROVE  RowShape' /\ row'.events = [row.events EXCEPT ![a] = e]
BY DEF RowShape, WithEvent

LEMMA RowWithEvents ==
  ASSUME RowShape, NEW f \in [Attempts -> Events], NEW new, charged' = charged, row' = new,
         new = [lease |-> new.lease, status |-> new.status, infra |-> new.infra,
                cost |-> new.cost, events |-> f]
  PROVE  RowShape' /\ row'.events = f
BY DEF RowShape

LEMMA DocumentGoes ==
  ASSUME WorkerShape, NEW d \in Docs, NEW step \in DocSteps, wk' = Step(d, step)
  PROVE  /\ WorkerShape'
         /\ wk'.doc = [wk.doc EXCEPT ![d] = step] /\ wk'.mem = wk.mem
         /\ wk'.at = wk.at /\ wk'.k = wk.k /\ wk'.used = wk.used
         /\ wk'.started = wk.started /\ wk'.outcome = wk.outcome
BY DEF WorkerShape, Step

LEMMA DocumentRemembers ==
  ASSUME WorkerShape, NEW d \in Docs, NEW step \in DocSteps, NEW e \in Events,
         wk' = Remember(d, step, e)
  PROVE  /\ WorkerShape'
         /\ wk'.doc = [wk.doc EXCEPT ![d] = step]
         /\ wk'.mem = [wk.mem EXCEPT ![Parse(d)] = e]
         /\ wk'.at = wk.at /\ wk'.k = wk.k /\ wk'.used = wk.used
         /\ wk'.started = wk.started /\ wk'.outcome = wk.outcome
BY AttemptIds DEF WorkerShape, Remember

LEMMA WorkerGoes ==
  ASSUME WorkerShape, NEW step, wk' = Goto(step)
  PROVE  /\ WorkerShape'
         /\ wk'.doc = wk.doc /\ wk'.mem = wk.mem
         /\ wk'.at = step /\ wk'.k = wk.k /\ wk'.used = wk.used
         /\ wk'.started = wk.started /\ wk'.outcome = wk.outcome
BY DEF WorkerShape, Goto

-----------------------------------------------------------------------------
(* A step of a document *)

\* The steps of a document leave what is known of the model batches alone.
LEMMA ModelFrame ==
  ASSUME ModelInv, WorkerShape,
         \A k \in Batches : /\ charged'[Model(k)] = charged[Model(k)]
                            /\ row'.events[Model(k)] = row.events[Model(k)]
                            /\ wk'.mem[Model(k)] = wk.mem[Model(k)],
         wk'.at = wk.at, wk'.k = wk.k, wk'.used = wk.used, wk'.started = wk.started,
         wk'.outcome = wk.outcome
  PROVE  ModelInv'
BY DEF ModelInv, Steps, WorkerShape

-----------------------------------------------------------------------------
(* The parser calls *)

LEMMA PlanStep == LInv /\ Plan => LInv'
<1> SUFFICES ASSUME LInv, Plan PROVE LInv'
  OBVIOUS
<1> USE AttemptIds DEF LInv, Shape, RowShape, WorkerShape, Plan, Goto
<1>1. Shape'
  BY DEF DocSteps, WorkerSteps
<1>2. Covered'
  BY DEF Covered
<1>3. ParseInv'
  BY DEF ParseInv, DocSteps
<1>4. ModelInv'
  BY DEF ModelInv, Steps, UpToMark, UpToBatches
<1> QED BY <1>1, <1>2, <1>3, <1>4 DEF LInv

LEMMA NotStartedStep == ASSUME LInv, NEW d \in Docs, NotStarted(d) \/ CleanupFails(d) PROVE LInv'
<1>1. wk' = Step(d, "failed") /\ row' = row /\ charged' = charged
  BY DEF NotStarted, CleanupFails
<1>2. /\ WorkerShape' /\ wk'.doc = [wk.doc EXCEPT ![d] = "failed"] /\ wk'.mem = wk.mem
      /\ wk'.at = wk.at /\ wk'.k = wk.k /\ wk'.used = wk.used
      /\ wk'.started = wk.started /\ wk'.outcome = wk.outcome
  BY <1>1, DocumentGoes DEF LInv, Shape, DocSteps
<1>3. RowShape' /\ Covered'
  BY <1>1 DEF LInv, Shape, RowShape, Covered
<1>4. ParseInv'
  BY <1>1, <1>2 DEF LInv, ParseInv, Shape, WorkerShape
<1>5. ModelInv'
  BY <1>1, <1>2, ModelFrame DEF LInv, Shape
<1> QED BY <1>2, <1>3, <1>4, <1>5 DEF LInv, Shape

LEMMA MarkStartedStep == ASSUME LInv, NEW d \in Docs, MarkStarted(d) PROVE LInv'
<1> DEFINE pending == Event("pending", ParseReserve)
<1> USE AttemptIds DEF LInv, Shape
<1>1. pending \in Events /\ pending.amount = ParseReserve
  BY LedgerAssumption DEF Event, Events, EventStates
<1>2. /\ row' = row \/ row' = WithEvent(Parse(d), pending)
      /\ \/ wk' = Step(d, "failed")
         \/ wk' = Remember(d, "dispatch", pending) /\ row' = WithEvent(Parse(d), pending)
      /\ charged' = charged
  BY DEF MarkStarted, MarkPending, Guarded
<1> HIDE DEF pending
<1>3. RowShape' /\ (row' = row \/ row'.events = [row.events EXCEPT ![Parse(d)] = pending])
  <2>1. CASE row' = row
    BY <2>1, <1>2 DEF RowShape
  <2>2. CASE row' = WithEvent(Parse(d), pending)
    BY <2>2, <1>1, <1>2, RowWithEvent
  <2> QED BY <1>2, <2>1, <2>2
<1>4. /\ WorkerShape'
      /\ \/ wk'.mem = wk.mem /\ wk'.doc = [wk.doc EXCEPT ![d] = "failed"]
         \/ /\ wk'.mem = [wk.mem EXCEPT ![Parse(d)] = pending]
            /\ wk'.doc = [wk.doc EXCEPT ![d] = "dispatch"]
            /\ row'.events = [row.events EXCEPT ![Parse(d)] = pending]
      /\ wk'.at = wk.at /\ wk'.k = wk.k /\ wk'.used = wk.used
      /\ wk'.started = wk.started /\ wk'.outcome = wk.outcome
  <2>1. CASE wk' = Step(d, "failed")
    BY <2>1, <1>1, DocumentGoes DEF DocSteps
  <2>2. CASE wk' = Remember(d, "dispatch", pending) /\ row' = WithEvent(Parse(d), pending)
    <3>1. row'.events = [row.events EXCEPT ![Parse(d)] = pending]
      BY <2>2, <1>1, <1>2, RowWithEvent
    <3>2. wk' = Remember(d, "dispatch", pending) /\ "dispatch" \in DocSteps
      BY <2>2 DEF DocSteps
    <3>3. /\ WorkerShape' /\ wk'.mem = [wk.mem EXCEPT ![Parse(d)] = pending]
          /\ wk'.doc = [wk.doc EXCEPT ![d] = "dispatch"]
          /\ wk'.at = wk.at /\ wk'.k = wk.k /\ wk'.used = wk.used
          /\ wk'.started = wk.started /\ wk'.outcome = wk.outcome
      BY <3>2, <1>1, DocumentRemembers
    <3> QED BY <3>1, <3>3
  <2> QED BY <1>2, <2>1, <2>2
<1>5. Covered'
  BY <1>1, <1>2, <1>3 DEF Covered, RowShape, ParseInv
<1>6. ParseInv'
  BY <1>1, <1>2, <1>3, <1>4 DEF ParseInv, RowShape, WorkerShape
<1>7. ModelInv'
  BY <1>2, <1>3, <1>4, ModelFrame DEF RowShape, WorkerShape
<1> QED BY <1>3, <1>4, <1>5, <1>6, <1>7

LEMMA DispatchStep == ASSUME Honest, LInv, NEW d \in Docs, Dispatch(d) PROVE LInv'
<1> USE AttemptIds DEF LInv, Shape
<1>1. PICK c \in ParseCharges :
        /\ charged' = [charged EXCEPT ![Parse(d)] = c]
        /\ \/ \E state \in {"succeeded", "failed"}, amount \in {c, ParseReserve} :
                wk' = Remember(d, "capture", Event(state, amount))
           \/ wk' = Step(d, "failed")
  BY DEF Dispatch
<1>2. c \in Nat /\ c <= ParseReserve /\ ParseReserve \in Nat
  BY LedgerAssumption DEF Honest
<1>3. /\ row' = row /\ wk.doc[d] = "dispatch"
      /\ row.events[Parse(d)].amount = ParseReserve /\ wk.mem[Parse(d)].amount = ParseReserve
  BY DEF Dispatch, ParseInv
<1>4. RowShape' /\ Covered'
  BY <1>1, <1>2, <1>3 DEF RowShape, Covered
<1>5. /\ WorkerShape'
      /\ \/ /\ wk'.doc = [wk.doc EXCEPT ![d] = "capture"]
            /\ \E e \in Events : c <= e.amount /\ wk'.mem = [wk.mem EXCEPT ![Parse(d)] = e]
         \/ wk'.doc = [wk.doc EXCEPT ![d] = "failed"] /\ wk'.mem = wk.mem
      /\ wk'.at = wk.at /\ wk'.k = wk.k /\ wk'.used = wk.used
      /\ wk'.started = wk.started /\ wk'.outcome = wk.outcome
  <2>1. CASE wk' = Step(d, "failed")
    BY <2>1, DocumentGoes DEF DocSteps
  <2>2. ASSUME NEW state \in {"succeeded", "failed"}, NEW amount \in {c, ParseReserve},
               wk' = Remember(d, "capture", Event(state, amount))
        PROVE  <1>5
    <3>1. Event(state, amount) \in Events /\ c <= Event(state, amount).amount
      BY <1>2 DEF Event, Events, EventStates
    <3> QED BY <2>2, <3>1, DocumentRemembers DEF DocSteps
  <2> QED BY <1>1, <2>1, <2>2
<1>6. ParseInv'
  BY <1>1, <1>2, <1>3, <1>5 DEF ParseInv, RowShape, WorkerShape
<1>7. ModelInv'
  BY <1>1, <1>3, <1>5, ModelFrame DEF RowShape, WorkerShape
<1> QED BY <1>4, <1>5, <1>6, <1>7

LEMMA CaptureStep == ASSUME LInv, NEW d \in Docs, Capture(d) PROVE LInv'
<1> DEFINE event == wk.mem[Parse(d)]
           unknown == Event("pending", ParseReserve)
<1> USE AttemptIds DEF LInv, Shape
<1>1. /\ event \in Events /\ charged[Parse(d)] <= event.amount
      /\ unknown \in Events /\ unknown.amount = ParseReserve
  BY LedgerAssumption DEF WorkerShape, ParseInv, Event, Events, EventStates
<1>2. /\ row' = row \/ row' = WithEvent(Parse(d), event)
      /\ (\E step \in {"parsed", "failed"} : wk' = Step(d, step))
           \/ wk' = Remember(d, "failed", unknown)
      /\ charged' = charged
  BY DEF Capture, Guarded
<1> HIDE DEF event, unknown
<1>3. RowShape' /\ (row' = row \/ row'.events = [row.events EXCEPT ![Parse(d)] = event])
  <2>1. CASE row' = row
    BY <2>1, <1>2 DEF RowShape
  <2>2. CASE row' = WithEvent(Parse(d), event)
    BY <2>2, <1>1, <1>2, RowWithEvent
  <2> QED BY <1>2, <2>1, <2>2
<1>4. /\ WorkerShape'
      /\ \E step \in {"parsed", "failed"} : wk'.doc = [wk.doc EXCEPT ![d] = step]
      /\ wk'.mem = wk.mem \/ wk'.mem = [wk.mem EXCEPT ![Parse(d)] = unknown]
      /\ wk'.at = wk.at /\ wk'.k = wk.k /\ wk'.used = wk.used
      /\ wk'.started = wk.started /\ wk'.outcome = wk.outcome
  <2>1. ASSUME NEW step \in {"parsed", "failed"}, wk' = Step(d, step) PROVE <1>4
    BY <2>1, DocumentGoes DEF DocSteps
  <2>2. CASE wk' = Remember(d, "failed", unknown)
    BY <2>2, <1>1, DocumentRemembers DEF DocSteps
  <2> QED BY <1>2, <2>1, <2>2
<1>5. Covered'
  BY <1>1, <1>2, <1>3 DEF Covered, RowShape
<1>6. ParseInv'
  BY <1>1, <1>2, <1>3, <1>4 DEF ParseInv, RowShape, WorkerShape
<1>7. ModelInv'
  BY <1>2, <1>3, <1>4, ModelFrame DEF RowShape, WorkerShape
<1> QED BY <1>3, <1>4, <1>5, <1>6, <1>7

LEMMA BatchEndsStep == LInv /\ BatchEnds => LInv'
<1> SUFFICES ASSUME LInv, BatchEnds PROVE LInv'
  OBVIOUS
<1> USE AttemptIds DEF LInv, Shape
<1>1. /\ row' = row /\ charged' = charged /\ WorkerShape' /\ wk'.mem = wk.mem
      /\ wk.at = "parse" /\ wk'.at \in {"parse", "merge"}
      /\ \A d \in Docs : wk'.doc[d] = "dispatch" => wk.doc[d] = "dispatch"
      /\ wk'.k = wk.k /\ wk'.started = wk.started
  BY DEF BatchEnds, Goto, WorkerShape, DocSteps
<1>2. RowShape' /\ Covered'
  BY <1>1 DEF RowShape, Covered
<1>3. ParseInv'
  BY <1>1 DEF ParseInv
<1>4. ModelInv'
  BY <1>1 DEF ModelInv, Steps, UpToMark, UpToBatches
<1> QED BY <1>1, <1>2, <1>3, <1>4

\* A merge with the memory of the worker leaves every attempt covered.
LEMMA MergeCovers ==
  ASSUME LInv
  PROVE  /\ Merged(row.events) \in [Attempts -> Events]
         /\ \A a \in Attempts : charged[a] <= Merged(row.events)[a].amount
         /\ \A d \in Docs : wk.doc[d] = "dispatch"
                               => Merged(row.events)[Parse(d)].amount = ParseReserve
<1> USE AttemptIds DEF LInv, Shape
<1>1. Merged(row.events) \in [Attempts -> Events]
  BY DEF Merged, RowShape, WorkerShape
<1>2. \A b \in Attempts :
        \/ Merged(row.events)[b] = row.events[b] /\ wk.mem[b] = NoEvent
        \/ Merged(row.events)[b] = wk.mem[b] /\ wk.mem[b] # NoEvent
  BY DEF Merged
<1>3. \A a \in Attempts : charged[a] <= Merged(row.events)[a].amount
  BY <1>2 DEF Covered, ParseInv, ModelInv
<1>4. \A d \in Docs : wk.doc[d] = "dispatch" => Merged(row.events)[Parse(d)].amount = ParseReserve
  BY <1>2 DEF ParseInv
<1> QED BY <1>1, <1>3, <1>4

LEMMA MergeStep == LInv /\ Merge => LInv'
<1> SUFFICES ASSUME LInv, Merge PROVE LInv'
  OBVIOUS
<1> DEFINE merged == Merged(row.events)
           new == [row EXCEPT !.events = merged]
<1> USE AttemptIds DEF LInv, Shape
<1>1. /\ charged' = charged /\ (row' = row \/ row' = new)
      /\ wk.at = "merge" /\ \E step \in {"preflight", "recover"} : wk' = Goto(step)
  BY DEF Merge, Guarded
<1>2. /\ merged \in [Attempts -> Events]
      /\ \A a \in Attempts : charged[a] <= merged[a].amount
      /\ \A d \in Docs : wk.doc[d] = "dispatch" => merged[Parse(d)].amount = ParseReserve
  BY MergeCovers
<1> HIDE DEF merged
<1>3. RowShape' /\ (row' = row \/ row'.events = merged)
  <2>1. CASE row' = row
    BY <2>1, <1>1 DEF RowShape
  <2>2. CASE row' = new
    BY <2>2, <1>1, <1>2 DEF RowShape
  <2> QED BY <1>1, <2>1, <2>2
<1>4. /\ WorkerShape' /\ wk'.doc = wk.doc /\ wk'.mem = wk.mem /\ wk'.k = wk.k
      /\ wk'.started = wk.started /\ wk'.at \in {"preflight", "recover"}
  BY <1>1, WorkerGoes
<1>5. Covered'
  BY <1>1, <1>2, <1>3 DEF Covered
<1>6. ParseInv'
  BY <1>1, <1>2, <1>3, <1>4 DEF ParseInv
<1>7. ModelInv'
  BY <1>1, <1>4 DEF ModelInv, Steps, UpToMark, UpToBatches
<1> QED BY <1>3, <1>4, <1>5, <1>6, <1>7

-----------------------------------------------------------------------------
(* The model batches *)

\* A step of the worker that writes nothing and goes nowhere but forward.
LEMMA GoesOn ==
  ASSUME LInv, NEW step, wk' = Goto(step), row' = row, charged' = charged,
         \/ wk.at \in UpToMark /\ step \in {"markBatch", "recover", "lost"}
         \/ wk.at \in WorkerSteps /\ step \in {"recover", "over", "publish"}
         \/ wk.at \in UpToBatches /\ step = "lost"
  PROVE  LInv'
<1> USE AttemptIds DEF LInv, Shape
<1>1. /\ WorkerShape' /\ wk'.doc = wk.doc /\ wk'.mem = wk.mem /\ wk'.k = wk.k
      /\ wk'.started = wk.started /\ wk'.at = step
  BY WorkerGoes
<1>2. RowShape' /\ Covered'
  BY DEF RowShape, Covered
<1>3. ParseInv'
  BY <1>1 DEF ParseInv
<1>4. ModelInv'
  BY <1>1 DEF ModelInv, Steps, UpToMark, UpToBatches
<1> QED BY <1>1, <1>2, <1>3, <1>4

LEMMA PreflightStep == LInv /\ Preflight => LInv'
<1> SUFFICES ASSUME LInv, Preflight PROVE LInv'
  OBVIOUS
<1>1. PICK step \in {"markBatch", "recover"} : wk' = Goto(step)
  BY DEF Preflight
<1> QED BY <1>1, GoesOn DEF Preflight, UpToMark

LEMMA MarkBatchStep == LInv /\ MarkBatch => LInv'
<1> SUFFICES ASSUME LInv, MarkBatch PROVE LInv'
  OBVIOUS
<1> DEFINE k == wk.k
           pending == Event("pending", MaxCost(k, wk.used))
           called == [wk EXCEPT !.at = "call", !.started = @ \cup {k}]
<1> USE AttemptIds DEF LInv, Shape
<1>1. k \in Batches /\ wk.at = "markBatch" /\ charged' = charged
  BY DEF MarkBatch, WorkerShape
<1>2. charged[Model(k)] = 0
  BY <1>1 DEF ModelInv, Steps, UpToMark
<1>3. CASE wk' = Goto("lost") /\ row' = row
  BY <1>1, <1>3, GoesOn DEF UpToMark
<1>4. CASE /\ ~(OutputCap(k, wk.used) < OutputFloors[k])
           /\ row' = WithEvent(Model(k), pending) /\ wk' \in {called, Goto("lost")}
  <2>1. pending \in Events /\ pending.amount = MaxCost(k, wk.used) /\ 0 <= pending.amount
    <3>1. OutputCap(k, wk.used) \in Int /\ InputTokens[k] \in Nat
      BY <1>1, CapIsInteger DEF WorkerShape
    <3>2. OutputFloors[k] \in Nat
      BY <1>1, LedgerAssumption
    <3>3. OutputCap(k, wk.used) \in Nat
      BY <3>1, <3>2, <1>4
    <3>4. MaxCost(k, wk.used) \in Nat
      BY <3>1, <3>3, PriceIsNatural DEF MaxCost
    <3> QED BY <3>4 DEF Event, Events, EventStates
  <2>2. RowShape' /\ row'.events = [row.events EXCEPT ![Model(k)] = pending]
    BY <1>1, <1>4, <2>1, RowWithEvent
  <2>3. /\ WorkerShape' /\ wk'.doc = wk.doc /\ wk'.mem = wk.mem /\ wk'.k = k
        /\ wk'.used = wk.used
        /\ \/ wk'.at = "lost" /\ wk'.started = wk.started
           \/ wk'.at = "call" /\ wk'.started = wk.started \cup {k}
    <3>1. CASE wk' = Goto("lost")
      BY <3>1, WorkerGoes
    <3>2. CASE wk' = called
      <4>1. k \in 1..k
        BY <1>1 DEF Batches
      <4> QED BY <3>2, <1>1, <4>1 DEF WorkerShape
    <3> QED BY <1>4, <3>1, <3>2
  <2> HIDE DEF pending, called
  <2>4. Covered'
    BY <1>1, <1>2, <2>1, <2>2 DEF Covered, RowShape
  <2>5. ParseInv'
    BY <1>1, <2>2, <2>3 DEF ParseInv, RowShape
  <2>6. ModelInv'
    BY <1>1, <1>2, <2>1, <2>2, <2>3 DEF ModelInv, Steps, UpToMark, UpToBatches, RowShape
  <2> QED BY <2>2, <2>3, <2>4, <2>5, <2>6
<1> QED BY <1>3, <1>4 DEF MarkBatch, MarkPending, Guarded

\* What is charged for a call is within its maximum, and within what it is settled at.
LEMMA CallEnds ==
  ASSUME LInv, wk.at = "call", row' = row,
         NEW outcome \in Events, NEW used \in Int, NEW cost \in Nat,
         wk' = [wk EXCEPT !.at = "settleBatch", !.outcome = outcome, !.used = @ + used],
         charged' = [charged EXCEPT ![Model(wk.k)] = cost],
         cost <= outcome.amount, cost <= MaxCost(wk.k, wk.used)
  PROVE  LInv'
<1> USE AttemptIds DEF LInv, Shape
<1>1. /\ wk.k \in Batches /\ wk.k \in wk.started
      /\ row.events[Model(wk.k)].amount = MaxCost(wk.k, wk.used)
  BY DEF ModelInv, Steps, WorkerShape
<1>2. wk.used + used \in Int
  BY DEF WorkerShape
<1>3. /\ WorkerShape' /\ wk'.doc = wk.doc /\ wk'.mem = wk.mem /\ wk'.k = wk.k
      /\ wk'.started = wk.started /\ wk'.at = "settleBatch" /\ wk'.outcome = outcome
  BY <1>2 DEF WorkerShape
<1>4. RowShape' /\ Covered'
  BY <1>1 DEF RowShape, Covered
<1>5. ParseInv'
  BY <1>1, <1>3 DEF ParseInv, RowShape
<1>6. ModelInv'
  BY <1>1, <1>3 DEF ModelInv, Steps, UpToMark, UpToBatches, RowShape
<1> QED BY <1>3, <1>4, <1>5, <1>6

LEMMA CallBatchStep == ASSUME Honest, LInv, CallBatch PROVE LInv'
<1> DEFINE k == wk.k
           cap == OutputCap(k, wk.used)
<1> USE AttemptIds DEF LInv, Shape
<1>1. /\ k \in Batches /\ wk.at = "call" /\ row' = row /\ cap \in Int
      /\ InputTokens[k] \in Nat
  BY CapIsInteger DEF CallBatch, WorkerShape
<1>2. /\ k \in wk.started /\ charged[Model(k)] = 0
      /\ row.events[Model(k)].amount = MaxCost(k, wk.used)
  BY <1>1 DEF ModelInv, Steps
<1>3. \/ wk' = Outcome("failed", 0, 0) /\ charged' = charged
      \/ \E out \in 0..cap, state \in {"succeeded", "failed"} :
           /\ charged' = [charged EXCEPT ![Model(k)] = Price(InputTokens[k], out)]
           /\ \/ wk' = Outcome(state, ObservedOrMaximum(k, wk.used, NoUsage), cap)
              \/ wk' = Outcome(state, ObservedOrMaximum(k, wk.used, out), out)
  <2>1. ExcessTokens = 0 /\ (cap + 1)..(cap + ExcessTokens) = {}
    BY <1>1 DEF Honest
  <2> QED BY <2>1 DEF CallBatch
<1>4. CASE wk' = Outcome("failed", 0, 0) /\ charged' = charged
  <2>1. charged' = [charged EXCEPT ![Model(k)] = 0]
    BY <1>4, <1>1, <1>2 DEF RowShape
  <2>2. row.events[Model(k)] \in Events
    BY <1>1 DEF RowShape
  <2>3. 0 <= MaxCost(k, wk.used)
    BY <1>2, <2>2 DEF Events
  <2>4. Event("failed", 0) \in Events /\ 0 <= Event("failed", 0).amount
    BY DEF Event, Events, EventStates
  <2>5. wk' = [wk EXCEPT !.at = "settleBatch", !.outcome = Event("failed", 0), !.used = @ + 0]
    BY <1>4 DEF Outcome
  <2>6. 0 \in Int /\ 0 \in Nat
    OBVIOUS
  <2> QED BY <1>1, <2>1, <2>3, <2>4, <2>5, <2>6, CallEnds
<1>5. ASSUME NEW out \in 0..cap, NEW state \in {"succeeded", "failed"},
             charged' = [charged EXCEPT ![Model(k)] = Price(InputTokens[k], out)],
             \/ wk' = Outcome(state, ObservedOrMaximum(k, wk.used, NoUsage), cap)
             \/ wk' = Outcome(state, ObservedOrMaximum(k, wk.used, out), out)
      PROVE  LInv'
  <2> DEFINE cost == Price(InputTokens[k], out)
             most == Price(InputTokens[k], cap)
  <2>1. out \in Nat /\ cap \in Nat /\ out \in Int /\ out <= cap /\ out # NoUsage
    BY <1>1 DEF NoUsage
  <2>2. cost \in Nat /\ most \in Nat
    BY <1>1, <2>1, PriceIsNatural
  <2>3. cost <= most
    BY <1>1, <2>1, PriceIsMonotone
  <2>4. /\ ObservedOrMaximum(k, wk.used, NoUsage) = most
        /\ ObservedOrMaximum(k, wk.used, out) = cost
        /\ MaxCost(k, wk.used) = most
    BY <2>1 DEF ObservedOrMaximum, MaxCost
  <2>5. charged' = [charged EXCEPT ![Model(k)] = cost]
    BY <1>5
  <2>6. \/ wk' = [wk EXCEPT !.at = "settleBatch", !.outcome = Event(state, most), !.used = @ + cap]
        \/ wk' = [wk EXCEPT !.at = "settleBatch", !.outcome = Event(state, cost), !.used = @ + out]
    BY <1>5, <2>4 DEF Outcome
  <2> HIDE DEF cost, most, cap
  <2>7. /\ Event(state, most) \in Events /\ cost <= Event(state, most).amount
        /\ Event(state, cost) \in Events /\ cost <= Event(state, cost).amount
    BY <2>2, <2>3 DEF Event, Events, EventStates
  <2>8. cost <= MaxCost(k, wk.used)
    BY <2>3, <2>4
  <2>9. CASE wk' = [wk EXCEPT !.at = "settleBatch", !.outcome = Event(state, most),
                              !.used = @ + cap]
    BY <1>1, <2>1, <2>2, <2>5, <2>7, <2>8, <2>9, CallEnds
  <2>10. CASE wk' = [wk EXCEPT !.at = "settleBatch", !.outcome = Event(state, cost),
                               !.used = @ + out]
    BY <1>1, <2>1, <2>2, <2>5, <2>7, <2>8, <2>10, CallEnds
  <2> QED BY <2>6, <2>9, <2>10
<1> QED BY <1>3, <1>4, <1>5

-----------------------------------------------------------------------------
(* The settlement of a batch, the release gate and the catch clause *)

\* The steps of which nothing has to be known but that what is spent is covered.
Later == {"lost", "billed", "settle", "publish", "recover", "settleFailure", "over"}

\* A write that keeps every attempt covered, and leads to one of these steps.
LEMMA WritesAndLeaves ==
  ASSUME LInv, RowShape', WorkerShape', charged' = charged,
         \A a \in Attempts : charged[a] <= row'.events[a].amount,
         \A d \in Docs : wk.doc[d] = "dispatch" => row'.events[Parse(d)].amount = ParseReserve,
         wk'.doc = wk.doc, wk'.mem = wk.mem, wk'.started = wk.started,
         wk'.at \in Later,
         wk.at \in UpToBatches \/ wk'.at \notin {"lost", "billed"}
  PROVE  LInv'
<1>1. Covered'
  BY DEF Covered
<1>2. ParseInv'
  BY DEF LInv, ParseInv
<1>3. ModelInv'
  BY DEF LInv, ModelInv, Steps, UpToMark, UpToBatches, Later
<1> QED BY <1>1, <1>2, <1>3 DEF LInv, Shape

LEMMA SettleBatchStep == LInv /\ SettleBatch => LInv'
<1> SUFFICES ASSUME LInv, SettleBatch PROVE LInv'
  OBVIOUS
<1> DEFINE k == wk.k
           next == [wk EXCEPT !.at = "markBatch", !.k = k + 1]
<1> USE AttemptIds DEF LInv, Shape
<1>1. k \in Batches /\ wk.at = "settleBatch" /\ charged' = charged /\ wk.outcome \in Events
  BY DEF SettleBatch, WorkerShape
<1>2. k \in wk.started /\ charged[Model(k)] <= wk.outcome.amount
  BY <1>1 DEF ModelInv, Steps
<1>3. /\ row' = row \/ row' = WithEvent(Model(k), wk.outcome)
      /\ \/ wk' = Goto("lost") \/ wk' = Goto("billed")
         \/ k # Len(InputTokens) /\ wk' = next
  BY DEF SettleBatch, Guarded
<1> HIDE DEF next
<1>4. RowShape' /\ (row' = row \/ row'.events = [row.events EXCEPT ![Model(k)] = wk.outcome])
  <2>1. CASE row' = row
    BY <2>1, <1>1 DEF RowShape
  <2>2. CASE row' = WithEvent(Model(k), wk.outcome)
    BY <2>2, <1>1, RowWithEvent
  <2> QED BY <1>3, <2>1, <2>2
<1>5. /\ \A a \in Attempts : charged[a] <= row'.events[a].amount
      /\ \A d \in Docs : wk.doc[d] = "dispatch" => row'.events[Parse(d)].amount = ParseReserve
  BY <1>1, <1>2, <1>4 DEF RowShape, Covered, ParseInv
<1>6. ASSUME NEW step \in {"lost", "billed"}, wk' = Goto(step) PROVE LInv'
  <2>1. /\ WorkerShape' /\ wk'.doc = wk.doc /\ wk'.mem = wk.mem /\ wk'.started = wk.started
        /\ wk'.at = step
    BY <1>6, WorkerGoes
  <2>2. wk.at \in UpToBatches /\ step \in Later
    BY <1>1 DEF UpToBatches, Later
  <2> QED BY <1>1, <1>4, <1>5, <2>1, <2>2, WritesAndLeaves
<1>7. CASE k # Len(InputTokens) /\ wk' = next
  <2>1. k + 1 \in Batches /\ k + 1 \notin wk.started /\ wk.started \subseteq 1..(k + 1)
    <3>1. Len(InputTokens) \in Nat /\ k \in 1..Len(InputTokens) /\ k # Len(InputTokens)
      <4>1. InputTokens \in Seq(Nat)
        BY LedgerAssumption
      <4> QED BY <1>1, <1>7, <4>1 DEF Batches
    <3>2. k + 1 \in Batches
      BY <3>1 DEF Batches
    <3>3. wk.started \subseteq 1..k
      BY DEF WorkerShape
    <3> QED BY <3>1, <3>2, <3>3
  <2>2. /\ WorkerShape' /\ wk'.doc = wk.doc /\ wk'.mem = wk.mem /\ wk'.k = k + 1
        /\ wk'.started = wk.started /\ wk'.at = "markBatch"
    BY <1>7, <2>1 DEF WorkerShape, next
  <2>3. Covered'
    BY <1>1, <1>5 DEF Covered
  <2>4. ParseInv'
    BY <1>1, <1>5, <2>2 DEF ParseInv
  <2>5. ModelInv'
    BY <1>1, <2>1, <2>2 DEF ModelInv, Steps, UpToMark, UpToBatches
  <2> QED BY <1>4, <2>2, <2>3, <2>4, <2>5
<1> QED BY <1>3, <1>6, <1>7

\* What the worker reads back of a batch is at least what the batch was charged.
LEMMA ReadsBack ==
  ASSUME LInv, wk.at \in UpToBatches, row' = row, charged' = charged,
         NEW step \in {"verify", "recover"},
         wk' = [wk EXCEPT !.at = step, !.mem = WithBilled]
  PROVE  LInv'
<1> USE AttemptIds DEF LInv, Shape
<1>1. WithBilled \in [Attempts -> Events]
  BY DEF WithBilled, RowShape, WorkerShape
<1>2. /\ \A d \in Docs : WithBilled[Parse(d)] = wk.mem[Parse(d)]
      /\ \A k \in Batches : WithBilled[Model(k)] = IF k \in wk.started THEN row.events[Model(k)]
                                                                    ELSE wk.mem[Model(k)]
  <2>1. wk.started \subseteq Batches
    <3>1. wk.started \subseteq 1..wk.k /\ wk.k \in Batches
      BY DEF WorkerShape
    <3>2. Len(InputTokens) \in Nat
      BY LedgerAssumption
    <3> QED BY <3>1, <3>2 DEF Batches
  <2> QED BY <2>1 DEF WithBilled
<1>3. /\ WorkerShape' /\ wk'.doc = wk.doc /\ wk'.mem = WithBilled /\ wk'.at = step
      /\ wk'.started = wk.started /\ wk'.k = wk.k
  BY <1>1 DEF WorkerShape
<1>4. RowShape' /\ Covered'
  BY DEF RowShape, Covered
<1>5. ParseInv'
  BY <1>2, <1>3 DEF ParseInv
<1>6. \A k \in Batches : charged[Model(k)] <= WithBilled[Model(k)].amount
  <2> SUFFICES ASSUME NEW k \in Batches PROVE charged[Model(k)] <= WithBilled[Model(k)].amount
    OBVIOUS
  <2>1. CASE k \in wk.started
    BY <2>1, <1>2 DEF Covered
  <2>2. CASE k \notin wk.started
    <3>1. charged[Model(k)] = 0 /\ wk.mem[Model(k)] = NoEvent
      BY <2>2 DEF ModelInv, Steps
    <3> QED BY <2>2, <3>1, <1>2 DEF NoEvent
  <2> QED BY <2>1, <2>2
<1>7. ModelInv'
  BY <1>3, <1>6 DEF ModelInv, Steps, UpToMark, UpToBatches
<1> QED BY <1>3, <1>4, <1>5, <1>7

LEMMA BilledStep == ASSUME LInv, Billed \/ Lost PROVE LInv'
<1>1. /\ wk.at \in UpToBatches /\ row' = row /\ charged' = charged
      /\ \/ \E step \in {"verify", "recover"} : wk' = [wk EXCEPT !.at = step, !.mem = WithBilled]
         \/ wk' = Goto("lost") \/ wk' = Goto("recover")
  BY DEF Billed, Lost, UpToBatches
<1>2. ASSUME NEW step \in {"verify", "recover"},
             wk' = [wk EXCEPT !.at = step, !.mem = WithBilled]
      PROVE  LInv'
  BY <1>1, <1>2, ReadsBack
<1>3. CASE wk' = Goto("lost")
  BY <1>1, <1>3, GoesOn
<1>4. CASE wk' = Goto("recover")
  BY <1>1, <1>4, GoesOn DEF UpToBatches, WorkerSteps
<1> QED BY <1>1, <1>2, <1>3, <1>4

LEMMA VerifyStep == LInv /\ Verify => LInv'
<1> SUFFICES ASSUME LInv, Verify PROVE LInv'
  OBVIOUS
<1> DEFINE cost == Total(wk.mem) + Infra
           new == [row EXCEPT !.events = wk.mem, !.infra = Infra, !.cost = cost]
           next == [wk EXCEPT !.at = "settle", !.due = cost]
<1> USE AttemptIds DEF LInv, Shape
<1>1. /\ wk.at = "verify" /\ charged' = charged /\ (row' = row \/ row' = new)
      /\ (wk' = next \/ wk' = Goto("recover"))
  BY DEF Verify, Guarded
<1> HIDE DEF cost
<1>2. /\ \A a \in Attempts : charged[a] <= wk.mem[a].amount
      /\ \A d \in Docs : wk.doc[d] = "dispatch" => wk.mem[Parse(d)].amount = ParseReserve
  BY <1>1 DEF ParseInv, ModelInv, Steps
<1>3. RowShape' /\ (row'.events = row.events \/ row'.events = wk.mem)
  <2>1. CASE row' = row
    BY <2>1, <1>1 DEF RowShape
  <2>2. CASE row' = new
    BY <2>2, <1>1 DEF RowShape, WorkerShape
  <2> QED BY <1>1, <2>1, <2>2
<1>4. /\ WorkerShape' /\ wk'.doc = wk.doc /\ wk'.mem = wk.mem /\ wk'.started = wk.started
      /\ wk'.at \in {"settle", "recover"}
  <2>1. CASE wk' = next
    BY <2>1 DEF WorkerShape
  <2>2. CASE wk' = Goto("recover")
    BY <2>2, WorkerGoes
  <2> QED BY <1>1, <2>1, <2>2
<1>5. /\ \A a \in Attempts : charged[a] <= row'.events[a].amount
      /\ \A d \in Docs : wk.doc[d] = "dispatch" => row'.events[Parse(d)].amount = ParseReserve
  BY <1>2, <1>3 DEF Covered, ParseInv
<1> QED BY <1>1, <1>3, <1>4, <1>5, WritesAndLeaves DEF Later

LEMMA PublishStep == LInv /\ Publish => LInv'
<1> SUFFICES ASSUME LInv, Publish PROVE LInv'
  OBVIOUS
<1> DEFINE new == [row EXCEPT !.status = "released", !.lease = "gone"]
<1> USE AttemptIds DEF LInv, Shape
<1>1. /\ wk.at = "publish" /\ charged' = charged /\ (row' = row \/ row' = new)
      /\ (wk' = Goto("over") \/ wk' = Goto("recover"))
  BY DEF Publish, Guarded
<1>2. RowShape' /\ row'.events = row.events
  BY <1>1 DEF RowShape
<1>3. /\ WorkerShape' /\ wk'.doc = wk.doc /\ wk'.mem = wk.mem /\ wk'.started = wk.started
      /\ wk'.at \in {"over", "recover"}
  BY <1>1, WorkerGoes
<1>4. /\ \A a \in Attempts : charged[a] <= row'.events[a].amount
      /\ \A d \in Docs : wk.doc[d] = "dispatch" => row'.events[Parse(d)].amount = ParseReserve
  BY <1>2 DEF Covered, ParseInv
<1> QED BY <1>1, <1>2, <1>3, <1>4, WritesAndLeaves DEF Later

LEMMA RecoverStep == LInv /\ Recover => LInv'
<1> SUFFICES ASSUME LInv, Recover PROVE LInv'
  OBVIOUS
<1> DEFINE merged == Merged(row.events)
           new == [row EXCEPT !.events = merged, !.infra = Infra,
                              !.cost = Total(merged) + Infra,
                              !.status = "failed", !.lease = "gone"]
<1> USE AttemptIds DEF LInv, Shape
<1>1. /\ wk.at = "recover" /\ charged' = charged /\ (row' = row \/ row' = new)
      /\ \E due : wk' = [wk EXCEPT !.at = "settleFailure", !.due = due]
  BY DEF Recover
<1>2. /\ merged \in [Attempts -> Events]
      /\ \A a \in Attempts : charged[a] <= merged[a].amount
      /\ \A d \in Docs : wk.doc[d] = "dispatch" => merged[Parse(d)].amount = ParseReserve
  BY MergeCovers
<1> HIDE DEF merged
<1>3. RowShape' /\ (row'.events = row.events \/ row'.events = merged)
  <2>1. CASE row' = row
    BY <2>1, <1>1 DEF RowShape
  <2>2. CASE row' = new
    BY <2>2, <1>1, <1>2 DEF RowShape
  <2> QED BY <1>1, <2>1, <2>2
<1>4. /\ WorkerShape' /\ wk'.doc = wk.doc /\ wk'.mem = wk.mem /\ wk'.started = wk.started
      /\ wk'.at = "settleFailure"
  BY <1>1 DEF WorkerShape
<1>5. /\ \A a \in Attempts : charged[a] <= row'.events[a].amount
      /\ \A d \in Docs : wk.doc[d] = "dispatch" => row'.events[Parse(d)].amount = ParseReserve
  BY <1>2, <1>3 DEF Covered, ParseInv
<1> QED BY <1>1, <1>3, <1>4, <1>5, WritesAndLeaves DEF Later

\* The settlements, an interruption and a kill write nothing to the row.
LEMMA EndingStep ==
  ASSUME LInv, Settle \/ Interrupted \/ SettleFailure \/ Killed PROVE LInv'
<1>1. row' = row /\ charged' = charged
  BY DEF Settle, Interrupted, SettleFailure, Killed
<1>2. CASE wk.at = "settle" /\ \E step \in {"publish", "recover"} : wk' = Goto(step)
  BY <1>1, <1>2, GoesOn DEF WorkerSteps
<1>3. CASE wk' = Goto("over")
  <2>1. /\ WorkerShape' /\ wk'.doc = wk.doc /\ wk'.mem = wk.mem /\ wk'.started = wk.started
        /\ wk'.at = "over"
    BY <1>3, WorkerGoes DEF LInv, Shape
  <2>2. RowShape' /\ \A a \in Attempts : charged[a] <= row'.events[a].amount
    BY <1>1 DEF LInv, Shape, RowShape, Covered
  <2>3. \A d \in Docs : wk.doc[d] = "dispatch" => row'.events[Parse(d)].amount = ParseReserve
    BY <1>1 DEF LInv, ParseInv
  <2> QED BY <1>1, <2>1, <2>2, <2>3, WritesAndLeaves DEF Later
<1>4. CASE /\ wk.at \in {"merge", "preflight", "markBatch", "verify", "settle", "publish"}
           /\ \/ wk' = Goto("recover")
              \/ wk.at = "markBatch" /\ wk' = Goto("lost")
  BY <1>1, <1>4, GoesOn DEF WorkerSteps, UpToMark
<1> QED BY <1>2, <1>3, <1>4 DEF Settle, SettleAt, Interrupted, SettleFailure, Killed

\* A withdrawal changes the row, and none of its events.
LEMMA WithdrawStep == LInv /\ Withdraw => LInv'
<1> SUFFICES ASSUME LInv, Withdraw PROVE LInv'
  OBVIOUS
<1> USE DEF LInv, Shape
<1>1. wk' = wk /\ charged' = charged
  BY DEF Withdraw
<1>2. RowShape' /\ row'.events = row.events
  BY <1>1 DEF Withdraw, RowShape
<1>3. WorkerShape' /\ Covered' /\ ParseInv'
  BY <1>1, <1>2 DEF WorkerShape, Covered, ParseInv
<1>4. ModelInv'
  BY <1>1, <1>2 DEF ModelInv, Steps
<1> QED BY <1>2, <1>3, <1>4

-----------------------------------------------------------------------------
(* Every step, and the theorem *)

LEMMA StutteringStep == ASSUME LInv, UNCHANGED vars PROVE LInv'
BY DEF vars, LInv, Shape, RowShape, WorkerShape, Covered, ParseInv, ModelInv, Steps

LEMMA EveryStep == Honest /\ LInv /\ [Next]_vars => LInv'
<1> SUFFICES ASSUME Honest, LInv, [Next]_vars PROVE LInv'
  OBVIOUS
<1>1. ASSUME NEW d \in Docs, ParseDocument(d) PROVE LInv'
  BY <1>1, NotStartedStep, MarkStartedStep, DispatchStep, CaptureStep DEF ParseDocument
<1>2. CASE Plan \/ BatchEnds \/ Merge
  BY <1>2, PlanStep, BatchEndsStep, MergeStep
<1>3. CASE Extract
  BY <1>3, PreflightStep, MarkBatchStep, CallBatchStep, SettleBatchStep, BilledStep DEF Extract
<1>4. CASE Finish
  BY <1>4, VerifyStep, PublishStep, RecoverStep, EndingStep DEF Finish
<1>5. CASE Killed \/ Withdraw
  BY <1>5, EndingStep, WithdrawStep
<1>6. CASE UNCHANGED vars
  BY <1>6, StutteringStep
<1> QED BY <1>1, <1>2, <1>3, <1>4, <1>5, <1>6 DEF Next

\* If the providers keep to their maximum, the row of a run never says less for an
\* attempt than was charged for it, at any point of the paid calls of processRun,
\* of its release and of its failure.
THEOREM RowCovers == Spec => []RowCoversSpend
<1>1. Honest => (Spec => []RowCoversSpend)
  <2> SUFFICES ASSUME Honest PROVE Spec => []RowCoversSpend
    OBVIOUS
  <2>1. Init => LInv
    BY InitInv
  <2>2. LInv /\ [Next]_vars => LInv'
    BY EveryStep
  <2>3. LInv => RowCoversSpend
    BY DEF LInv, Covered, RowCoversSpend
  <2> QED BY <2>1, <2>2, <2>3, PTL DEF Spec
<1>2. ~Honest => (Spec => []RowCoversSpend)
  <2>1. ~Honest => RowCoversSpend
    BY DEF RowCoversSpend
  <2> SUFFICES ASSUME ~Honest PROVE Spec => []RowCoversSpend
    OBVIOUS
  <2>2. RowCoversSpend
    BY <2>1
  <2> QED BY <2>2, PTL
<1> QED BY <1>1, <1>2

-----------------------------------------------------------------------------
(* Sums.  What Total and Spent compute is a recursion over a set: induction on  *)
(* its elements is stated for a set of sets, from the well-founded order of the *)
(* library, and a sum is any function that satisfies the recursion.             *)

\* A set of naturals that contains zero and with a number the next one.
LEMMA CountUp ==
  ASSUME NEW G \in SUBSET Nat, 0 \in G, \A n \in G : n + 1 \in G
  PROVE  G = Nat
<1> DEFINE Bad == Nat \ G
<1> SUFFICES ASSUME Bad # {} PROVE FALSE
  OBVIOUS
<1>1. Bad \subseteq Nat
  OBVIOUS
<1> HIDE DEF Bad
<1>2. PICK n \in Bad : \A m \in Bad : ~(<<m, n>> \in OpToRel(<, Nat))
  BY <1>1, NatLessThanWellFounded, WFMin
<1>3. n - 1 \in Nat /\ n - 1 < n /\ n - 1 \notin Bad
  <2>1. n # 0 /\ n \in Nat
    BY DEF Bad
  <2>2. n - 1 \in Nat /\ n - 1 < n
    BY <2>1
  <2> QED BY <1>2, <2>1, <2>2 DEF OpToRel
<1>4. n \in G
  BY <1>3 DEF Bad
<1> QED BY <1>4 DEF Bad

\* A property of finite sets that passes from all smaller sets to a set.
LEMMA SetInduction ==
  ASSUME NEW S, IsFiniteSet(S), NEW G,
         \A s \in SUBSET S : (\A x \in s : s \ {x} \in G) => s \in G
  PROVE  SUBSET S \subseteq G
<1> DEFINE Bad == (SUBSET S) \ G
<1> SUFFICES ASSUME Bad # {} PROVE FALSE
  OBVIOUS
<1>1. IsWellFoundedOn(StrictSubsetOrdering(S), SUBSET S)
  <2>1. IsWellFoundedOn(StrictSubsetOrdering(S), FiniteSubsetsOf(S))
    BY FS_StrictSubsetOrderingWellFounded
  <2> QED BY <2>1, FS_FiniteSubsetsOfFinite
<1>2. Bad \subseteq SUBSET S
  OBVIOUS
<1> HIDE DEF Bad
<1>3. PICK s \in Bad : \A t \in Bad : ~(<<t, s>> \in StrictSubsetOrdering(S))
  BY <1>1, <1>2, WFMin
<1>4. ASSUME NEW x \in s
      PROVE  s \ {x} \in G
  <2>1. s \ {x} \in SUBSET S /\ s \ {x} # s /\ s \ {x} \subseteq s /\ s \in SUBSET S
    BY <1>2
  <2>2. <<s \ {x}, s>> \in StrictSubsetOrdering(S)
    BY <2>1 DEF StrictSubsetOrdering
  <2> QED BY <1>3, <2>1, <2>2 DEF Bad
<1>5. s \in SUBSET S /\ s \notin G
  <2>1. s \in Bad
    BY <1>3
  <2> QED BY <2>1 DEF Bad
<1> QED BY <1>4, <1>5

Pick(s) == CHOOSE x \in s : TRUE

\* The recursion of MapThenSumSet for the sum of f over the subsets of S.
Sums(g, f, S) ==
  g = [s \in SUBSET S |-> IF s = {} THEN 0 ELSE f[Pick(s)] + g[s \ {Pick(s)}]]

LEMMA SumOf ==
  ASSUME NEW S, NEW f, NEW g, Sums(g, f, S), NEW s \in SUBSET S
  PROVE  /\ s = {} => g[s] = 0
         /\ s # {} => /\ Pick(s) \in s /\ s \ {Pick(s)} \in SUBSET S
                      /\ g[s] = f[Pick(s)] + g[s \ {Pick(s)}]
BY DEF Sums, Pick

LEMMA SumIsNatural ==
  ASSUME NEW S, IsFiniteSet(S), NEW f, NEW g, Sums(g, f, S), \A x \in S : f[x] \in Nat
  PROVE  \A s \in SUBSET S : g[s] \in Nat
<1> DEFINE G == {s \in SUBSET S : g[s] \in Nat}
<1>1. ASSUME NEW s \in SUBSET S, \A x \in s : s \ {x} \in G
      PROVE  s \in G
  <2>1. CASE s = {}
    BY <2>1, SumOf
  <2>2. CASE s # {}
    <3>1. Pick(s) \in s /\ g[s] = f[Pick(s)] + g[s \ {Pick(s)}]
      BY <2>2, SumOf
    <3>2. f[Pick(s)] \in Nat /\ g[s \ {Pick(s)}] \in Nat
      BY <1>1, <3>1
    <3> QED BY <3>1, <3>2
  <2> QED BY <2>1, <2>2
<1> HIDE DEF G
<1>2. SUBSET S \subseteq G
  BY <1>1, SetInduction
<1> QED BY <1>2 DEF G

\* A sum does not depend on the order in which its terms are taken.
LEMMA SumWithout ==
  ASSUME NEW S, IsFiniteSet(S), NEW f, NEW g, Sums(g, f, S), \A x \in S : f[x] \in Nat,
         NEW r \in SUBSET S, NEW y \in r
  PROVE  g[r] = f[y] + g[r \ {y}]
<1> DEFINE G == {s \in SUBSET S : \A x \in s : g[s] = f[x] + g[s \ {x}]}
<1>1. ASSUME NEW s \in SUBSET S, \A x \in s : s \ {x} \in G
      PROVE  s \in G
  <2> SUFFICES ASSUME NEW x \in s PROVE g[s] = f[x] + g[s \ {x}]
    OBVIOUS
  <2> DEFINE p == Pick(s)
  <2>0. s # {}
    OBVIOUS
  <2>1. p \in s /\ g[s] = f[p] + g[s \ {p}]
    BY <2>0, SumOf
  <2> HIDE DEF p
  <2>2. CASE x = p
    BY <2>1, <2>2
  <2>3. CASE x # p
    <3>1. x \in s \ {p} /\ p \in s \ {x}
      BY <2>1, <2>3
    <3>2. g[s \ {p}] = f[x] + g[(s \ {p}) \ {x}]
      BY <1>1, <2>1, <3>1
    <3>3. g[s \ {x}] = f[p] + g[(s \ {x}) \ {p}]
      BY <1>1, <3>1
    <3>4. (s \ {p}) \ {x} = (s \ {x}) \ {p}
      OBVIOUS
    <3>5. f[x] \in Nat /\ f[p] \in Nat /\ g[(s \ {x}) \ {p}] \in Nat
      BY <2>1, SumIsNatural
    <3>6. f[p] + (f[x] + g[(s \ {x}) \ {p}]) = f[x] + (f[p] + g[(s \ {x}) \ {p}])
      BY <3>5
    <3> QED BY <2>1, <3>2, <3>3, <3>4, <3>6
  <2> QED BY <2>2, <2>3
<1> HIDE DEF G
<1>2. SUBSET S \subseteq G
  BY <1>1, SetInduction
<1> QED BY <1>2 DEF G

LEMMA SumOfRest ==
  ASSUME NEW S, IsFiniteSet(S), NEW f, NEW g, Sums(g, f, S), \A x \in S : f[x] \in Nat,
         NEW y \in S
  PROVE  g[S] = f[y] + g[S \ {y}]
<1>1. S \in SUBSET S
  OBVIOUS
<1> QED BY <1>1, SumWithout

LEMMA SumIsMonotone ==
  ASSUME NEW S, IsFiniteSet(S), NEW f, NEW g, Sums(g, f, S), \A x \in S : f[x] \in Nat,
         NEW T, IsFiniteSet(T), NEW h, NEW k, Sums(k, h, T), \A x \in T : h[x] \in Nat
  PROVE  \A s \in SUBSET S : s \subseteq T /\ (\A x \in s : f[x] <= h[x]) => g[s] <= k[s]
<1> DEFINE G == {s \in SUBSET S : s \subseteq T /\ (\A x \in s : f[x] <= h[x]) => g[s] <= k[s]}
<1>1. ASSUME NEW s \in SUBSET S, \A x \in s : s \ {x} \in G
      PROVE  s \in G
  <2> SUFFICES ASSUME s \subseteq T, \A x \in s : f[x] <= h[x] PROVE g[s] <= k[s]
    OBVIOUS
  <2>1. CASE s = {}
    <3>1. g[s] = 0
      BY <2>1, SumOf
    <3>2. k[s] = 0
      BY <2>1, SumOf
    <3> QED BY <3>1, <3>2
  <2>2. CASE s # {}
    <3> DEFINE p == Pick(s)
    <3>0. p \in s /\ s \ {p} \in SUBSET S /\ g[s] = f[p] + g[s \ {p}]
      BY <2>2, SumOf
    <3>1. k[s] = h[p] + k[s \ {p}]
      BY <2>2, SumOf
    <3>2. g[s \ {p}] <= k[s \ {p}] /\ f[p] <= h[p]
      BY <1>1, <3>0
    <3>3. /\ f[p] \in Nat /\ h[p] \in Nat /\ g[s \ {p}] \in Nat /\ k[s \ {p}] \in Nat
      <4>1. f[p] \in Nat /\ g[s \ {p}] \in Nat
        BY <3>0, SumIsNatural
      <4>2. h[p] \in Nat /\ k[s \ {p}] \in Nat
        BY <3>0, SumIsNatural
      <4> QED BY <4>1, <4>2
    <3> QED BY <3>0, <3>1, <3>2, <3>3
  <2> QED BY <2>1, <2>2
<1> HIDE DEF G
<1>2. SUBSET S \subseteq G
  BY <1>1, SetInduction
<1> QED BY <1>2 DEF G

\* Two sums over the same set, term by term.
LEMMA SumsCompare ==
  \A S, f, g, h, k :
    /\ IsFiniteSet(S) /\ Sums(g, f, S) /\ Sums(k, h, S)
    /\ \A x \in S : f[x] \in Nat /\ h[x] \in Nat
    => \A s \in SUBSET S : s \subseteq S /\ (\A x \in s : f[x] <= h[x]) => g[s] <= k[s]
BY SumIsMonotone

\* Every function from a finite set to the naturals has a sum.
LEMMA SumExists ==
  ASSUME NEW S, IsFiniteSet(S), NEW f, \A x \in S : f[x] \in Nat
  PROVE  \E g : Sums(g, f, S)
<1> DEFINE Term(s, rest) == IF s = {} THEN 0 ELSE f[Pick(s)] + rest
           Upto(n) == {s \in SUBSET S : Cardinality(s) <= n}
           Sized(n) == \E g \in [Upto(n) -> Nat] : \A s \in Upto(n) :
                         g[s] = Term(s, g[s \ {Pick(s)}])
           G == {n \in Nat : Sized(n)}
<1>1. \A s \in SUBSET S : IsFiniteSet(s) /\ Cardinality(s) \in Nat
  BY FS_Subset, FS_CardinalityType
<1>2. \A s \in SUBSET S : s # {} => /\ Pick(s) \in s /\ s \ {Pick(s)} \in SUBSET S
                                    /\ Cardinality(s \ {Pick(s)}) = Cardinality(s) - 1
  BY <1>1, FS_RemoveElement DEF Pick
<1>3. 0 \in G
  <2>1. Upto(0) = {{}}
    BY <1>1, FS_EmptySet
  <2>2. [s \in Upto(0) |-> 0] \in [Upto(0) -> Nat]
    OBVIOUS
  <2> QED BY <2>1, <2>2
<1>4. ASSUME NEW n \in G
      PROVE  n + 1 \in G
  <2>1. PICK g \in [Upto(n) -> Nat] : \A s \in Upto(n) : g[s] = Term(s, g[s \ {Pick(s)}])
    OBVIOUS
  <2> DEFINE h == [s \in Upto(n + 1) |-> IF s \in Upto(n) THEN g[s]
                                         ELSE Term(s, g[s \ {Pick(s)}])]
  <2>2. n \in Nat
    OBVIOUS
  <2>3. \A s \in Upto(n + 1) : s # {} => Pick(s) \in s /\ s \ {Pick(s)} \in Upto(n)
    BY <1>1, <1>2, <2>2
  <2>4. h \in [Upto(n + 1) -> Nat]
    BY <2>1, <2>3
  <2>5. \A s \in Upto(n + 1) : h[s] = Term(s, h[s \ {Pick(s)}])
    <3> SUFFICES ASSUME NEW s \in Upto(n + 1), s # {} PROVE h[s] = Term(s, h[s \ {Pick(s)}])
      <4>1. {} \in Upto(n + 1) => h[{}] = 0
        BY <2>1
      <4> QED BY <4>1
    <3>1. s \ {Pick(s)} \in Upto(n) /\ s \ {Pick(s)} \in Upto(n + 1)
      BY <1>1, <2>2, <2>3
    <3>2. h[s \ {Pick(s)}] = g[s \ {Pick(s)}]
      BY <3>1
    <3> QED BY <2>1, <3>2
  <2> HIDE DEF h
  <2>6. Sized(n + 1)
    BY <2>4, <2>5
  <2> HIDE DEF Sized
  <2>7. n + 1 \in Nat
    BY <2>2
  <2> QED BY <2>6, <2>7
<1>5. G = Nat
  BY <1>3, <1>4, CountUp
<1>6. Cardinality(S) \in Nat /\ \A s \in SUBSET S : Cardinality(s) <= Cardinality(S)
  BY FS_Subset, FS_CardinalityType
<1>7. PICK g \in [Upto(Cardinality(S)) -> Nat] :
        \A s \in Upto(Cardinality(S)) : g[s] = Term(s, g[s \ {Pick(s)}])
  BY <1>5, <1>6
<1>8. Upto(Cardinality(S)) = SUBSET S
  BY <1>6
<1> QED BY <1>7, <1>8 DEF Sums

\* Total and Spent are such sums over the attempts.
SumOver(f) == MapThenSumSet(LAMBDA a : f[a], Attempts)
Amounts(events) == [a \in Attempts |-> events[a].amount]

LEMMA AttemptsAreFinite ==
  /\ IsFiniteSet(Docs) /\ Cardinality(Docs) = N
  /\ IsFiniteSet(Attempts)
<1>1. IsFiniteSet(Docs) /\ Cardinality(Docs) = N
  <2>1. 1 \in Int /\ N \in Int /\ N >= 1
    BY LedgerAssumption
  <2>2. IsFiniteSet(1..N) /\ Cardinality(1..N) = IF 1 > N THEN 0 ELSE N - 1 + 1
    BY <2>1, FS_Interval
  <2> QED BY <2>1, <2>2 DEF Docs
<1>2. IsFiniteSet(Batches)
  BY LedgerAssumption, FS_Interval DEF Batches
<1>3. IsFiniteSet({Parse(d) : d \in Docs})
  <2> DEFINE f == [d \in Docs |-> Parse(d)]
  <2>1. f \in Surjection(Docs, {Parse(d) : d \in Docs})
    BY DEF Surjection
  <2> QED BY <1>1, <2>1, FS_Surjection
<1>4. IsFiniteSet({Model(k) : k \in Batches})
  <2> DEFINE f == [k \in Batches |-> Model(k)]
  <2>1. f \in Surjection(Batches, {Model(k) : k \in Batches})
    BY DEF Surjection
  <2> QED BY <1>2, <2>1, FS_Surjection
<1>5. IsFiniteSet(Attempts)
  BY <1>3, <1>4, FS_Union DEF Attempts
<1> QED BY <1>1, <1>5

LEMMA SumOverSums ==
  ASSUME NEW f \in [Attempts -> Nat]
  PROVE  \E g : Sums(g, f, Attempts) /\ SumOver(f) = g[Attempts]
<1>1. PICK g : Sums(g, f, Attempts)
  BY AttemptsAreFinite, SumExists
<1>2. g = [s \in SUBSET Attempts |-> IF s = {} THEN 0 ELSE f[Pick(s)] + g[s \ {Pick(s)}]]
  BY <1>1 DEF Sums
<1>3. \E h : /\ h = [s \in SUBSET Attempts |-> IF s = {} THEN 0
                                            ELSE f[Pick(s)] + h[s \ {Pick(s)}]]
             /\ SumOver(f) = h[Attempts]
  BY <1>2 DEF SumOver, MapThenSumSet, MapThenFoldSet, Pick
<1> QED BY <1>3 DEF Sums

LEMMA SumType ==
  ASSUME NEW f \in [Attempts -> Nat]
  PROVE  SumOver(f) \in Nat
BY SumOverSums, SumIsNatural, AttemptsAreFinite

LEMMA SumGrows ==
  ASSUME NEW f \in [Attempts -> Nat], NEW h \in [Attempts -> Nat],
         \A a \in Attempts : f[a] <= h[a]
  PROVE  SumOver(f) <= SumOver(h)
<1>1. PICK g : Sums(g, f, Attempts) /\ SumOver(f) = g[Attempts]
  BY SumOverSums
<1>2. PICK k : Sums(k, h, Attempts) /\ SumOver(h) = k[Attempts]
  BY SumOverSums
<1> QED BY <1>1, <1>2, SumIsMonotone, AttemptsAreFinite

\* One term is replaced.
LEMMA SumReplaces ==
  ASSUME NEW f \in [Attempts -> Nat], NEW a \in Attempts, NEW v \in Nat
  PROVE  SumOver([f EXCEPT ![a] = v]) = SumOver(f) - f[a] + v
<1> DEFINE h == [f EXCEPT ![a] = v]
           rest == Attempts \ {a}
<1>1. h \in [Attempts -> Nat] /\ h[a] = v /\ \A b \in rest : h[b] = f[b]
  OBVIOUS
<1> HIDE DEF h
<1>2. PICK g : Sums(g, f, Attempts) /\ SumOver(f) = g[Attempts]
  BY SumOverSums
<1>3. PICK k : Sums(k, h, Attempts) /\ SumOver(h) = k[Attempts]
  BY <1>1, SumOverSums
<1>4. g[Attempts] = f[a] + g[rest] /\ g[rest] \in Nat
  <2>1. IsFiniteSet(Attempts) /\ \A x \in Attempts : f[x] \in Nat
    BY <1>1, AttemptsAreFinite
  <2>2. Sums(g, f, Attempts)
    BY <1>2
  <2>3. g[Attempts] = f[a] + g[Attempts \ {a}]
    BY <2>1, <2>2, SumOfRest
  <2>4. \A s \in SUBSET Attempts : g[s] \in Nat
    BY <2>1, <2>2, SumIsNatural
  <2> QED BY <2>3, <2>4
<1>5. k[Attempts] = h[a] + k[rest] /\ k[rest] \in Nat
  <2>1. IsFiniteSet(Attempts) /\ \A x \in Attempts : h[x] \in Nat
    BY <1>1, AttemptsAreFinite
  <2>2. Sums(k, h, Attempts)
    BY <1>3
  <2>3. k[Attempts] = h[a] + k[Attempts \ {a}]
    BY <2>1, <2>2, SumOfRest
  <2>4. \A s \in SUBSET Attempts : k[s] \in Nat
    BY <2>1, <2>2, SumIsNatural
  <2> QED BY <2>3, <2>4
<1>6. \A b \in rest : f[b] \in Nat /\ f[b] <= h[b] /\ h[b] <= f[b]
  BY <1>1
<1>7. g[rest] <= k[rest]
  BY <1>1, <1>2, <1>3, <1>6, SumIsMonotone, AttemptsAreFinite
<1>8. k[rest] <= g[rest]
  BY <1>1, <1>2, <1>3, <1>6, SumIsMonotone, AttemptsAreFinite
<1>9. SumOver(h) = SumOver(f) - f[a] + v
  BY <1>1, <1>2, <1>3, <1>4, <1>5, <1>7, <1>8
<1> QED BY <1>9 DEF h

\* The parser calls of some documents, for the whole reserve each.
Calls(D) == [a \in Attempts |-> IF \E d \in D : a = Parse(d) THEN ParseReserve ELSE 0]

LEMMA CallsSum ==
  \A D \in SUBSET Docs : SumOver(Calls(D)) = Cardinality(D) * ParseReserve
<1> DEFINE G == {D \in SUBSET Docs : SumOver(Calls(D)) = Cardinality(D) * ParseReserve}
<1>0. ParseReserve \in Nat /\ IsFiniteSet(Docs)
  BY LedgerAssumption, AttemptsAreFinite
<1>1. ASSUME NEW D \in SUBSET Docs, \A d \in D : D \ {d} \in G
      PROVE  D \in G
  <2>1. CASE D = {}
    <3>1. PICK g : Sums(g, Calls({}), Attempts) /\ SumOver(Calls({})) = g[Attempts]
      <4>1. Calls({}) \in [Attempts -> Nat]
        BY DEF Calls
      <4> QED BY <4>1, SumOverSums
    <3> DEFINE H == {s \in SUBSET Attempts : g[s] = 0}
    <3>3. ASSUME NEW s \in SUBSET Attempts, \A x \in s : s \ {x} \in H
          PROVE  s \in H
      <4>1. CASE s = {}
        <5>1. Sums(g, Calls({}), Attempts)
          BY <3>1
        <5>2. g[s] = 0
          BY <4>1, <5>1, SumOf
        <5> QED BY <5>2
      <4>2. CASE s # {}
        <5>1. Pick(s) \in s /\ g[s] = Calls({})[Pick(s)] + g[s \ {Pick(s)}]
          BY <3>1, <4>2, SumOf
        <5>2. Calls({})[Pick(s)] = 0 /\ g[s \ {Pick(s)}] = 0
          BY <3>3, <5>1 DEF Calls
        <5> QED BY <5>1, <5>2
      <4> QED BY <4>1, <4>2
    <3> HIDE DEF H
    <3>4. SUBSET Attempts \subseteq H
      BY <3>3, SetInduction, AttemptsAreFinite
    <3>5. g[Attempts] = 0
      BY <3>4 DEF H
    <3> QED BY <1>0, <2>1, <3>1, <3>5, FS_EmptySet
  <2>2. ASSUME NEW d \in D
        PROVE  D \in G
    <3>1. Calls(D \ {d}) \in [Attempts -> Nat] /\ Calls(D \ {d})[Parse(d)] = 0
      <4>1. \A e \in D \ {d} : Parse(e) # Parse(d)
        BY AttemptIds
      <4> QED BY <1>0, <4>1, AttemptIds DEF Calls
    <3>2. Calls(D) = [Calls(D \ {d}) EXCEPT ![Parse(d)] = ParseReserve]
      BY AttemptIds DEF Calls
    <3>3. SumOver(Calls(D)) = SumOver(Calls(D \ {d})) + ParseReserve
      <4>1. Parse(d) \in Attempts /\ SumOver(Calls(D \ {d})) \in Nat
        BY <3>1, AttemptIds, SumType
      <4>2. SumOver([Calls(D \ {d}) EXCEPT ![Parse(d)] = ParseReserve])
              = SumOver(Calls(D \ {d})) - Calls(D \ {d})[Parse(d)] + ParseReserve
        BY <1>0, <3>1, <4>1, SumReplaces
      <4> QED BY <1>0, <3>1, <3>2, <4>1, <4>2
    <3>4. /\ Cardinality(D \ {d}) = Cardinality(D) - 1 /\ Cardinality(D) \in Nat
      BY <1>0, FS_Subset, FS_RemoveElement, FS_CardinalityType
    <3>5. SumOver(Calls(D \ {d})) = (Cardinality(D) - 1) * ParseReserve
      BY <1>1, <2>2, <3>4
    <3>6. (Cardinality(D) - 1) * ParseReserve + ParseReserve = Cardinality(D) * ParseReserve
      BY <1>0, <3>4
    <3> QED BY <3>3, <3>5, <3>6
  <2> QED BY <2>1, <2>2
<1> HIDE DEF G
<1>2. SUBSET Docs \subseteq G
  BY <1>0, <1>1, SetInduction
<1> QED BY <1>2 DEF G

-----------------------------------------------------------------------------
(* What the row says in all, and what it may still come to *)

\* The cost of the events if every parser call takes its whole reserve.
AtMost(events) ==
  [a \in Attempts |-> IF \E d \in Docs : a = Parse(d) THEN ParseReserve ELSE events[a].amount]
Ceiling(events) == SumOver(AtMost(events))

\* Two functions that satisfy the recursion have the same sum.
LEMMA SumIsUnique ==
  ASSUME NEW f \in [Attempts -> Nat], NEW g, Sums(g, f, Attempts),
         NEW k, Sums(k, f, Attempts)
  PROVE  g[Attempts] = k[Attempts]
<1>1. IsFiniteSet(Attempts) /\ \A x \in Attempts : f[x] \in Nat /\ f[x] <= f[x]
  BY AttemptsAreFinite
<1>2. g[Attempts] <= k[Attempts]
  BY <1>1, SumIsMonotone
<1>3. k[Attempts] <= g[Attempts]
  BY <1>1, SumIsMonotone
<1>4. g[Attempts] \in Nat /\ k[Attempts] \in Nat
  <2>1. g[Attempts] \in Nat
    BY <1>1, SumIsNatural
  <2>2. k[Attempts] \in Nat
    BY <1>1, SumIsNatural
  <2> QED BY <2>1, <2>2
<1> QED BY <1>2, <1>3, <1>4

LEMMA TotalIsSum ==
  ASSUME NEW events \in [Attempts -> Events]
  PROVE  /\ Amounts(events) \in [Attempts -> Nat]
         /\ Total(events) = SumOver(Amounts(events)) /\ Total(events) \in Nat
<1>1. Amounts(events) \in [Attempts -> Nat]
  BY DEF Amounts, Events
<1>2. \A a \in Attempts : Amounts(events)[a] = events[a].amount
  BY DEF Amounts
<1>3. PICK g : Sums(g, Amounts(events), Attempts) /\ SumOver(Amounts(events)) = g[Attempts]
  BY <1>1, SumOverSums
<1>4. g = [s \in SUBSET Attempts |-> IF s = {} THEN 0
                                     ELSE events[Pick(s)].amount + g[s \ {Pick(s)}]]
  <2>1. \A s \in SUBSET Attempts : s # {} => Pick(s) \in Attempts
    BY DEF Pick
  <2> QED BY <1>2, <1>3, <2>1 DEF Sums
<1>5. \E h : /\ h = [s \in SUBSET Attempts |-> IF s = {} THEN 0
                                     ELSE events[Pick(s)].amount + h[s \ {Pick(s)}]]
             /\ Total(events) = h[Attempts]
  BY <1>4 DEF Total, MapThenSumSet, MapThenFoldSet, Pick
<1>6. \E h : Sums(h, Amounts(events), Attempts) /\ Total(events) = h[Attempts]
  <2>1. PICK h : /\ h = [s \in SUBSET Attempts |-> IF s = {} THEN 0
                                     ELSE events[Pick(s)].amount + h[s \ {Pick(s)}]]
                 /\ Total(events) = h[Attempts]
    BY <1>5
  <2>2. \A s \in SUBSET Attempts : s # {} => Pick(s) \in Attempts
    BY DEF Pick
  <2>3. h = [s \in SUBSET Attempts |-> IF s = {} THEN 0
                                       ELSE Amounts(events)[Pick(s)] + h[s \ {Pick(s)}]]
    BY <1>2, <2>1, <2>2
  <2> QED BY <2>1, <2>3 DEF Sums
<1>7. Total(events) = SumOver(Amounts(events))
  BY <1>1, <1>3, <1>6, SumIsUnique
<1>8. SumOver(Amounts(events)) \in Nat
  BY <1>1, SumType
<1> QED BY <1>1, <1>7, <1>8

LEMMA SpentIsSum ==
  /\ Spent = SumOver(charged)
  /\ charged \in [Attempts -> Nat] => Spent \in Nat
<1>1. Spent = SumOver(charged)
  BY DEF Spent, SumOver
<1> QED BY <1>1, SumType

LEMMA AtMostType ==
  ASSUME NEW events \in [Attempts -> Events]
  PROVE  AtMost(events) \in [Attempts -> Nat] /\ Ceiling(events) \in Nat
<1>1. AtMost(events) \in [Attempts -> Nat]
  BY LedgerAssumption DEF AtMost, Events
<1> QED BY <1>1, SumType DEF Ceiling

\* No event of a parser call says more than the reserve, nor anything without a call.
ParsesBounded(events) ==
  \A d \in Docs : /\ events[Parse(d)].amount <= ParseReserve
                  /\ events[Parse(d)].state = "none" => events[Parse(d)].amount = 0

LEMMA ParsesStayBounded ==
  ASSUME NEW events \in [Attempts -> Events], ParsesBounded(events), NEW d \in Docs,
         NEW e, e.amount <= ParseReserve, e.state = "none" => e.amount = 0
  PROVE  ParsesBounded([events EXCEPT ![Parse(d)] = e])
BY AttemptIds DEF ParsesBounded

LEMMA TotalFitsCeiling ==
  ASSUME NEW events \in [Attempts -> Events], ParsesBounded(events)
  PROVE  Total(events) <= Ceiling(events)
<1>1. Amounts(events) \in [Attempts -> Nat] /\ Total(events) = SumOver(Amounts(events))
  BY TotalIsSum
<1>2. AtMost(events) \in [Attempts -> Nat]
  BY AtMostType
<1>3. \A a \in Attempts : events[a].amount <= events[a].amount
  BY DEF Events
<1>4. \A a \in Attempts : Amounts(events)[a] <= AtMost(events)[a]
  BY <1>3 DEF Amounts, AtMost, ParsesBounded
<1> QED BY <1>1, <1>2, <1>4, SumGrows DEF Ceiling

\* The ceiling depends on the events of the model batches alone ...
LEMMA CeilingOfBatches ==
  ASSUME NEW e \in [Attempts -> Events], NEW f \in [Attempts -> Events],
         \A k \in Batches : f[Model(k)].amount <= e[Model(k)].amount
  PROVE  Ceiling(f) <= Ceiling(e)
<1>1. AtMost(e) \in [Attempts -> Nat] /\ AtMost(f) \in [Attempts -> Nat]
  BY AtMostType
<1>2. \A a \in Attempts : AtMost(f)[a] <= AtMost(e)[a]
  BY AttemptIds, LedgerAssumption DEF AtMost
<1> QED BY <1>1, <1>2, SumGrows DEF Ceiling

LEMMA CeilingKept ==
  ASSUME NEW e \in [Attempts -> Events], NEW f \in [Attempts -> Events],
         \A k \in Batches : f[Model(k)].amount = e[Model(k)].amount
  PROVE  Ceiling(f) = Ceiling(e)
<1>1. \A a \in Attempts : AtMost(f)[a] = AtMost(e)[a]
  BY AttemptIds DEF AtMost
<1>2. AtMost(f) = AtMost(e)
  BY <1>1 DEF AtMost
<1> QED BY <1>2 DEF Ceiling

\* ... and moves with each of them.
LEMMA CeilingMoves ==
  ASSUME NEW e \in [Attempts -> Events], NEW k \in Batches, NEW event \in Events
  PROVE  Ceiling([e EXCEPT ![Model(k)] = event])
           = Ceiling(e) - e[Model(k)].amount + event.amount
<1> DEFINE f == [e EXCEPT ![Model(k)] = event]
<1> USE AttemptIds
<1>1. AtMost(e) \in [Attempts -> Nat] /\ Model(k) \in Attempts /\ event.amount \in Nat
  BY AtMostType DEF Events
<1>2. AtMost(e)[Model(k)] = e[Model(k)].amount
  BY DEF AtMost
<1>3. AtMost(f) = [AtMost(e) EXCEPT ![Model(k)] = event.amount]
  <2>1. \A a \in Attempts : f[a] = IF a = Model(k) THEN event ELSE e[a]
    OBVIOUS
  <2> HIDE DEF f
  <2>2. \A a \in Attempts : AtMost(f)[a] = IF a = Model(k) THEN event.amount ELSE AtMost(e)[a]
    BY <2>1 DEF AtMost
  <2> QED BY <1>1, <2>2 DEF AtMost
<1>4. SumOver([AtMost(e) EXCEPT ![Model(k)] = event.amount])
        = SumOver(AtMost(e)) - AtMost(e)[Model(k)] + event.amount
  BY <1>1, SumReplaces
<1> QED BY <1>2, <1>3, <1>4 DEF Ceiling

\* Before the first batch it is what the parser calls are reserved.
LEMMA CeilingOfParses ==
  ASSUME NEW e \in [Attempts -> Events], \A k \in Batches : e[Model(k)].amount = 0
  PROVE  Ceiling(e) = N * ParseReserve
<1>1. AtMost(e) = Calls(Docs)
  BY AttemptIds DEF AtMost, Calls
<1>2. SumOver(Calls(Docs)) = Cardinality(Docs) * ParseReserve
  BY CallsSum
<1> QED BY <1>1, <1>2, AttemptsAreFinite DEF Ceiling

\* A parser call fits the reserve of those started, and is one of N.
LEMMA TotalOfParses ==
  ASSUME NEW e \in [Attempts -> Events], NEW D \in SUBSET Docs, ParsesBounded(e),
         \A k \in Batches : e[Model(k)].amount = 0,
         \A d \in Docs \ D : e[Parse(d)].amount = 0
  PROVE  /\ Cardinality(D) \in Nat /\ Cardinality(D) <= N
         /\ Total(e) <= Cardinality(D) * ParseReserve
<1>1. Amounts(e) \in [Attempts -> Nat] /\ Total(e) = SumOver(Amounts(e))
  BY TotalIsSum
<1>2. Calls(D) \in [Attempts -> Nat]
  BY LedgerAssumption DEF Calls
<1>3. \A a \in Attempts : Amounts(e)[a] <= Calls(D)[a]
  BY AttemptIds, LedgerAssumption DEF Amounts, Calls, ParsesBounded
<1>4. SumOver(Calls(D)) = Cardinality(D) * ParseReserve
  BY CallsSum
<1>5. Cardinality(D) \in Nat /\ Cardinality(D) <= N
  BY AttemptsAreFinite, FS_Subset, FS_CardinalityType
<1> QED BY <1>1, <1>2, <1>3, <1>4, <1>5, SumGrows

-----------------------------------------------------------------------------
(* Prices of batches *)

\* Rounding up two prices costs at most one more than rounding up their sum.
LEMMA PriceSplits ==
  ASSUME NEW i \in Nat, NEW j \in Nat, NEW o \in Nat, NEW p \in Nat
  PROVE  Price(i, o) + Price(j, p) <= Price(i + j, o + p) + 1
BY DEF Price

Last == Len(InputTokens)

LEMMA InputFromSums ==
  ASSUME NEW k \in 1..(Last + 1)
  PROVE  /\ IsFiniteSet(k..Last) /\ \A i \in k..Last : InputTokens[i] \in Nat
         /\ \E g : Sums(g, InputTokens, k..Last) /\ InputFrom(k) = g[k..Last]
<1>1. Last \in Nat /\ k \in Int
  BY LedgerAssumption DEF Last
<1>2. IsFiniteSet(k..Last)
  BY <1>1, FS_Interval
<1>3. \A i \in k..Last : InputTokens[i] \in Nat
  <2>1. InputTokens \in Seq(Nat)
    BY LedgerAssumption
  <2> QED BY <1>1, <2>1 DEF Last
<1>4. PICK g : Sums(g, InputTokens, k..Last)
  BY <1>2, <1>3, SumExists
<1>5. \E h : /\ h = [s \in SUBSET (k..Last) |-> IF s = {} THEN 0
                                     ELSE InputTokens[Pick(s)] + h[s \ {Pick(s)}]]
             /\ InputFrom(k) = h[k..Last]
  BY <1>4 DEF Sums, InputFrom, MapThenSumSet, MapThenFoldSet, Pick, Last
<1> QED BY <1>2, <1>3, <1>5 DEF Sums

LEMMA InputFromType ==
  ASSUME NEW k \in 1..(Last + 1)
  PROVE  InputFrom(k) \in Nat
<1>1. PICK g : Sums(g, InputTokens, k..Last) /\ InputFrom(k) = g[k..Last]
  BY InputFromSums
<1>2. IsFiniteSet(k..Last) /\ \A i \in k..Last : InputTokens[i] \in Nat
  BY InputFromSums
<1>3. \A s \in SUBSET (k..Last) : g[s] \in Nat
  BY <1>1, <1>2, SumIsNatural
<1> QED BY <1>1, <1>3

LEMMA InputFromNext ==
  ASSUME NEW k \in 1..Last
  PROVE  InputFrom(k) = InputTokens[k] + InputFrom(k + 1)
<1> DEFINE here == k..Last
           next == (k + 1)..Last
<1>1. Last \in Nat /\ k \in 1..(Last + 1) /\ k + 1 \in 1..(Last + 1)
  BY LedgerAssumption DEF Last
<1>2. next = here \ {k} /\ k \in here /\ next \in SUBSET here
  BY <1>1
<1>3. PICK g : Sums(g, InputTokens, here) /\ InputFrom(k) = g[here]
  BY <1>1, InputFromSums
<1>4. PICK h : Sums(h, InputTokens, next) /\ InputFrom(k + 1) = h[next]
  BY <1>1, InputFromSums
<1>5. /\ IsFiniteSet(here) /\ \A i \in here : InputTokens[i] \in Nat
      /\ IsFiniteSet(next) /\ \A i \in next : InputTokens[i] \in Nat
  BY <1>1, InputFromSums
<1> HIDE DEF here, next
<1>0. Sums(g, InputTokens, here) /\ Sums(h, InputTokens, next)
  BY <1>3, <1>4
<1>6. g[here] = InputTokens[k] + g[next]
  <2>1. here \in SUBSET here /\ k \in here
    BY <1>2
  <2>2. IsFiniteSet(here) /\ \A x \in here : InputTokens[x] \in Nat
    BY <1>5
  <2>3. Sums(g, InputTokens, here)
    BY <1>0
  <2>4. \A x \in here : g[here] = InputTokens[x] + g[here \ {x}]
    BY <2>2, <2>3, SumOfRest
  <2>5. g[here] = InputTokens[k] + g[here \ {k}]
    BY <2>1, <2>4
  <2> QED BY <1>2, <2>5
<1>7. \A i \in next : InputTokens[i] <= InputTokens[i]
  BY <1>5
<1>8. g[next] <= h[next]
  <2>1. \A s \in SUBSET here : s \subseteq next /\ (\A x \in s : InputTokens[x] <= InputTokens[x])
                               => g[s] <= h[s]
    BY <1>0, <1>5, SumIsMonotone
  <2> QED BY <1>2, <1>7, <2>1
<1>9. h[next] <= g[next]
  <2>1. \A s \in SUBSET next : s \subseteq here /\ (\A x \in s : InputTokens[x] <= InputTokens[x])
                               => h[s] <= g[s]
    BY <1>0, <1>5, SumIsMonotone
  <2> QED BY <1>2, <1>7, <2>1
<1>10. g[next] \in Nat
  <2>1. \A s \in SUBSET here : g[s] \in Nat
    BY <1>3, <1>5, SumIsNatural
  <2> QED BY <1>2, <2>1
<1>11. h[next] \in Nat
  <2>1. \A s \in SUBSET next : h[s] \in Nat
    BY <1>4, <1>5, SumIsNatural
  <2> QED BY <2>1
<1> QED BY <1>3, <1>4, <1>6, <1>8, <1>9, <1>10, <1>11

LEMMA MultiPriceType ==
  ASSUME NEW k \in 1..(Last + 1), NEW out \in Nat
  PROVE  MultiPrice(k, out) \in Nat
<1>1. Last \in Nat /\ k \in Int
  BY LedgerAssumption DEF Last
<1>2. Price(InputFrom(k), out) \in Nat
  BY InputFromType, PriceIsNatural
<1> QED BY <1>1, <1>2 DEF MultiPrice, Last

\* What the batches from k on are estimated at together pays for batch k and for
\* the estimate of the rest, however the output tokens are divided.
LEMMA MultiPriceStep ==
  ASSUME NEW k \in Batches, NEW out \in Nat, NEW rest \in Nat
  PROVE  Price(InputTokens[k], out) + MultiPrice(k + 1, rest) <= MultiPrice(k, out + rest)
<1>1. Last \in Nat /\ k \in 1..Last /\ InputTokens[k] \in Nat
  BY LedgerAssumption DEF Last, Batches
<1>2. k + 1 \in 1..(Last + 1)
  BY <1>1
<1>3. InputFrom(k + 1) \in Nat /\ InputFrom(k) = InputTokens[k] + InputFrom(k + 1)
  BY <1>1, <1>2, InputFromType, InputFromNext
<1>4. Price(InputTokens[k], out) + Price(InputFrom(k + 1), rest)
        <= Price(InputFrom(k), out + rest) + 1
  BY <1>1, <1>3, PriceSplits
<1>5. /\ Price(InputTokens[k], out) \in Nat
      /\ Price(InputFrom(k + 1), rest) \in Nat
      /\ Price(InputFrom(k), out + rest) \in Nat
  <2>1. InputFrom(k) \in Nat /\ out + rest \in Nat
    BY <1>1, <1>3
  <2> QED BY <1>1, <1>3, <2>1, PriceIsNatural
<1>6. MultiPrice(k, out + rest) = Price(InputFrom(k), out + rest) + Last - k
  BY <1>1 DEF MultiPrice, Last
<1>7. CASE k = Last
  <2>1. MultiPrice(k + 1, rest) = 0
    BY <1>1, <1>7 DEF MultiPrice, Last
  <2>2. Price(InputTokens[k], out) <= Price(InputFrom(k), out + rest)
    BY <1>1, <1>3 DEF Price
  <2> QED BY <1>1, <1>5, <1>6, <1>7, <2>1, <2>2
<1>8. CASE k # Last
  <2>1. MultiPrice(k + 1, rest) = Price(InputFrom(k + 1), rest) + Last - (k + 1)
    BY <1>1, <1>8 DEF MultiPrice, Last
  <2> QED BY <1>1, <1>4, <1>5, <1>6, <2>1
<1> QED BY <1>7, <1>8

-----------------------------------------------------------------------------
(* The invariant of the amounts *)

\* The whole plan fits what was reserved: otherwise nothing is ever paid for.
Planned == Reserved <= MaxRunCost /\ ParsePlan + Infra <= Reserved

PlanInv ==
  Planned \/ /\ Steps({"plan", "recover", "settleFailure", "over"})
             /\ \A a \in Attempts : charged[a] = 0

\* No parser call is recorded or remembered beyond its reserve, and the worker
\* remembers of a batch what the row says or nothing.
EventInv ==
  /\ ParsesBounded(row.events) /\ ParsesBounded(wk.mem)
  /\ \A k \in Batches : wk.mem[Model(k)] \in {NoEvent, row.events[Model(k)]}

\* The batches are called in order, each with the floors of the later ones kept.
OutputLeft == OutputTokens - wk.used

QueueInv ==
  /\ Steps({"plan", "parse", "merge", "preflight"}) => wk.k = 1 /\ wk.used = 0
  /\ Steps(UpToMark) => \A j \in Batches : j >= wk.k => row.events[Model(j)] = NoEvent
  /\ Steps({"call", "settleBatch"}) =>
       \A j \in Batches : j > wk.k => row.events[Model(j)] = NoEvent
  /\ Steps({"markBatch"}) => OutputFloors[wk.k] + LaterFloors[wk.k] <= OutputLeft
  /\ Steps({"call"}) => LaterFloors[wk.k] <= OutputLeft
  /\ Steps({"settleBatch"}) /\ wk.outcome.state = "succeeded" => LaterFloors[wk.k] <= OutputLeft

\* What the row may still come to, the batches to come included, is in the plan.
CeilingInv ==
  /\ Ceiling(row.events) <= ParsePlan
  /\ Steps({"markBatch", "call"}) =>
       Ceiling(row.events) - row.events[Model(wk.k)].amount + MultiPrice(wk.k, OutputLeft)
         <= ParsePlan
  /\ Steps({"settleBatch"}) =>
       /\ wk.outcome.amount <= row.events[Model(wk.k)].amount
       /\ wk.outcome.state = "succeeded" =>
            Ceiling(row.events) - row.events[Model(wk.k)].amount + wk.outcome.amount
              + MultiPrice(wk.k + 1, OutputLeft) <= ParsePlan

\* A settlement is for no less than was spent, and nothing is spent after one.
SettleInv ==
  /\ refused = "no" /\ row.cost \in Nat
  /\ settled \in Nat \cup {Unsettled}
  /\ Steps(UpToBatches \cup {"verify", "settle"}) => settled = Unsettled
  /\ Steps({"settle"}) => wk.due \in Nat /\ Spent <= wk.due /\ wk.due <= Reserved
  /\ Steps({"settleFailure"}) => wk.due \in Nat /\ wk.due >= Reserved
  /\ settled # Unsettled => Spent <= settled

AInv == PlanInv /\ EventInv /\ QueueInv /\ CeilingInv /\ SettleInv

LEMMA PlanIsNatural ==
  ParsePlan \in Nat /\ N * ParseReserve \in Nat /\ N * ParseReserve <= ParsePlan
<1>1. N * ParseReserve \in Nat /\ ModelReserve \in Nat
  BY LedgerAssumption
<1> QED BY <1>1 DEF ParsePlan

\* What was spent is within the plan, and within what was reserved.
LEMMA SpentIsReserved ==
  ASSUME LInv, PlanInv, EventInv, CeilingInv
  PROVE  Spent \in Nat /\ Spent <= ParsePlan /\ Spent <= Reserved
<1>1. /\ row.events \in [Attempts -> Events] /\ charged \in [Attempts -> Nat]
      /\ \A a \in Attempts : charged[a] <= row.events[a].amount
  BY DEF LInv, Shape, RowShape, Covered
<1>2. Spent \in Nat /\ Spent = SumOver(charged)
  BY <1>1, SpentIsSum
<1>3. /\ Amounts(row.events) \in [Attempts -> Nat] /\ Total(row.events) \in Nat
      /\ Total(row.events) = SumOver(Amounts(row.events))
  BY <1>1, TotalIsSum
<1>4. \A a \in Attempts : charged[a] <= Amounts(row.events)[a]
  BY <1>1 DEF Amounts
<1>5. Spent <= Total(row.events)
  BY <1>1, <1>2, <1>3, <1>4, SumGrows
<1>6. Total(row.events) <= Ceiling(row.events)
  BY <1>1, TotalFitsCeiling DEF EventInv
<1>7. Ceiling(row.events) \in Nat /\ Ceiling(row.events) <= ParsePlan
  BY <1>1, AtMostType DEF CeilingInv
<1>8. Spent <= ParsePlan
  BY <1>2, <1>3, <1>5, <1>6, <1>7, PlanIsNatural
<1>9. CASE Planned
  BY <1>2, <1>8, <1>9, PlanIsNatural, LedgerAssumption DEF Planned
<1>10. CASE ~Planned
  <2>1. \A a \in Attempts : charged[a] = 0
    BY <1>10 DEF PlanInv
  <2>2. Calls({}) \in [Attempts -> Nat] /\ \A a \in Attempts : charged[a] <= Calls({})[a]
    BY <2>1 DEF Calls
  <2>3. Spent <= SumOver(Calls({}))
    BY <1>1, <1>2, <2>2, SumGrows
  <2>4. SumOver(Calls({})) = 0
    <3>1. SumOver(Calls({})) = Cardinality({}) * ParseReserve
      BY CallsSum
    <3> QED BY <3>1, FS_EmptySet, LedgerAssumption
  <2> QED BY <1>2, <1>8, <2>3, <2>4, LedgerAssumption
<1> QED BY <1>9, <1>10, <1>2, <1>8

LEMMA InitAmounts == Init => AInv
<1> SUFFICES ASSUME Init PROVE AInv
  OBVIOUS
<1> USE AttemptIds
<1>1. PlanInv
  BY DEF Init, PlanInv, Steps
<1>2. EventInv
  BY LedgerAssumption DEF Init, EventInv, ParsesBounded, NoEvent
<1>3. QueueInv
  BY DEF Init, QueueInv, Steps, UpToMark
<1>4. CeilingInv
  <2>1. row.events \in [Attempts -> Events] /\ \A k \in Batches : row.events[Model(k)].amount = 0
    BY DEF Init, NoEvent, Events, EventStates
  <2>2. Ceiling(row.events) = N * ParseReserve
    BY <2>1, CeilingOfParses
  <2> QED BY <2>2, PlanIsNatural DEF Init, CeilingInv, Steps
<1>5. SettleInv
  BY DEF Init, SettleInv, Steps, Unsettled
<1> QED BY <1>1, <1>2, <1>3, <1>4, <1>5 DEF AInv

-----------------------------------------------------------------------------
(* What the steps leave alone *)

LEMMA SpentKept == ASSUME charged' = charged PROVE Spent' = Spent
BY DEF Spent, MapThenSumSet, MapThenFoldSet

\* A step that charges nothing and settles nothing keeps what is known of the
\* settlement, if it leads to no settlement.
LEMMA NothingSettled ==
  ASSUME SettleInv, charged' = charged, settled' = settled, refused' = "no",
         row'.cost \in Nat,
         wk'.at \notin {"settle", "settleFailure"},
         wk'.at \in UpToBatches \cup {"verify"} => wk.at \in UpToBatches \cup {"verify", "settle"}
  PROVE  SettleInv'
<1>1. Spent' = Spent
  BY SpentKept
<1> QED BY <1>1 DEF SettleInv, Steps

\* After the last batch nothing is known but that the row is within the plan.
AfterBatches == {"lost", "billed", "verify", "settle", "publish", "recover", "settleFailure",
                 "over"}

LEMMA QueueIsOver == ASSUME wk'.at \in AfterBatches PROVE QueueInv'
BY DEF QueueInv, Steps, UpToMark, AfterBatches

LEMMA BatchesAreOver ==
  ASSUME CeilingInv, wk'.at \in AfterBatches,
         row.events \in [Attempts -> Events], row'.events \in [Attempts -> Events],
         \A k \in Batches : row'.events[Model(k)].amount <= row.events[Model(k)].amount
  PROVE  CeilingInv'
<1>1. Ceiling(row'.events) <= Ceiling(row.events)
  BY CeilingOfBatches
<1>2. Ceiling(row.events) \in Nat /\ Ceiling(row'.events) \in Nat /\ ParsePlan \in Nat
  BY AtMostType, PlanIsNatural
<1>3. Ceiling(row'.events) <= ParsePlan
  BY <1>1, <1>2 DEF CeilingInv
<1>4. ParsePlan' = ParsePlan /\ Ceiling(row.events)' = Ceiling(row'.events)
  OBVIOUS
<1> QED BY <1>3, <1>4 DEF CeilingInv, Steps, AfterBatches

\* The steps before the first batch leave the batches alone.
LEMMA BatchesNotBegun ==
  ASSUME LInv, LInv', QueueInv, CeilingInv,
         wk.at \in {"plan", "parse", "merge"}, wk'.at \in {"parse", "merge", "preflight"},
         wk'.k = wk.k, wk'.used = wk.used,
         \A k \in Batches : row'.events[Model(k)] = row.events[Model(k)]
  PROVE  QueueInv' /\ CeilingInv'
<1>1. QueueInv'
  BY DEF QueueInv, Steps, UpToMark
<1>2. row.events \in [Attempts -> Events] /\ row'.events \in [Attempts -> Events]
  BY DEF LInv, Shape, RowShape
<1>3. Ceiling(row'.events) = Ceiling(row.events)
  BY <1>2, CeilingKept
<1>4. ParsePlan' = ParsePlan /\ Ceiling(row.events)' = Ceiling(row'.events)
  OBVIOUS
<1>5. CeilingInv'
  BY <1>3, <1>4 DEF CeilingInv, Steps
<1> QED BY <1>1, <1>5

LEMMA EventsKept ==
  ASSUME EventInv, row'.events = row.events, wk'.mem = wk.mem
  PROVE  EventInv'
BY DEF EventInv, ParsesBounded

\* What is planned stays planned, and what is not is never charged.
LEMMA PlanKept ==
  ASSUME PlanInv,
         \/ wk.at \notin {"plan", "recover", "settleFailure", "over"}
         \/ charged' = charged /\ wk'.at \in {"recover", "settleFailure", "over"}
  PROVE  PlanInv'
<1>1. CASE Planned
  <2>1. Planned'
    BY <1>1 DEF Planned, ParsePlan
  <2> QED BY <2>1 DEF PlanInv
<1>2. CASE ~Planned
  BY <1>2 DEF PlanInv, Steps
<1> QED BY <1>1, <1>2

\* A step that gives up, or has no more to pay, and raises the amount of no batch.
LEMMA GivesUp ==
  ASSUME LInv, LInv', AInv, EventInv',
         wk'.at \in {"lost", "billed", "verify", "recover", "publish", "over"},
         wk.at \in UpToBatches \/ wk'.at \notin {"lost", "billed", "verify"},
         wk.at \in {"plan", "recover", "settleFailure", "over"} => wk'.at \in {"recover", "over"},
         charged' = charged, settled' = settled, refused' = refused, row'.cost \in Nat,
         \A k \in Batches : row'.events[Model(k)].amount <= row.events[Model(k)].amount
  PROVE  AInv'
<1> USE DEF AInv
<1>1. PlanInv'
  BY PlanKept
<1>3. wk'.at \in AfterBatches
  BY DEF AfterBatches
<1>4. QueueInv'
  BY <1>3, QueueIsOver
<1>5. CeilingInv'
  <2>1. row.events \in [Attempts -> Events] /\ row'.events \in [Attempts -> Events]
    BY DEF LInv, Shape, RowShape
  <2> QED BY <1>3, <2>1, BatchesAreOver
<1>6. SettleInv'
  <2>1. /\ refused' = "no" /\ row'.cost \in Nat /\ wk'.at \notin {"settle", "settleFailure"}
    BY DEF SettleInv
  <2>2. wk'.at \in UpToBatches \cup {"verify"} => wk.at \in UpToBatches \cup {"verify", "settle"}
    BY DEF UpToBatches
  <2> QED BY <2>1, <2>2, NothingSettled
<1> QED BY <1>1, <1>4, <1>5, <1>6

LEMMA AmountsAreNumbers ==
  ASSUME LInv, NEW k \in Batches
  PROVE  row.events[Model(k)] \in Events /\ row.events[Model(k)].amount \in Nat
BY AttemptIds DEF LInv, Shape, RowShape, Events

LEMMA Leaves ==
  ASSUME LInv, LInv', AInv,
         wk'.at \in {"lost", "billed", "recover", "publish", "over"},
         wk.at \in UpToBatches \/ wk'.at \notin {"lost", "billed"},
         wk.at \in {"plan", "recover", "settleFailure", "over"} => wk'.at \in {"recover", "over"},
         charged' = charged, settled' = settled, refused' = refused,
         row'.events = row.events, row'.cost = row.cost, wk'.mem = wk.mem
  PROVE  AInv'
<1>1. EventInv'
  BY EventsKept DEF AInv
<1>2. \A k \in Batches : row'.events[Model(k)].amount <= row.events[Model(k)].amount
  BY AmountsAreNumbers
<1>3. row'.cost \in Nat
  BY DEF AInv, SettleInv
<1> QED BY <1>1, <1>2, <1>3, GivesUp

LEMMA NothingPaid ==
  ASSUME AInv, wk' = wk, charged' = charged, settled' = settled, refused' = refused,
         row'.events = row.events, row'.cost = row.cost
  PROVE  AInv'
<1> USE DEF AInv
<1>1. PlanInv'
  BY DEF PlanInv, Steps, Planned, ParsePlan
<1>2. EventInv'
  BY EventsKept
<1>3. QueueInv'
  BY DEF QueueInv, Steps, OutputLeft
<1>4. CeilingInv'
  BY DEF CeilingInv, Steps, OutputLeft
<1>5. SettleInv'
  BY SpentKept DEF SettleInv, Steps
<1> QED BY <1>1, <1>2, <1>3, <1>4, <1>5

\* A step before the first batch that records no amount of one.
LEMMA BeforeBatches ==
  ASSUME LInv, LInv', AInv, EventInv',
         wk.at \in {"plan", "parse", "merge"}, wk'.at \in {"parse", "merge", "preflight"},
         wk.at = "plan" => Planned,
         wk'.k = wk.k, wk'.used = wk.used,
         \A k \in Batches : row'.events[Model(k)] = row.events[Model(k)],
         settled' = settled, refused' = "no", row'.cost \in Nat
  PROVE  AInv'
<1> USE DEF AInv
<1>1. PlanInv'
  <2>1. Planned
    BY DEF PlanInv, Steps
  <2>2. Planned'
    BY <2>1 DEF Planned, ParsePlan
  <2> QED BY <2>2 DEF PlanInv
<1>2. QueueInv' /\ CeilingInv'
  BY BatchesNotBegun
<1>3. SettleInv'
  <2>1. settled = Unsettled
    BY DEF SettleInv, Steps, UpToBatches
  <2> QED BY <2>1 DEF SettleInv, Steps, Unsettled
<1> QED BY <1>1, <1>2, <1>3

-----------------------------------------------------------------------------
(* The amounts during the parser calls *)

LEMMA PlanAmounts == ASSUME LInv, LInv', AInv, Plan PROVE AInv'
<1> USE DEF AInv
<1>1. /\ wk.at = "plan" /\ row' = row /\ charged' = charged /\ settled' = settled
      /\ refused' = refused /\ refused = "no"
  BY DEF Plan, SettleInv
<1>2. wk'.mem = wk.mem /\ wk'.k = wk.k /\ wk'.used = wk.used
  BY DEF Plan, Goto, LInv, Shape, WorkerShape
<1>3. CASE Fits(ParsePlan + Infra, 0)
  <2>1. wk'.at = "parse"
    BY <1>3 DEF Plan, LInv, Shape, WorkerShape
  <2>2. Planned
    BY <1>3, PlanIsNatural, LedgerAssumption DEF Fits, Planned
  <2>3. EventInv' /\ row'.cost \in Nat
    BY <1>1, <1>2, EventsKept DEF SettleInv
  <2> QED BY <1>1, <1>2, <2>1, <2>2, <2>3, BeforeBatches
<1>4. CASE ~Fits(ParsePlan + Infra, 0)
  <2>1. wk'.at = "recover"
    BY <1>4, WorkerGoes DEF Plan, LInv, Shape
  <2> QED BY <1>1, <1>2, <2>1, Leaves
<1> QED BY <1>3, <1>4

LEMMA NotStartedAmounts ==
  ASSUME LInv, LInv', AInv, NEW d \in Docs, NotStarted(d) \/ CleanupFails(d) PROVE AInv'
<1> USE DEF AInv
<1>1. /\ wk' = Step(d, "failed") /\ row' = row /\ settled' = settled /\ wk.at = "parse"
      /\ refused' = "no" /\ row'.cost \in Nat
  BY DEF NotStarted, CleanupFails, SettleInv
<1>2. wk'.mem = wk.mem /\ wk'.at = wk.at /\ wk'.k = wk.k /\ wk'.used = wk.used
  BY <1>1, DocumentGoes DEF LInv, Shape, DocSteps
<1>3. EventInv'
  BY <1>1, <1>2, EventsKept
<1> QED BY <1>1, <1>2, <1>3, BeforeBatches

\* While documents are parsed no batch has an event.
LEMMA NoBatchYet ==
  ASSUME QueueInv, wk.at \in {"parse", "merge", "preflight"}
  PROVE  \A k \in Batches : row.events[Model(k)] = NoEvent
BY LedgerAssumption DEF QueueInv, Steps, UpToMark, Batches

LEMMA ShareOfReserves ==
  ASSUME NEW c \in Nat, NEW n \in Nat, NEW p \in Nat, c <= n
  PROVE  c * p + (n - c) * p = n * p /\ (n - c) * p \in Nat
OBVIOUS

LEMMA MarkStartedAmounts ==
  ASSUME LInv, LInv', AInv, NEW d \in Docs, MarkStarted(d) PROVE AInv'
<1> DEFINE pending == Event("pending", ParseReserve)
           marked == [row.events EXCEPT ![Parse(d)] = pending]
           begun == StartedDocs \cup {d}
           remaining == (N - Cardinality(begun)) * ParseReserve + ModelReserve
<1> USE AttemptIds DEF AInv
<1>0. RowShape /\ WorkerShape
  BY DEF LInv, Shape
<1>1. /\ pending \in Events /\ pending.amount = ParseReserve /\ pending.state = "pending"
      /\ marked \in [Attempts -> Events]
  BY <1>0, LedgerAssumption DEF Event, Events, EventStates, RowShape
<1>2. wk.at = "parse" /\ \A k \in Batches : row.events[Model(k)] = NoEvent
  BY NoBatchYet DEF MarkStarted
<1>3. Total(marked) \in Nat
  BY <1>1, TotalIsSum
<1>4. /\ WithEvent(Parse(d), pending).events = marked
      /\ WithEvent(Parse(d), pending).cost = Total(marked)
  BY <1>0 DEF WithEvent, RowShape
<1>5. /\ Cardinality(begun) \in Nat /\ Cardinality(begun) <= N
      /\ Total(marked) <= Cardinality(begun) * ParseReserve
  <2> HIDE DEF pending
  <2>1. ParsesBounded(marked)
    <3>1. /\ row.events \in [Attempts -> Events] /\ ParsesBounded(row.events)
          /\ pending.amount <= ParseReserve /\ pending.state # "none"
      BY <1>0, <1>1, LedgerAssumption DEF EventInv, RowShape
    <3> QED BY <3>1, ParsesStayBounded
  <2>2. \A k \in Batches : marked[Model(k)].amount = 0
    BY <1>0, <1>2 DEF NoEvent, RowShape
  <2>3. \A e \in Docs \ begun : marked[Parse(e)].amount = 0
    BY <1>0 DEF StartedDocs, EventInv, ParsesBounded, RowShape
  <2>4. begun \in SUBSET Docs
    BY DEF StartedDocs
  <2> HIDE DEF begun, marked
  <2> QED BY <1>1, <2>1, <2>2, <2>3, <2>4, TotalOfParses
<1>6. Fits(Total(marked), remaining)
  <2>1. Planned
    BY <1>2 DEF PlanInv, Steps
  <2>2. /\ Cardinality(begun) * ParseReserve + (N - Cardinality(begun)) * ParseReserve
             = N * ParseReserve
        /\ (N - Cardinality(begun)) * ParseReserve \in Nat
    BY <1>5, LedgerAssumption, ShareOfReserves
  <2>3. /\ N * ParseReserve \in Nat /\ ModelReserve \in Nat /\ Infra \in Nat /\ Reserved \in Nat
        /\ Cardinality(begun) * ParseReserve \in Nat
    BY <1>5, LedgerAssumption
  <2> HIDE DEF begun, marked
  <2> QED BY <1>3, <1>5, <2>1, <2>2, <2>3 DEF Fits, Planned, ParsePlan
<1>7. /\ row' = row \/ row' = WithEvent(Parse(d), pending)
      /\ \/ wk' = Step(d, "failed")
         \/ wk' = Remember(d, "dispatch", pending)
      /\ settled' = settled /\ refused' = refused
  BY <1>4, <1>6 DEF MarkStarted, MarkPending, Guarded
<1> HIDE DEF marked, remaining, begun, pending
<1>8. /\ row'.events = row.events \/ row'.events = marked
      /\ row'.cost \in Nat /\ refused' = "no"
  BY <1>3, <1>4, <1>7 DEF SettleInv
<1>9. /\ wk'.at = wk.at /\ wk'.k = wk.k /\ wk'.used = wk.used
      /\ wk'.mem = wk.mem \/ wk'.mem = [wk.mem EXCEPT ![Parse(d)] = pending]
  <2>1. CASE wk' = Step(d, "failed")
    BY <1>0, <2>1, DocumentGoes DEF DocSteps
  <2>2. CASE wk' = Remember(d, "dispatch", pending)
    <3>1. pending \in Events /\ "dispatch" \in DocSteps
      BY <1>1 DEF DocSteps
    <3>2. WorkerShape
      BY <1>0
    <3>3. /\ wk'.mem = [wk.mem EXCEPT ![Parse(d)] = pending]
          /\ wk'.at = wk.at /\ wk'.k = wk.k /\ wk'.used = wk.used
      BY <2>2, <3>1, <3>2 DEF WorkerShape, Remember
    <3> QED BY <3>3
  <2> QED BY <1>7, <2>1, <2>2
<1>10. \A k \in Batches : row'.events[Model(k)] = row.events[Model(k)]
  BY <1>0, <1>8 DEF marked, RowShape
<1>11. EventInv'
  <2>1. pending.amount <= ParseReserve /\ pending.state # "none"
    BY <1>1, LedgerAssumption
  <2>2. ParsesBounded(row'.events)
    BY <1>0, <1>8, <2>1, ParsesStayBounded DEF EventInv, marked, RowShape
  <2>3. ParsesBounded(wk'.mem)
    BY <1>0, <1>9, <2>1, ParsesStayBounded DEF EventInv, WorkerShape
  <2>4. \A k \in Batches : wk'.mem[Model(k)] = wk.mem[Model(k)]
    BY <1>0, <1>9 DEF WorkerShape
  <2> QED BY <1>10, <2>2, <2>3, <2>4 DEF EventInv
<1> QED BY <1>2, <1>7, <1>8, <1>9, <1>10, <1>11, BeforeBatches

LEMMA DispatchAmounts ==
  ASSUME Honest, LInv, LInv', AInv, NEW d \in Docs, Dispatch(d) PROVE AInv'
<1> USE AttemptIds DEF AInv
<1>0. WorkerShape
  BY DEF LInv, Shape
<1>1. /\ wk.at = "parse" /\ row' = row /\ settled' = settled /\ refused' = "no"
      /\ row'.cost \in Nat
      /\ \/ \E state \in {"succeeded", "failed"}, amount \in ParseCharges \cup {ParseReserve} :
              wk' = Remember(d, "capture", Event(state, amount))
         \/ wk' = Step(d, "failed")
  BY DEF Dispatch, SettleInv
<1>2. /\ wk'.at = wk.at /\ wk'.k = wk.k /\ wk'.used = wk.used
      /\ \/ wk'.mem = wk.mem
         \/ \E e \in Events : /\ e.amount <= ParseReserve /\ e.state # "none"
                             /\ wk'.mem = [wk.mem EXCEPT ![Parse(d)] = e]
  <2>1. CASE wk' = Step(d, "failed")
    BY <1>0, <2>1, DocumentGoes DEF DocSteps
  <2>2. ASSUME NEW state \in {"succeeded", "failed"},
               NEW amount \in ParseCharges \cup {ParseReserve},
               wk' = Remember(d, "capture", Event(state, amount))
        PROVE  <1>2
    <3>1. /\ Event(state, amount) \in Events /\ Event(state, amount).amount <= ParseReserve
          /\ Event(state, amount).state # "none"
      BY LedgerAssumption DEF Honest, Event, Events, EventStates
    <3> QED BY <1>0, <2>2, <3>1, DocumentRemembers DEF DocSteps
  <2> QED BY <1>1, <2>1, <2>2
<1>3. EventInv'
  <2>1. ParsesBounded(wk'.mem)
    <3>1. ParsesBounded(wk.mem) /\ wk.mem \in [Attempts -> Events]
      BY <1>0 DEF EventInv, WorkerShape
    <3>2. ASSUME NEW e \in Events, e.amount <= ParseReserve, e.state # "none"
          PROVE  ParsesBounded([wk.mem EXCEPT ![Parse(d)] = e])
      BY <3>1, <3>2, ParsesStayBounded
    <3> QED BY <1>2, <3>1, <3>2
  <2>2. \A k \in Batches : wk'.mem[Model(k)] = wk.mem[Model(k)]
    BY <1>0, <1>2 DEF WorkerShape
  <2> QED BY <1>1, <2>1, <2>2 DEF EventInv
<1> QED BY <1>1, <1>2, <1>3, BeforeBatches

LEMMA CaptureAmounts == ASSUME LInv, LInv', AInv, NEW d \in Docs, Capture(d) PROVE AInv'
<1> DEFINE event == wk.mem[Parse(d)]
           unknown == Event("pending", ParseReserve)
           captured == [row.events EXCEPT ![Parse(d)] = event]
<1> USE AttemptIds DEF AInv
<1>0. RowShape /\ WorkerShape
  BY DEF LInv, Shape
<1>1. /\ event \in Events /\ event.amount <= ParseReserve
      /\ event.state = "none" => event.amount = 0
      /\ unknown \in Events /\ unknown.amount <= ParseReserve /\ unknown.state # "none"
      /\ captured \in [Attempts -> Events]
  <2>1. event \in Events
    BY <1>0 DEF WorkerShape
  <2>2. event.amount <= ParseReserve /\ (event.state = "none" => event.amount = 0)
    BY DEF EventInv, ParsesBounded
  <2>3. unknown \in Events /\ unknown.amount <= ParseReserve /\ unknown.state # "none"
    BY LedgerAssumption DEF Event, Events, EventStates
  <2>4. captured \in [Attempts -> Events]
    BY <1>0, <2>1 DEF RowShape
  <2> QED BY <2>1, <2>2, <2>3, <2>4
<1>2. /\ wk.at = "parse" /\ settled' = settled /\ refused' = "no"
      /\ row' = row \/ row' = WithEvent(Parse(d), event)
      /\ (\E step \in {"parsed", "failed"} : wk' = Step(d, step))
           \/ wk' = Remember(d, "failed", unknown)
  BY DEF Capture, Guarded, SettleInv
<1>3. Total(captured) \in Nat
  BY <1>1, TotalIsSum
<1>4. /\ WithEvent(Parse(d), event).events = captured
      /\ WithEvent(Parse(d), event).cost = Total(captured)
  BY <1>0 DEF WithEvent, RowShape
<1> HIDE DEF event, captured, unknown
<1>5. /\ row'.events = row.events \/ row'.events = captured
      /\ row'.cost \in Nat
  BY <1>2, <1>3, <1>4 DEF SettleInv
<1>6. /\ wk'.at = wk.at /\ wk'.k = wk.k /\ wk'.used = wk.used
      /\ wk'.mem = wk.mem \/ wk'.mem = [wk.mem EXCEPT ![Parse(d)] = unknown]
  <2>1. ASSUME NEW step \in {"parsed", "failed"}, wk' = Step(d, step) PROVE <1>6
    BY <1>0, <2>1, DocumentGoes DEF DocSteps
  <2>2. CASE wk' = Remember(d, "failed", unknown)
    <3>1. WorkerShape
      BY <1>0
    <3>2. /\ wk'.mem = [wk.mem EXCEPT ![Parse(d)] = unknown]
          /\ wk'.at = wk.at /\ wk'.k = wk.k /\ wk'.used = wk.used
      BY <2>2, <3>1 DEF WorkerShape, Remember
    <3> QED BY <3>2
  <2> QED BY <1>2, <2>1, <2>2
<1>7. \A k \in Batches : /\ row'.events[Model(k)] = row.events[Model(k)]
                         /\ wk'.mem[Model(k)] = wk.mem[Model(k)]
  BY <1>0, <1>5, <1>6 DEF captured, RowShape, WorkerShape
<1>8. EventInv'
  <2>1. ParsesBounded(row'.events)
    BY <1>0, <1>1, <1>5, ParsesStayBounded DEF EventInv, captured, RowShape
  <2>2. ParsesBounded(wk'.mem)
    BY <1>0, <1>1, <1>6, ParsesStayBounded DEF EventInv, WorkerShape
  <2> QED BY <1>7, <2>1, <2>2 DEF EventInv
<1> QED BY <1>2, <1>5, <1>6, <1>7, <1>8, BeforeBatches

LEMMA BatchEndsAmounts == ASSUME LInv, LInv', AInv, BatchEnds PROVE AInv'
<1> USE DEF AInv
<1>1. /\ wk.at = "parse" /\ row' = row /\ settled' = settled /\ refused' = "no"
      /\ row'.cost \in Nat
  BY DEF BatchEnds, SettleInv
<1>2. /\ wk'.at \in {"parse", "merge"} /\ wk'.k = wk.k /\ wk'.used = wk.used
      /\ wk'.mem = wk.mem
  BY DEF BatchEnds, Goto, LInv, Shape, WorkerShape
<1>3. EventInv'
  BY <1>1, <1>2, EventsKept
<1> QED BY <1>1, <1>2, <1>3, BeforeBatches

\* A merge with the memory of the worker keeps the bounds, and every batch.
LEMMA MergeAmounts ==
  ASSUME LInv, EventInv
  PROVE  /\ ParsesBounded(Merged(row.events))
         /\ \A k \in Batches : Merged(row.events)[Model(k)] = row.events[Model(k)]
BY AttemptIds DEF EventInv, ParsesBounded, Merged

LEMMA MergeStepAmounts == ASSUME LInv, LInv', AInv, Merge PROVE AInv'
<1> DEFINE merged == Merged(row.events)
<1> USE AttemptIds DEF AInv
<1>0. RowShape /\ WorkerShape
  BY DEF LInv, Shape
<1>1. /\ charged' = charged /\ (row' = row \/ row' = [row EXCEPT !.events = merged])
      /\ settled' = settled /\ refused' = refused /\ refused = "no"
      /\ wk.at = "merge" /\ \E step \in {"preflight", "recover"} : wk' = Goto(step)
  BY DEF Merge, Guarded, SettleInv
<1>2. /\ wk'.at \in {"preflight", "recover"} /\ wk'.mem = wk.mem
      /\ wk'.k = wk.k /\ wk'.used = wk.used
  BY <1>0, <1>1, WorkerGoes
<1>3. /\ ParsesBounded(merged) /\ merged \in [Attempts -> Events]
      /\ \A k \in Batches : merged[Model(k)] = row.events[Model(k)]
  BY MergeAmounts, MergeCovers
<1> HIDE DEF merged
<1>4. /\ row'.events \in {row.events, merged} /\ row'.cost = row.cost /\ row.cost \in Nat
  BY <1>0, <1>1 DEF RowShape, SettleInv
<1>5. EventInv'
  BY <1>2, <1>3, <1>4 DEF EventInv
<1>6. \A k \in Batches : row'.events[Model(k)] = row.events[Model(k)]
  BY <1>3, <1>4
<1>7. CASE wk'.at = "preflight"
  BY <1>1, <1>2, <1>4, <1>5, <1>6, <1>7, BeforeBatches
<1>8. CASE wk'.at = "recover"
  <2>1. \A k \in Batches : row'.events[Model(k)].amount <= row.events[Model(k)].amount
    BY <1>6, AmountsAreNumbers
  <2> QED BY <1>1, <1>4, <1>5, <1>8, <2>1, GivesUp
<1> QED BY <1>2, <1>7, <1>8

-----------------------------------------------------------------------------
(* The amounts during the model batches *)

LEMMA PreflightAmounts == ASSUME LInv, LInv', AInv, Preflight PROVE AInv'
<1> USE DEF AInv
<1>1. /\ wk.at = "preflight" /\ row' = row /\ charged' = charged /\ settled' = settled
      /\ refused' = refused /\ refused = "no" /\ row.cost \in Nat
      /\ wk.k = 1 /\ wk.used = 0
  BY DEF Preflight, SettleInv, QueueInv, Steps
<1>2. PICK step \in {"markBatch", "recover"} :
        /\ wk' = Goto(step)
        /\ step = "markBatch" => /\ OutputFloors[1] + LaterFloors[1] <= OutputTokens
                                 /\ MultiPrice(1, OutputTokens) <= ModelReserve
  BY DEF Preflight
<1>3. wk'.at = step /\ wk'.mem = wk.mem /\ wk'.k = wk.k /\ wk'.used = wk.used
  BY <1>2, WorkerGoes DEF LInv, Shape
<1>4. CASE step = "recover"
  BY <1>1, <1>3, <1>4, Leaves
<1>5. CASE step = "markBatch"
  <2>1. PlanInv'
    BY <1>1, PlanKept
  <2>2. EventInv'
    BY <1>1, <1>3, EventsKept
  <2>3. \A k \in Batches : row.events[Model(k)] = NoEvent
    BY <1>1, NoBatchYet
  <2>4. OutputTokens - 0 = OutputTokens /\ OutputTokens \in Nat
    BY LedgerAssumption
  <2>5. QueueInv'
    BY <1>1, <1>2, <1>3, <1>5, <2>3, <2>4 DEF QueueInv, Steps, UpToMark, OutputLeft
  <2>6. CeilingInv'
    <3>1. 1 \in Batches /\ 1 \in 1..(Last + 1)
      BY LedgerAssumption DEF Batches, Last
    <3>2. row.events[Model(1)].amount = 0
      BY <2>3, <3>1 DEF NoEvent
    <3>3. Ceiling(row.events) = N * ParseReserve
      BY <2>3, CeilingOfParses DEF NoEvent, LInv, Shape, RowShape
    <3>4. MultiPrice(1, OutputTokens) \in Nat /\ ModelReserve \in Nat
      BY <2>4, <3>1, MultiPriceType, LedgerAssumption
    <3>5. Ceiling(row.events) - 0 + MultiPrice(1, OutputTokens) <= ParsePlan
      BY <1>2, <1>5, <3>3, <3>4, PlanIsNatural DEF ParsePlan
    <3> QED BY <1>1, <1>3, <1>5, <2>4, <3>2, <3>5 DEF CeilingInv, Steps, OutputLeft
  <2>7. SettleInv'
    <3>1. wk'.at \notin {"settle", "settleFailure"} /\ wk.at \in UpToBatches
      BY <1>1, <1>3, <1>5 DEF UpToBatches
    <3> QED BY <1>1, <3>1, NothingSettled
  <2> QED BY <2>1, <2>2, <2>5, <2>6, <2>7
<1> QED BY <1>4, <1>5

\* What a batch may use: its price and the estimate of the later ones are in the
\* estimate that was accepted before it.
LEMMA BatchFits ==
  ASSUME WorkerShape, NEW n \in Nat, n <= OutputCap(wk.k, wk.used)
  PROVE  /\ LaterFloors[wk.k] \in Nat /\ OutputLeft \in Int /\ OutputLeft - n \in Nat
         /\ LaterFloors[wk.k] <= OutputLeft - n
         /\ OutputLeft - OutputCap(wk.k, wk.used) = LaterFloors[wk.k]
         /\ Price(InputTokens[wk.k], n) \in Nat /\ MultiPrice(wk.k + 1, OutputLeft - n) \in Nat
         /\ MultiPrice(wk.k, OutputLeft) \in Nat
         /\ Price(InputTokens[wk.k], n) + MultiPrice(wk.k + 1, OutputLeft - n)
              <= MultiPrice(wk.k, OutputLeft)
<1>1. wk.k \in Batches /\ wk.used \in Int
  BY DEF WorkerShape
<1>2. LaterFloors[wk.k] \in Nat /\ OutputTokens \in Nat /\ InputTokens[wk.k] \in Nat
  BY <1>1, CapIsInteger, LedgerAssumption
<1>3. /\ OutputLeft \in Int /\ OutputLeft - n \in Nat
      /\ LaterFloors[wk.k] <= OutputLeft - n /\ n + (OutputLeft - n) = OutputLeft
      /\ OutputLeft - OutputCap(wk.k, wk.used) = LaterFloors[wk.k]
      /\ OutputLeft \in Nat
  BY <1>1, <1>2 DEF OutputLeft, OutputCap
<1>4. wk.k \in 1..(Last + 1) /\ wk.k + 1 \in 1..(Last + 1)
  <2>1. Last \in Nat /\ wk.k \in 1..Last
    BY <1>1, LedgerAssumption DEF Last, Batches
  <2> QED BY <2>1
<1>5. Price(InputTokens[wk.k], n) \in Nat
  BY <1>2, PriceIsNatural
<1>6. MultiPrice(wk.k + 1, OutputLeft - n) \in Nat
  BY <1>3, <1>4, MultiPriceType
<1>7. MultiPrice(wk.k, OutputLeft) \in Nat
  BY <1>3, <1>4, MultiPriceType
<1>8. Price(InputTokens[wk.k], n) + MultiPrice(wk.k + 1, OutputLeft - n)
        <= MultiPrice(wk.k, n + (OutputLeft - n))
  BY <1>1, <1>3, MultiPriceStep
<1> QED BY <1>2, <1>3, <1>5, <1>6, <1>7, <1>8

\* A write of one batch event during the batches.
LEMMA BatchWritten ==
  ASSUME RowShape, WorkerShape, NEW e \in Events,
         AInv
  PROVE  /\ WithEvent(Model(wk.k), e).events = [row.events EXCEPT ![Model(wk.k)] = e]
         /\ WithEvent(Model(wk.k), e).cost \in Nat
         /\ WithEvent(Model(wk.k), e).cost
              <= Ceiling(row.events) - row.events[Model(wk.k)].amount + e.amount
         /\ Ceiling([row.events EXCEPT ![Model(wk.k)] = e])
              = Ceiling(row.events) - row.events[Model(wk.k)].amount + e.amount
         /\ Ceiling(row.events) \in Nat /\ row.events[Model(wk.k)].amount \in Nat
         /\ ParsesBounded([row.events EXCEPT ![Model(wk.k)] = e])
<1> DEFINE f == [row.events EXCEPT ![Model(wk.k)] = e]
<1> USE AttemptIds
<1>1. wk.k \in Batches /\ row.events \in [Attempts -> Events] /\ f \in [Attempts -> Events]
  BY DEF RowShape, WorkerShape
<1>2. WithEvent(Model(wk.k), e).events = f /\ WithEvent(Model(wk.k), e).cost = Total(f)
  BY DEF WithEvent, RowShape
<1>3. Ceiling(f) = Ceiling(row.events) - row.events[Model(wk.k)].amount + e.amount
  BY <1>1, CeilingMoves
<1>4. ParsesBounded(f)
  <2>1. \A d \in Docs : f[Parse(d)] = row.events[Parse(d)]
    BY <1>1
  <2> HIDE DEF f
  <2> QED BY <2>1 DEF AInv, EventInv, ParsesBounded
<1>5. Ceiling(row.events) \in Nat
  BY <1>1, AtMostType
<1>6. row.events[Model(wk.k)].amount \in Nat
  BY <1>1 DEF Events
<1> HIDE DEF f
<1>7. Total(f) \in Nat /\ Total(f) <= Ceiling(f)
  BY <1>1, <1>4, TotalIsSum, TotalFitsCeiling
<1>8. Total(f) <= Ceiling(row.events) - row.events[Model(wk.k)].amount + e.amount
  BY <1>3, <1>7
<1> QED BY <1>2, <1>3, <1>4, <1>5, <1>6, <1>7, <1>8 DEF f

\* The memory of the worker has no batch yet, whatever is written of one.
LEMMA EventsDuringBatches ==
  ASSUME LInv, wk.at \in UpToBatches, wk'.mem = wk.mem, EventInv, ParsesBounded(row'.events)
  PROVE  EventInv'
<1>1. \A k \in Batches : wk'.mem[Model(k)] = NoEvent
  BY DEF LInv, ModelInv, Steps
<1> QED BY <1>1 DEF EventInv

\* A batch that ends or is not begun, with the row within the plan.
LEMMA BatchIsLeft ==
  ASSUME LInv, LInv', AInv, EventInv', wk.at \in {"markBatch", "settleBatch"},
         wk'.at \in {"lost", "billed"},
         charged' = charged, settled' = settled, refused' = "no", row'.cost \in Nat,
         Ceiling(row'.events) <= ParsePlan
  PROVE  AInv'
<1> USE DEF AInv
<1>1. PlanInv'
  BY PlanKept
<1>2. wk'.at \in AfterBatches
  BY DEF AfterBatches
<1>3. QueueInv'
  BY <1>2, QueueIsOver
<1>4. CeilingInv'
  <2>1. ParsePlan' = ParsePlan /\ Ceiling(row.events)' = Ceiling(row'.events)
    OBVIOUS
  <2> QED BY <2>1 DEF CeilingInv, Steps
<1>5. SettleInv'
  <2>1. wk'.at \notin {"settle", "settleFailure"} /\ wk.at \in UpToBatches
    BY DEF UpToBatches
  <2> QED BY <2>1, NothingSettled
<1> QED BY <1>1, <1>3, <1>4, <1>5

LEMMA MarkBatchAmounts == ASSUME LInv, LInv', AInv, MarkBatch PROVE AInv'
<1> DEFINE k == wk.k
           cap == OutputCap(k, wk.used)
           floor == LaterFloors[k]
           pending == Event("pending", MaxCost(k, wk.used))
           marked == [row.events EXCEPT ![Model(k)] = pending]
           rest == MultiPrice(k + 1, floor)
           called == [wk EXCEPT !.at = "call", !.started = @ \cup {k}]
<1> USE AttemptIds DEF AInv
<1>0. RowShape /\ WorkerShape
  BY DEF LInv, Shape
<1>1. /\ wk.at = "markBatch" /\ charged' = charged /\ settled' = settled /\ k \in Batches
      /\ refused = "no"
  BY <1>0 DEF MarkBatch, SettleInv, WorkerShape
<1>2. /\ row.events[Model(k)] = NoEvent
      /\ \A j \in Batches : j >= k => row.events[Model(j)] = NoEvent
      /\ OutputFloors[k] + floor <= OutputLeft
      /\ Ceiling(row.events) - row.events[Model(k)].amount + MultiPrice(k, OutputLeft) <= ParsePlan
  <2>1. \A j \in Batches : j >= k => row.events[Model(j)] = NoEvent
    BY <1>1 DEF QueueInv, Steps, UpToMark
  <2>2. k \in Nat /\ k >= k
    BY <1>1, LedgerAssumption DEF Batches
  <2>3. OutputFloors[k] + floor <= OutputLeft
    BY <1>1 DEF QueueInv, Steps
  <2>4. Ceiling(row.events) - row.events[Model(k)].amount + MultiPrice(k, OutputLeft) <= ParsePlan
    BY <1>1 DEF CeilingInv, Steps
  <2> QED BY <1>1, <2>1, <2>2, <2>3, <2>4
<1>3. cap \in Nat /\ ~(cap < OutputFloors[k])
  <2>1. OutputFloors[k] \in Nat /\ floor \in Nat /\ OutputTokens \in Nat /\ wk.used \in Int
    BY <1>0, <1>1, LedgerAssumption DEF WorkerShape
  <2> QED BY <1>2, <2>1 DEF OutputCap, OutputLeft
<1>4. /\ floor \in Nat /\ OutputLeft - cap = floor /\ floor <= OutputLeft - cap
      /\ OutputLeft \in Int
      /\ MaxCost(k, wk.used) \in Nat /\ rest \in Nat /\ MultiPrice(k, OutputLeft) \in Nat
      /\ MaxCost(k, wk.used) + rest <= MultiPrice(k, OutputLeft)
  BY <1>0, <1>3, BatchFits DEF MaxCost
<1>5. pending \in Events /\ pending.amount = MaxCost(k, wk.used)
  BY <1>4 DEF Event, Events, EventStates
<1>6. row.events[Model(k)].amount = 0 /\ row.events[Model(k)].state = "none"
  BY <1>2 DEF NoEvent
<1>7. /\ WithEvent(Model(k), pending).events = marked
      /\ WithEvent(Model(k), pending).cost \in Nat
      /\ WithEvent(Model(k), pending).cost <= Ceiling(row.events) + pending.amount
      /\ Ceiling(marked) = Ceiling(row.events) + pending.amount
      /\ Ceiling(row.events) \in Nat /\ ParsesBounded(marked)
  BY <1>0, <1>5, <1>6, BatchWritten
<1> HIDE DEF pending, marked, cap, rest, floor
<1>8. Fits(WithEvent(Model(k), pending).cost, rest)
  <2>1. Planned
    BY <1>1 DEF PlanInv, Steps
  <2>2. WithEvent(Model(k), pending).cost + rest <= ParsePlan
    BY <1>2, <1>4, <1>5, <1>6, <1>7, PlanIsNatural
  <2>3. Infra \in Nat /\ Reserved \in Nat /\ ParsePlan \in Nat
    BY PlanIsNatural, LedgerAssumption
  <2>4. Reserved <= MaxRunCost /\ ParsePlan <= Reserved
    BY <2>1, <2>3 DEF Planned
  <2> QED BY <1>4, <1>7, <2>2, <2>3, <2>4 DEF Fits
<1>9. /\ refused' = refused
      /\ \/ wk' = Goto("lost") /\ row' \in {row, WithEvent(Model(k), pending)}
         \/ wk' = called /\ row' = WithEvent(Model(k), pending)
  BY <1>3, <1>6, <1>8 DEF MarkBatch, MarkPending, Guarded, cap, pending, rest, floor
<1>10. /\ row'.events = row.events \/ row'.events = marked
       /\ row'.cost \in Nat
  BY <1>7, <1>9 DEF SettleInv
<1>11. Ceiling(row'.events) <= ParsePlan /\ ParsesBounded(row'.events)
  <2>1. Ceiling(marked) <= ParsePlan
    BY <1>2, <1>4, <1>5, <1>6, <1>7, PlanIsNatural
  <2> QED BY <1>7, <1>10, <2>1 DEF CeilingInv, EventInv
<1>12. wk'.mem = wk.mem /\ wk'.k = k /\ wk'.used = wk.used
  <2>1. CASE wk' = Goto("lost")
    BY <1>0, <2>1, WorkerGoes
  <2>2. CASE wk' = called
    BY <1>0, <2>2 DEF WorkerShape
  <2> QED BY <1>9, <2>1, <2>2
<1>13. EventInv'
  BY <1>1, <1>11, <1>12, EventsDuringBatches DEF UpToBatches
<1>14. CASE wk' = Goto("lost")
  <2>1. wk'.at = "lost"
    BY <1>0, <1>14, WorkerGoes
  <2> QED BY <1>1, <1>9, <1>10, <1>11, <1>13, <2>1, BatchIsLeft
<1>15. CASE wk' = called /\ row' = WithEvent(Model(k), pending)
  <2>1. wk'.at = "call" /\ row'.events = marked
    BY <1>0, <1>7, <1>15 DEF WorkerShape
  <2>2. PlanInv'
    BY <1>1, PlanKept
  <2>3. QueueInv'
    <3>1. \A j \in Batches : j > k => row'.events[Model(j)] = NoEvent
      BY <1>0, <1>1, <1>2, <2>1 DEF marked, RowShape, Batches
    <3>2. floor <= OutputLeft /\ OutputLeft' = OutputLeft
      BY <1>3, <1>4, <1>12 DEF OutputLeft
    <3> QED BY <1>12, <2>1, <3>1, <3>2 DEF QueueInv, Steps, UpToMark, floor
  <2>4. CeilingInv'
    <3>1. row'.events[Model(k)].amount = pending.amount /\ OutputLeft' = OutputLeft
      BY <1>0, <1>1, <1>12, <2>1 DEF marked, RowShape, OutputLeft
    <3>2. Ceiling(marked) - pending.amount + MultiPrice(k, OutputLeft) <= ParsePlan
      BY <1>2, <1>4, <1>5, <1>6, <1>7, PlanIsNatural
    <3> QED BY <1>11, <1>12, <2>1, <3>1, <3>2 DEF CeilingInv, Steps
  <2>5. SettleInv'
    <3>1. wk'.at \notin {"settle", "settleFailure"} /\ wk.at \in UpToBatches
      BY <1>1, <2>1 DEF UpToBatches
    <3> QED BY <1>1, <1>9, <1>10, <3>1, NothingSettled
  <2> QED BY <1>13, <2>2, <2>3, <2>4, <2>5
<1> QED BY <1>9, <1>14, <1>15

\* What a call ends with is within what was recorded for it.
LEMMA CallEndsAmounts ==
  ASSUME LInv, LInv', AInv, wk.at = "call", row' = row, settled' = settled, refused' = refused,
         NEW e \in Events, NEW n \in Nat, n <= OutputCap(wk.k, wk.used),
         wk' = [wk EXCEPT !.at = "settleBatch", !.outcome = e, !.used = @ + n],
         \/ e.state = "failed" /\ e.amount <= MaxCost(wk.k, wk.used)
         \/ e.amount = Price(InputTokens[wk.k], n)
  PROVE  AInv'
<1> DEFINE k == wk.k
           cap == OutputCap(k, wk.used)
<1> USE AttemptIds DEF AInv
<1>0. RowShape /\ WorkerShape /\ k \in Batches /\ wk.used \in Int
  BY DEF LInv, Shape, WorkerShape
<1>1. /\ wk'.at = "settleBatch" /\ wk'.k = k /\ wk'.outcome = e /\ wk'.mem = wk.mem
      /\ wk'.used = wk.used + n /\ OutputLeft' = OutputLeft - n
  <2>1. /\ wk'.at = "settleBatch" /\ wk'.k = k /\ wk'.outcome = e /\ wk'.mem = wk.mem
        /\ wk'.used = wk.used + n
    BY <1>0 DEF WorkerShape
  <2>2. OutputTokens \in Nat
    BY LedgerAssumption
  <2>3. OutputLeft' = OutputLeft - n
    BY <1>0, <2>1, <2>2 DEF OutputLeft
  <2> QED BY <2>1, <2>3
<1>2. /\ row.events[Model(k)].amount = MaxCost(k, wk.used)
      /\ Ceiling(row.events) - row.events[Model(k)].amount + MultiPrice(k, OutputLeft) <= ParsePlan
      /\ \A j \in Batches : j > k => row.events[Model(j)] = NoEvent
  BY DEF CeilingInv, QueueInv, LInv, ModelInv, Steps
<1>3. /\ LaterFloors[k] <= OutputLeft - n
      /\ Price(InputTokens[k], n) \in Nat /\ MultiPrice(k + 1, OutputLeft - n) \in Nat
      /\ MultiPrice(k, OutputLeft) \in Nat
      /\ Price(InputTokens[k], n) + MultiPrice(k + 1, OutputLeft - n) <= MultiPrice(k, OutputLeft)
  BY <1>0, BatchFits
<1>4. Price(InputTokens[k], n) <= MaxCost(k, wk.used)
  BY <1>0, CapIsInteger, PriceIsMonotone DEF MaxCost
<1>5. /\ row.events[Model(k)].amount \in Nat /\ Ceiling(row.events) \in Nat /\ e.amount \in Nat
      /\ ParsePlan \in Nat
  BY <1>0, AtMostType, PlanIsNatural DEF RowShape, Events
<1>6. PlanInv'
  BY PlanKept
<1>7. EventInv'
  BY <1>1, EventsKept
<1>8. QueueInv'
  BY <1>1, <1>2, <1>3 DEF QueueInv, Steps, UpToMark
<1>9. CeilingInv'
  <2>1. e.amount <= row.events[Model(k)].amount
    BY <1>2, <1>4
  <2>2. e.state = "succeeded" =>
          Ceiling(row.events) - row.events[Model(k)].amount + e.amount
            + MultiPrice(k + 1, OutputLeft - n) <= ParsePlan
    BY <1>2, <1>3, <1>5
  <2> QED BY <1>1, <2>1, <2>2 DEF CeilingInv, Steps
<1>10. SettleInv'
  BY <1>1 DEF SettleInv, Steps, UpToBatches, Unsettled
<1> QED BY <1>6, <1>7, <1>8, <1>9, <1>10

LEMMA CallBatchAmounts == ASSUME Honest, LInv, LInv', AInv, CallBatch PROVE AInv'
<1> DEFINE k == wk.k
           cap == OutputCap(k, wk.used)
<1>0. WorkerShape /\ k \in Batches /\ wk.used \in Int
  BY DEF LInv, Shape, WorkerShape
<1>1. /\ wk.at = "call" /\ row' = row /\ settled' = settled /\ refused' = refused
      /\ cap \in Int /\ InputTokens[k] \in Nat
  BY <1>0, CapIsInteger DEF CallBatch
<1>2. cap \in Nat
  <2>1. LaterFloors[k] <= OutputLeft /\ LaterFloors[k] \in Nat /\ OutputTokens \in Nat
    BY <1>0, <1>1, LedgerAssumption DEF AInv, QueueInv, Steps
  <2> QED BY <1>0, <2>1 DEF OutputCap, OutputLeft
<1>3. MaxCost(k, wk.used) = Price(InputTokens[k], cap) /\ MaxCost(k, wk.used) \in Nat
  BY <1>1, <1>2, PriceIsNatural DEF MaxCost
<1>4. \/ wk' = Outcome("failed", 0, 0)
      \/ \E out \in 0..cap, state \in {"succeeded", "failed"} :
           \/ wk' = Outcome(state, ObservedOrMaximum(k, wk.used, NoUsage), cap)
           \/ wk' = Outcome(state, ObservedOrMaximum(k, wk.used, out), out)
  <2>1. ExcessTokens = 0 /\ (cap + 1)..(cap + ExcessTokens) = {}
    BY <1>1 DEF Honest
  <2> QED BY <2>1 DEF CallBatch
<1> HIDE DEF cap
<1>5. CASE wk' = Outcome("failed", 0, 0)
  <2>1. /\ Event("failed", 0) \in Events /\ Event("failed", 0).state = "failed"
        /\ Event("failed", 0).amount = 0 /\ 0 <= MaxCost(k, wk.used)
    BY <1>3 DEF Event, Events, EventStates
  <2>2. wk' = [wk EXCEPT !.at = "settleBatch", !.outcome = Event("failed", 0), !.used = @ + 0]
    BY <1>5 DEF Outcome
  <2>3. 0 <= OutputCap(k, wk.used)
    BY <1>2 DEF cap
  <2> HIDE DEF k
  <2> QED BY <1>1, <2>1, <2>2, <2>3, CallEndsAmounts DEF k
<1>6. ASSUME NEW out \in Nat, out <= cap, NEW state \in {"succeeded", "failed"},
             wk' = Outcome(state, Price(InputTokens[k], out), out)
      PROVE  AInv'
  <2> DEFINE e == Event(state, Price(InputTokens[k], out))
  <2>1. Price(InputTokens[k], out) \in Nat
    BY <1>1, PriceIsNatural
  <2>2. e \in Events /\ e.amount = Price(InputTokens[k], out)
    BY <2>1 DEF Event, Events, EventStates
  <2>3. wk' = [wk EXCEPT !.at = "settleBatch", !.outcome = e, !.used = @ + out]
    BY <1>6 DEF Outcome
  <2>4. out <= OutputCap(k, wk.used)
    BY <1>6 DEF cap
  <2> HIDE DEF e
  <2> QED BY <1>1, <2>2, <2>3, <2>4, CallEndsAmounts
<1>7. \A out \in 0..cap : /\ ObservedOrMaximum(k, wk.used, out) = Price(InputTokens[k], out)
                          /\ ObservedOrMaximum(k, wk.used, NoUsage) = Price(InputTokens[k], cap)
  BY <1>3 DEF ObservedOrMaximum, NoUsage
<1>8. cap \in Nat /\ cap <= cap /\ \A out \in 0..cap : out \in Nat /\ out <= cap
  BY <1>2
<1> QED BY <1>4, <1>5, <1>6, <1>7, <1>8

LEMMA SettleBatchAmounts == ASSUME LInv, LInv', AInv, SettleBatch PROVE AInv'
<1> DEFINE k == wk.k
           e == wk.outcome
           done == [row.events EXCEPT ![Model(k)] = e]
           new == WithEvent(Model(k), e)
           more == e.state = "succeeded" /\ k # Len(InputTokens)
           remaining == IF more THEN MultiPrice(k + 1, OutputLeft) ELSE 0
           next == [wk EXCEPT !.at = "markBatch", !.k = k + 1]
<1> USE AttemptIds DEF AInv
<1>0. /\ RowShape /\ WorkerShape /\ k \in Batches /\ wk.used \in Int
      /\ e \in Events /\ e.amount \in Nat
  BY DEF LInv, Shape, WorkerShape, Events
<1>1. /\ wk.at = "settleBatch" /\ charged' = charged /\ settled' = settled /\ refused = "no"
  BY DEF SettleBatch, SettleInv
<1>2. /\ e.amount <= row.events[Model(k)].amount
      /\ e.state = "succeeded" =>
           Ceiling(row.events) - row.events[Model(k)].amount + e.amount
             + MultiPrice(k + 1, OutputLeft) <= ParsePlan
      /\ e.state = "succeeded" => LaterFloors[k] <= OutputLeft
      /\ \A j \in Batches : j > k => row.events[Model(j)] = NoEvent
      /\ Ceiling(row.events) <= ParsePlan
  BY <1>1 DEF CeilingInv, QueueInv, Steps
<1>3. /\ new.events = done /\ new.cost \in Nat
      /\ new.cost <= Ceiling(row.events) - row.events[Model(k)].amount + e.amount
      /\ Ceiling(done) = Ceiling(row.events) - row.events[Model(k)].amount + e.amount
      /\ Ceiling(row.events) \in Nat /\ row.events[Model(k)].amount \in Nat
      /\ ParsesBounded(done)
  BY <1>0, BatchWritten
<1>4. more => /\ k + 1 \in Batches /\ LaterFloors[k] = OutputFloors[k + 1] + LaterFloors[k + 1]
              /\ OutputLeft \in Nat /\ MultiPrice(k + 1, OutputLeft) \in Nat
  <2> SUFFICES ASSUME more PROVE /\ k + 1 \in Batches
                                 /\ LaterFloors[k] = OutputFloors[k + 1] + LaterFloors[k + 1]
                                 /\ OutputLeft \in Nat /\ MultiPrice(k + 1, OutputLeft) \in Nat
    OBVIOUS
  <2>1. Len(InputTokens) \in Nat /\ k \in 1..Len(InputTokens) /\ k # Len(InputTokens)
    BY <1>0, LedgerAssumption DEF Batches
  <2>2. k + 1 \in Batches /\ k + 1 \in 1..(Last + 1)
    BY <2>1 DEF Batches, Last
  <2>3. LaterFloors[k] = OutputFloors[k + 1] + LaterFloors[k + 1]
    BY <1>0, <2>1, LedgerAssumption
  <2>4. LaterFloors[k] \in Nat /\ OutputTokens \in Nat
    BY <1>0, LedgerAssumption
  <2>5. OutputLeft \in Nat
    BY <1>0, <1>2, <2>4 DEF OutputLeft
  <2> QED BY <2>2, <2>3, <2>5, MultiPriceType
<1>5. /\ wk' = Goto("lost") \/ wk' = Goto("billed") \/ (more /\ row' = new /\ wk' = next)
      /\ row' = row \/ row' = new
      /\ Fits(new.cost, remaining) => refused' = refused
  BY DEF SettleBatch, Guarded, OutputLeft
<1> HIDE DEF e, done, new, next
<1>6. Ceiling(done) <= ParsePlan
  BY <1>0, <1>2, <1>3, PlanIsNatural
<1>7. Fits(new.cost, remaining)
  <2>1. Planned
    BY <1>1 DEF PlanInv, Steps
  <2>2. Infra \in Nat /\ Reserved \in Nat /\ ParsePlan \in Nat
    BY PlanIsNatural, LedgerAssumption
  <2>3. Reserved <= MaxRunCost /\ ParsePlan <= Reserved
    BY <2>1, <2>2 DEF Planned
  <2>4. remaining \in Nat /\ new.cost + remaining <= ParsePlan
    BY <1>0, <1>2, <1>3, <1>4, <2>2
  <2> HIDE DEF remaining
  <2> QED BY <1>3, <2>2, <2>3, <2>4 DEF Fits
<1>8. /\ row'.events = row.events \/ row'.events = done
      /\ row'.cost \in Nat /\ refused' = "no"
  BY <1>1, <1>3, <1>5, <1>7 DEF SettleInv
<1>9. Ceiling(row'.events) <= ParsePlan /\ ParsesBounded(row'.events)
  BY <1>2, <1>3, <1>6, <1>8 DEF EventInv
<1>10. CASE wk' = Goto("lost") \/ wk' = Goto("billed")
  <2>1. wk'.at \in {"lost", "billed"} /\ wk'.mem = wk.mem
    BY <1>0, <1>10, WorkerGoes
  <2>2. EventInv'
    BY <1>1, <1>9, <2>1, EventsDuringBatches DEF UpToBatches
  <2> QED BY <1>1, <1>8, <1>9, <2>1, <2>2, BatchIsLeft
<1>11. CASE more /\ row' = new /\ wk' = next
  <2>1. wk'.at = "markBatch" /\ wk'.k = k + 1 /\ wk'.mem = wk.mem /\ wk'.used = wk.used
    BY <1>0, <1>11 DEF WorkerShape, next
  <2>2. row'.events = done /\ OutputLeft' = OutputLeft
    BY <1>3, <1>11, <2>1 DEF OutputLeft
  <2>3. \A j \in Batches : j >= k + 1 => row'.events[Model(j)] = NoEvent
    BY <1>0, <1>2, <2>2 DEF done, RowShape, Batches
  <2>4. PlanInv'
    BY <1>1, PlanKept
  <2>5. EventInv'
    BY <1>1, <1>9, <2>1, EventsDuringBatches DEF UpToBatches
  <2>6. QueueInv'
    BY <1>2, <1>4, <1>11, <2>1, <2>2, <2>3 DEF QueueInv, Steps, UpToMark
  <2>7. CeilingInv'
    <3>1. row'.events[Model(k + 1)].amount = 0
      <4>1. k + 1 \in Batches /\ k + 1 >= k + 1
        BY <1>0, <1>4, <1>11 DEF Batches
      <4> QED BY <2>3, <4>1 DEF NoEvent
    <3>2. Ceiling(done) - 0 + MultiPrice(k + 1, OutputLeft) <= ParsePlan
      BY <1>0, <1>2, <1>3, <1>4, <1>11, PlanIsNatural
    <3> QED BY <1>6, <2>1, <2>2, <3>1, <3>2 DEF CeilingInv, Steps
  <2>8. SettleInv'
    <3>1. wk'.at \notin {"settle", "settleFailure"} /\ wk.at \in UpToBatches
      BY <1>1, <2>1 DEF UpToBatches
    <3> QED BY <1>1, <1>8, <3>1, NothingSettled
  <2> QED BY <2>4, <2>5, <2>6, <2>7, <2>8
<1> QED BY <1>5, <1>10, <1>11

-----------------------------------------------------------------------------
(* The amounts at the release gate and at a failure *)

LEMMA BilledAmounts == ASSUME LInv, LInv', AInv, Billed \/ Lost PROVE AInv'
<1> USE AttemptIds DEF AInv
<1>0. RowShape /\ WorkerShape
  BY DEF LInv, Shape
<1>1. /\ wk.at \in {"billed", "lost"} /\ row' = row /\ charged' = charged /\ settled' = settled
      /\ refused' = refused /\ refused = "no" /\ row'.cost \in Nat
      /\ \/ \E step \in {"verify", "recover"} : wk' = [wk EXCEPT !.at = step, !.mem = WithBilled]
         \/ wk' = Goto("lost") \/ wk' = Goto("recover")
  BY DEF Billed, Lost, SettleInv
<1>2. CASE wk' = Goto("lost") \/ wk' = Goto("recover")
  <2>1. wk'.at \in {"lost", "recover"} /\ wk'.mem = wk.mem
    BY <1>0, <1>2, WorkerGoes
  <2> QED BY <1>1, <2>1, Leaves DEF UpToBatches
<1>3. ASSUME NEW step \in {"verify", "recover"},
             wk' = [wk EXCEPT !.at = step, !.mem = WithBilled]
      PROVE  AInv'
  <2>1. wk'.at = step /\ wk'.mem = WithBilled
    BY <1>0, <1>3 DEF WorkerShape
  <2>2. ParsesBounded(WithBilled)
    BY DEF WithBilled, EventInv, ParsesBounded
  <2>3. \A k \in Batches : WithBilled[Model(k)] \in {NoEvent, row.events[Model(k)]}
    BY DEF WithBilled, EventInv
  <2>4. EventInv'
    BY <1>1, <2>1, <2>2, <2>3 DEF EventInv
  <2>5. \A k \in Batches : row'.events[Model(k)].amount <= row.events[Model(k)].amount
    BY <1>1, AmountsAreNumbers
  <2> QED BY <1>1, <2>1, <2>4, <2>5, GivesUp DEF UpToBatches
<1> QED BY <1>1, <1>2, <1>3

\* What the worker remembers at the gate covers what was spent, within the plan.
LEMMA DueIsCovered ==
  ASSUME LInv, AInv, wk.at = "verify"
  PROVE  /\ Total(wk.mem) \in Nat /\ Spent \in Nat /\ Spent <= Total(wk.mem)
         /\ Total(wk.mem) <= ParsePlan
<1> USE AttemptIds DEF AInv
<1>1. /\ wk.mem \in [Attempts -> Events] /\ row.events \in [Attempts -> Events]
      /\ charged \in [Attempts -> Nat]
  BY DEF LInv, Shape, RowShape, WorkerShape
<1>2. /\ Amounts(wk.mem) \in [Attempts -> Nat] /\ Total(wk.mem) \in Nat
      /\ Total(wk.mem) = SumOver(Amounts(wk.mem))
  BY <1>1, TotalIsSum
<1>3. Spent = SumOver(charged) /\ Spent \in Nat
  BY <1>1, SpentIsSum
<1>4. \A a \in Attempts : charged[a] <= Amounts(wk.mem)[a]
  BY DEF Amounts, LInv, ParseInv, ModelInv, Steps
<1>5. Spent <= Total(wk.mem)
  BY <1>1, <1>2, <1>3, <1>4, SumGrows
<1>6. Total(wk.mem) <= Ceiling(wk.mem)
  BY <1>1, TotalFitsCeiling DEF EventInv
<1>7. \A k \in Batches : wk.mem[Model(k)].amount <= row.events[Model(k)].amount
  <2> SUFFICES ASSUME NEW k \in Batches
               PROVE  wk.mem[Model(k)].amount <= row.events[Model(k)].amount
    OBVIOUS
  <2>1. row.events[Model(k)].amount \in Nat /\ wk.mem[Model(k)] \in {NoEvent, row.events[Model(k)]}
    BY AmountsAreNumbers DEF EventInv
  <2> QED BY <2>1 DEF NoEvent
<1>8. Ceiling(wk.mem) <= Ceiling(row.events)
  BY <1>1, <1>7, CeilingOfBatches
<1>9. Ceiling(wk.mem) \in Nat /\ Ceiling(row.events) \in Nat /\ Ceiling(row.events) <= ParsePlan
  BY <1>1, AtMostType DEF CeilingInv
<1> QED BY <1>2, <1>3, <1>5, <1>6, <1>8, <1>9, PlanIsNatural

LEMMA VerifyAmounts == ASSUME LInv, LInv', AInv, Verify PROVE AInv'
<1> DEFINE cost == Total(wk.mem) + Infra
           new == [row EXCEPT !.events = wk.mem, !.infra = Infra, !.cost = cost]
           next == [wk EXCEPT !.at = "settle", !.due = cost]
<1> USE AttemptIds DEF AInv
<1>0. RowShape /\ WorkerShape
  BY DEF LInv, Shape
<1>1. /\ wk.at = "verify" /\ charged' = charged /\ (row' = row \/ row' = new)
      /\ (wk' = next \/ wk' = Goto("recover"))
      /\ settled' = settled /\ refused' = refused /\ refused = "no" /\ row.cost \in Nat
  BY DEF Verify, Guarded, SettleInv
<1>2. /\ cost \in Nat /\ Spent <= cost /\ Total(wk.mem) <= ParsePlan /\ Total(wk.mem) \in Nat
  <2>1. /\ Total(wk.mem) \in Nat /\ Spent \in Nat /\ Spent <= Total(wk.mem)
        /\ Total(wk.mem) <= ParsePlan
    BY <1>1, DueIsCovered
  <2>2. Infra \in Nat
    BY LedgerAssumption
  <2> HIDE DEF Total, Spent, ParsePlan
  <2> QED BY <2>1, <2>2
<1>3. cost <= Reserved
  <2>1. Planned
    BY <1>1 DEF PlanInv, Steps
  <2> QED BY <1>2, <2>1, PlanIsNatural, LedgerAssumption DEF Planned
<1> HIDE DEF cost
<1>4. (row'.events = row.events \/ row'.events = wk.mem) /\ row'.cost \in Nat
  BY <1>0, <1>1, <1>2 DEF RowShape
<1>5. /\ wk'.mem = wk.mem
      /\ wk'.at = "recover" \/ (wk'.at = "settle" /\ wk'.due = cost)
  <2>1. CASE wk' = next
    BY <1>0, <2>1 DEF WorkerShape
  <2>2. CASE wk' = Goto("recover")
    BY <1>0, <2>2, WorkerGoes
  <2> QED BY <1>1, <2>1, <2>2
<1>6. EventInv'
  BY <1>4, <1>5 DEF EventInv
<1>7. \A k \in Batches : row'.events[Model(k)].amount <= row.events[Model(k)].amount
  <2> SUFFICES ASSUME NEW k \in Batches
               PROVE  row'.events[Model(k)].amount <= row.events[Model(k)].amount
    OBVIOUS
  <2>1. row.events[Model(k)].amount \in Nat /\ wk.mem[Model(k)] \in {NoEvent, row.events[Model(k)]}
    BY AmountsAreNumbers DEF EventInv
  <2>2. row'.events[Model(k)] \in {NoEvent, row.events[Model(k)]}
    BY <1>4, <2>1
  <2> QED BY <2>1, <2>2 DEF NoEvent
<1>8. CASE wk'.at = "recover"
  BY <1>1, <1>4, <1>6, <1>7, <1>8, GivesUp
<1>9. CASE wk'.at = "settle" /\ wk'.due = cost
  <2>1. PlanInv'
    BY <1>1, PlanKept
  <2>2. wk'.at \in AfterBatches
    BY <1>9 DEF AfterBatches
  <2>3. QueueInv'
    BY <2>2, QueueIsOver
  <2>4. CeilingInv'
    <3>1. row.events \in [Attempts -> Events] /\ row'.events \in [Attempts -> Events]
      BY DEF LInv, Shape, RowShape
    <3> QED BY <1>7, <2>2, <3>1, BatchesAreOver
  <2>5. SettleInv'
    <3>1. settled = Unsettled
      BY <1>1 DEF SettleInv, Steps
    <3>2. Spent' = Spent
      BY <1>1, SpentKept
    <3> QED BY <1>1, <1>2, <1>3, <1>4, <1>9, <3>1, <3>2 DEF SettleInv, Steps, UpToBatches
  <2> QED BY <1>6, <2>1, <2>3, <2>4, <2>5
<1> QED BY <1>5, <1>8, <1>9

\* A settlement moves nothing but what is settled.
LEMMA OnlySettles ==
  ASSUME LInv, LInv', AInv, SettleInv', row' = row, charged' = charged, wk'.mem = wk.mem,
         \/ wk.at = "settle" /\ wk'.at \in {"publish", "recover"}
         \/ wk.at = "settleFailure" /\ wk'.at = "over"
  PROVE  AInv'
<1> USE DEF AInv
<1>1. PlanInv'
  BY PlanKept
<1>2. EventInv'
  BY EventsKept
<1>3. wk'.at \in AfterBatches
  BY DEF AfterBatches
<1>4. QueueInv'
  BY <1>3, QueueIsOver
<1>5. CeilingInv'
  <2>1. row.events \in [Attempts -> Events] /\ row'.events \in [Attempts -> Events]
    BY DEF LInv, Shape, RowShape
  <2>2. \A k \in Batches : row'.events[Model(k)].amount <= row.events[Model(k)].amount
    BY AmountsAreNumbers
  <2> QED BY <1>3, <2>1, <2>2, BatchesAreOver
<1> QED BY <1>1, <1>2, <1>4, <1>5

LEMMA SettleAmounts == ASSUME LInv, LInv', AInv, Settle PROVE AInv'
<1> USE DEF AInv
<1>1. /\ wk.at = "settle" /\ row' = row /\ charged' = charged /\ settled = Unsettled
      /\ wk.due \in Nat /\ Spent <= wk.due /\ wk.due <= Reserved
      /\ refused = "no" /\ row.cost \in Nat
  BY DEF Settle, SettleInv, Steps
<1>2. Settleable(wk.due)
  <2>1. Planned
    BY <1>1 DEF PlanInv, Steps
  <2> QED BY <1>1, <2>1, LedgerAssumption DEF Settleable, Planned
<1>3. /\ refused' = refused
      /\ settled' \in {settled, Larger(settled, wk.due)}
      /\ \E step \in {"publish", "recover"} : wk' = Goto(step)
  BY <1>2 DEF Settle, SettleAt
<1>4. wk'.at \in {"publish", "recover"} /\ wk'.mem = wk.mem
  BY <1>3, WorkerGoes DEF LInv, Shape
<1>5. Larger(settled, wk.due) = wk.due
  BY <1>1 DEF Larger, Unsettled
<1>6. SettleInv'
  <2>1. Spent' = Spent
    BY <1>1, SpentKept
  <2> QED BY <1>1, <1>3, <1>4, <1>5, <2>1 DEF SettleInv, Steps, UpToBatches
<1> QED BY <1>1, <1>4, <1>6, OnlySettles

LEMMA PublishAmounts == ASSUME LInv, LInv', AInv, Publish PROVE AInv'
<1>1. /\ wk.at = "publish" /\ charged' = charged /\ settled' = settled /\ refused' = refused
      /\ row' = row \/ row' = [row EXCEPT !.status = "released", !.lease = "gone"]
      /\ wk' = Goto("over") \/ wk' = Goto("recover")
  BY DEF Publish, Guarded
<1>2. row'.events = row.events /\ row'.cost = row.cost
  BY <1>1 DEF LInv, Shape, RowShape
<1>3. wk'.at \in {"over", "recover"} /\ wk'.mem = wk.mem
  BY <1>1, WorkerGoes DEF LInv, Shape
<1> QED BY <1>1, <1>2, <1>3, Leaves

LEMMA InterruptedAmounts == ASSUME LInv, LInv', AInv, Interrupted \/ Killed PROVE AInv'
<1>1. /\ row' = row /\ charged' = charged /\ settled' = settled /\ refused' = refused
      /\ \/ wk' = Goto("over")
         \/ wk.at \in {"merge", "preflight", "verify", "settle", "publish"} /\ wk' = Goto("recover")
         \/ wk.at = "markBatch" /\ wk' = Goto("lost")
  BY DEF Interrupted, Killed
<1>2. /\ wk'.mem = wk.mem
      /\ \/ wk'.at = "over"
         \/ wk.at \in {"merge", "preflight", "verify", "settle", "publish"} /\ wk'.at = "recover"
         \/ wk.at = "markBatch" /\ wk'.at = "lost"
  BY <1>1, WorkerGoes DEF LInv, Shape
<1> QED BY <1>1, <1>2, Leaves DEF UpToBatches

LEMMA LargerIsLarger ==
  ASSUME NEW a \in Int, NEW b \in Int
  PROVE  Larger(a, b) \in {a, b} /\ Larger(a, b) >= a /\ Larger(a, b) >= b
BY DEF Larger

LEMMA RecoverAmounts == ASSUME LInv, LInv', AInv, Recover PROVE AInv'
<1> DEFINE merged == Merged(row.events)
           cost == Total(merged) + Infra
           new == [row EXCEPT !.events = merged, !.infra = Infra, !.cost = cost,
                              !.status = "failed", !.lease = "gone"]
<1> USE AttemptIds DEF AInv
<1>0. RowShape /\ WorkerShape
  BY DEF LInv, Shape
<1>1. /\ ParsesBounded(merged) /\ merged \in [Attempts -> Events]
      /\ \A k \in Batches : merged[Model(k)] = row.events[Model(k)]
  BY MergeAmounts, MergeCovers
<1>2. cost \in Nat /\ Total(wk.mem) \in Nat
  <2>1. Total(merged) \in Nat
    BY <1>1, TotalIsSum
  <2>2. wk.mem \in [Attempts -> Events]
    BY <1>0 DEF WorkerShape
  <2>3. Total(wk.mem) \in Nat
    BY <2>2, TotalIsSum
  <2> QED BY <2>1, <2>3, LedgerAssumption
<1>3. new.cost = cost /\ new.events = merged
  BY <1>0 DEF RowShape
<1> HIDE DEF cost
<1>4. /\ wk.at = "recover" /\ charged' = charged /\ settled' = settled
      /\ refused' = refused /\ refused = "no" /\ row.cost \in Nat
      /\ \/ row' = new /\ wk' = [wk EXCEPT !.at = "settleFailure", !.due = FailureAmount(new.cost)]
         \/ row' = row /\ wk' = [wk EXCEPT !.at = "settleFailure", !.due = FailureAmount(row.cost)]
  BY DEF Recover, SettleInv, cost
<1> HIDE DEF merged, new
<1>5. \A c \in Nat : FailureAmount(c) \in Nat /\ FailureAmount(c) >= Reserved
  <2> SUFFICES ASSUME NEW c \in Nat PROVE FailureAmount(c) \in Nat /\ FailureAmount(c) >= Reserved
    OBVIOUS
  <2>1. Total(wk.mem) + Infra \in Nat /\ Reserved \in Nat
    BY <1>2, LedgerAssumption
  <2>2. Larger(c, Total(wk.mem) + Infra) \in Nat
    BY <2>1, LargerIsLarger
  <2> QED BY <2>1, <2>2, LargerIsLarger DEF FailureAmount
<1>6. (row'.events = row.events \/ row'.events = merged) /\ row'.cost \in Nat
  BY <1>2, <1>3, <1>4
<1>7. /\ wk'.mem = wk.mem /\ wk'.at = "settleFailure" /\ wk'.due \in Nat /\ wk'.due >= Reserved
  <2>1. \E c \in Nat : wk' = [wk EXCEPT !.at = "settleFailure", !.due = FailureAmount(c)]
    BY <1>2, <1>3, <1>4
  <2>2. \E due \in Nat : due >= Reserved /\ wk' = [wk EXCEPT !.at = "settleFailure", !.due = due]
    BY <1>5, <2>1
  <2> QED BY <1>0, <2>2 DEF WorkerShape
<1>8. PlanInv'
  BY <1>4, <1>7, PlanKept
<1>9. EventInv'
  BY <1>1, <1>6, <1>7 DEF EventInv
<1>10. wk'.at \in AfterBatches
  BY <1>7 DEF AfterBatches
<1>11. QueueInv'
  BY <1>10, QueueIsOver
<1>12. CeilingInv'
  <2>1. row.events \in [Attempts -> Events] /\ row'.events \in [Attempts -> Events]
    BY DEF LInv, Shape, RowShape
  <2>2. \A k \in Batches : row'.events[Model(k)].amount <= row.events[Model(k)].amount
    BY <1>1, <1>6, AmountsAreNumbers
  <2> QED BY <1>10, <2>1, <2>2, BatchesAreOver
<1>13. SettleInv'
  <2>1. Spent' = Spent
    BY <1>4, SpentKept
  <2> QED BY <1>4, <1>6, <1>7, <2>1 DEF SettleInv, Steps, UpToBatches
<1> QED BY <1>8, <1>9, <1>11, <1>12, <1>13

LEMMA SettleFailureAmounts == ASSUME LInv, LInv', AInv, SettleFailure PROVE AInv'
<1> USE DEF AInv
<1>1. /\ wk.at = "settleFailure" /\ row' = row /\ charged' = charged
      /\ wk.due \in Nat /\ wk.due >= Reserved
      /\ refused' = "no" /\ row.cost \in Nat /\ settled \in Nat \cup {Unsettled}
      /\ settled # Unsettled => Spent <= settled
      /\ settled' \in {settled, Larger(settled, wk.due)} /\ wk' = Goto("over")
  BY DEF SettleFailure, SettleAt, SettleInv, Steps
<1>2. wk'.at = "over" /\ wk'.mem = wk.mem
  BY <1>1, WorkerGoes DEF LInv, Shape
<1>3. Larger(settled, wk.due) \in Nat /\ Spent <= Larger(settled, wk.due)
  <2>1. Spent \in Nat /\ Spent <= Reserved
    BY SpentIsReserved
  <2>2. settled \in Int /\ wk.due \in Int /\ Reserved \in Nat
    BY <1>1, LedgerAssumption DEF Unsettled
  <2>3. Larger(settled, wk.due) \in {settled, wk.due} /\ Larger(settled, wk.due) >= wk.due
    BY <2>2, LargerIsLarger
  <2> QED BY <1>1, <2>1, <2>2, <2>3
<1>4. SettleInv'
  <2>1. Spent' = Spent
    BY <1>1, SpentKept
  <2> QED BY <1>1, <1>2, <1>3, <2>1 DEF SettleInv, Steps, UpToBatches
<1> QED BY <1>1, <1>2, <1>4, OnlySettles

LEMMA WithdrawAmounts == ASSUME LInv, AInv, Withdraw PROVE AInv'
<1>1. /\ wk' = wk /\ charged' = charged /\ settled' = settled /\ refused' = refused
      /\ row' = [row EXCEPT !.lease = "gone", !.status = "withdrawn"]
  BY DEF Withdraw
<1>2. row'.events = row.events /\ row'.cost = row.cost
  BY <1>1 DEF LInv, Shape, RowShape
<1> QED BY <1>1, <1>2, NothingPaid

LEMMA StutteringAmounts == ASSUME AInv, UNCHANGED vars PROVE AInv'
BY NothingPaid DEF vars

-----------------------------------------------------------------------------
(* Every step, and the theorems *)

LEMMA EveryAmount == Honest /\ LInv /\ AInv /\ [Next]_vars => LInv' /\ AInv'
<1> SUFFICES ASSUME Honest, LInv, AInv, [Next]_vars PROVE AInv' /\ LInv'
  OBVIOUS
<1>0. LInv'
  BY EveryStep
<1>1. ASSUME NEW d \in Docs, ParseDocument(d) PROVE AInv'
  BY <1>0, <1>1, NotStartedAmounts, MarkStartedAmounts, DispatchAmounts, CaptureAmounts
     DEF ParseDocument
<1>2. CASE Plan \/ BatchEnds \/ Merge
  BY <1>0, <1>2, PlanAmounts, BatchEndsAmounts, MergeStepAmounts
<1>3. CASE Extract
  BY <1>0, <1>3, PreflightAmounts, MarkBatchAmounts, CallBatchAmounts, SettleBatchAmounts,
     BilledAmounts DEF Extract
<1>4. CASE Finish
  BY <1>0, <1>4, VerifyAmounts, SettleAmounts, PublishAmounts, InterruptedAmounts,
     RecoverAmounts, SettleFailureAmounts DEF Finish
<1>5. CASE Killed \/ Withdraw
  BY <1>0, <1>5, InterruptedAmounts, WithdrawAmounts
<1>6. CASE UNCHANGED vars
  BY <1>0, <1>6, StutteringAmounts
<1> QED BY <1>0, <1>1, <1>2, <1>3, <1>4, <1>5, <1>6 DEF Next

\* If the providers keep to their maximum, what a run counts for in the daily cap,
\* its reservation until settle has answered and the settled amount from then on,
\* is at no moment less than what has been charged for it.
THEOREM BudgetCovers == Spec => []BudgetCoversSpend
<1>1. Honest => (Spec => []BudgetCoversSpend)
  <2> SUFFICES ASSUME Honest PROVE Spec => []BudgetCoversSpend
    OBVIOUS
  <2>1. Init => LInv /\ AInv
    BY InitInv, InitAmounts
  <2>2. (LInv /\ AInv) /\ [Next]_vars => (LInv /\ AInv)'
    BY EveryAmount
  <2>3. LInv /\ AInv => BudgetCoversSpend
    BY SpentIsReserved DEF AInv, SettleInv, BudgetCoversSpend
  <2> QED BY <2>1, <2>2, <2>3, PTL DEF Spec
<1>2. ~Honest => (Spec => []BudgetCoversSpend)
  <2>1. ~Honest => BudgetCoversSpend
    BY DEF BudgetCoversSpend
  <2> SUFFICES ASSUME ~Honest PROVE Spec => []BudgetCoversSpend
    OBVIOUS
  <2>2. BudgetCoversSpend
    BY <2>1
  <2> QED BY <2>2, PTL
<1> QED BY <1>1, <1>2

\* A plan that assertPaidProviderPlan accepted is never refused by the ledger: the
\* checks made before every paid call, after every batch and at the settlement all
\* pass, for any number of documents and batches and any prices within the bounds.
THEOREM PlanIsKept == Spec => []AcceptedPlanIsNeverRefused
<1>1. Honest => (Spec => []AcceptedPlanIsNeverRefused)
  <2> SUFFICES ASSUME Honest PROVE Spec => []AcceptedPlanIsNeverRefused
    OBVIOUS
  <2>1. Init => LInv /\ AInv
    BY InitInv, InitAmounts
  <2>2. (LInv /\ AInv) /\ [Next]_vars => (LInv /\ AInv)'
    BY EveryAmount
  <2>3. LInv /\ AInv => AcceptedPlanIsNeverRefused
    BY DEF AInv, SettleInv, AcceptedPlanIsNeverRefused
  <2> QED BY <2>1, <2>2, <2>3, PTL DEF Spec
<1>2. ~Honest => (Spec => []AcceptedPlanIsNeverRefused)
  <2>1. ~Honest => AcceptedPlanIsNeverRefused
    BY DEF AcceptedPlanIsNeverRefused
  <2> SUFFICES ASSUME ~Honest PROVE Spec => []AcceptedPlanIsNeverRefused
    OBVIOUS
  <2>2. AcceptedPlanIsNeverRefused
    BY <2>1
  <2> QED BY <2>2, PTL
<1> QED BY <1>1, <1>2

-----------------------------------------------------------------------------
(* The release, whatever the providers charge *)

\* Every attempt has succeeded and says no less than was charged for it.
PaidFor(events) ==
  \A a \in Attempts : events[a].state = "succeeded" /\ charged[a] <= events[a].amount

\* What the worker remembers as a success it was charged no more for.
ParsedInv ==
  /\ \A d \in Docs :
       /\ wk.mem[Parse(d)].state = "succeeded" => charged[Parse(d)] <= wk.mem[Parse(d)].amount
       /\ wk.doc[d] = "dispatch" => wk.mem[Parse(d)].state # "succeeded"
       /\ wk.doc[d] = "parsed" => wk.mem[Parse(d)].state = "succeeded"
  /\ Steps({"preflight", "markBatch", "call", "settleBatch", "billed"}) =>
       \A d \in Docs : wk.doc[d] = "parsed"

\* The batches before the one the worker is at have been started, and have succeeded.
BatchPaid(k) == /\ row.events[Model(k)].state = "succeeded"
                /\ charged[Model(k)] <= row.events[Model(k)].amount

BatchesInv ==
  /\ Steps({"plan", "parse", "merge", "preflight"}) => wk.k = 1
  /\ Steps({"markBatch", "call", "settleBatch"}) =>
       \A j \in Batches : j < wk.k => j \in wk.started /\ BatchPaid(j)
  /\ Steps({"call", "settleBatch"}) => wk.k \in wk.started
  /\ Steps({"call"}) => OutputCap(wk.k, wk.used) \in Nat
  /\ Steps({"settleBatch"}) /\ wk.outcome.state = "succeeded" =>
       charged[Model(wk.k)] <= wk.outcome.amount
  /\ Steps({"billed"}) => \A j \in Batches : j \in wk.started /\ BatchPaid(j)

\* The gate passes on what it has read, and a result is shown only past all of it.
GateInv ==
  /\ settled \in Nat \cup {Unsettled} /\ settled <= Reserved
  /\ Steps({"verify"}) => PaidFor(wk.mem)
  /\ Steps({"settle"}) => PaidFor(row.events) /\ wk.due = Total(row.events) + Infra
  /\ Steps({"publish"}) => PaidFor(row.events) /\ Total(row.events) + Infra <= settled
  /\ row.status = "released" =>
       /\ PaidFor(row.events) /\ Total(row.events) + Infra <= settled
       /\ row.lease = "gone" /\ Steps({"recover", "settleFailure", "over"})

\* The sums are numbers.
CostInv == row.cost \in Nat /\ (Steps({"settleFailure"}) => wk.due \in Nat)

RInv == Shape /\ ParsedInv /\ BatchesInv /\ GateInv /\ CostInv

LEMMA CostKept ==
  ASSUME CostInv, row'.cost = row.cost \/ row'.cost \in Nat, wk'.at # "settleFailure"
  PROVE  CostInv'
BY DEF CostInv, Steps

\* What WithEvent writes.
LEMMA EventWritten ==
  ASSUME RowShape, NEW a \in Attempts, NEW e \in Events, row' = WithEvent(a, e),
         charged' = charged
  PROVE  /\ RowShape' /\ row'.status = row.status /\ row'.lease = row.lease
         /\ row'.cost \in Nat /\ row'.events = [row.events EXCEPT ![a] = e]
<1>1. RowShape' /\ row'.events = [row.events EXCEPT ![a] = e]
  BY RowWithEvent
<1>2. Total(row'.events) \in Nat
  BY <1>1, TotalIsSum DEF RowShape
<1>3. row'.status = row.status /\ row'.lease = row.lease /\ row'.cost = Total(row'.events)
  BY <1>1 DEF RowShape, WithEvent
<1> QED BY <1>1, <1>2, <1>3

LEMMA InitRelease == Init => RInv
<1> SUFFICES ASSUME Init PROVE RInv
  OBVIOUS
<1> USE LedgerAssumption, AttemptIds
<1>1. Shape
  BY InitInv DEF LInv
<1>2. ParsedInv
  BY DEF Init, ParsedInv, Steps, NoEvent, Docs
<1>3. BatchesInv
  BY DEF Init, BatchesInv, Steps
<1>4. GateInv
  BY DEF Init, GateInv, Steps, Unsettled
<1>5. CostInv
  BY DEF Init, CostInv, Steps
<1> QED BY <1>1, <1>2, <1>3, <1>4, <1>5 DEF RInv

\* Before the gate nothing is shown, and a step that does not reach it shows nothing.
LEMMA GateAway ==
  ASSUME GateInv, wk.at \notin {"recover", "settleFailure", "over"},
         wk'.at \in UpToBatches \cup {"recover", "over"},
         settled' = settled, row'.status = row.status
  PROVE  GateInv'
BY DEF GateInv, Steps, UpToBatches

\* A step of the worker that gives up or goes on before the batches.
LEMMA BatchesAway ==
  ASSUME BatchesInv,
         \/ wk.at \in {"plan", "parse", "merge"} /\ wk'.at \in {"parse", "merge", "preflight"}
            /\ wk'.k = wk.k
         \/ wk'.at \in {"lost", "recover", "over", "verify", "settle", "publish", "settleFailure"}
  PROVE  BatchesInv'
BY DEF BatchesInv, Steps

\* A step that leaves the documents and what is known of them alone.
LEMMA ParsedKept ==
  ASSUME ParsedInv, wk'.doc = wk.doc,
         \A d \in Docs : /\ wk'.mem[Parse(d)] = wk.mem[Parse(d)]
                         /\ charged'[Parse(d)] = charged[Parse(d)],
         \/ wk.at \in {"preflight", "markBatch", "call", "settleBatch", "billed"}
         \/ wk'.at \notin {"preflight", "markBatch", "call", "settleBatch", "billed"}
  PROVE  ParsedInv'
BY DEF ParsedInv, Steps

\* A step that writes nothing and gives up.
LEMMA ReleaseLeft ==
  ASSUME RInv, NEW step \in {"lost", "recover", "over"}, wk' = Goto(step),
         row' = row, charged' = charged, settled' = settled,
         row.status = "released" => step # "lost"
  PROVE  RInv'
<1> USE DEF RInv, Shape
<1>1. /\ WorkerShape' /\ wk'.doc = wk.doc /\ wk'.mem = wk.mem /\ wk'.at = step
  BY WorkerGoes
<1>2. RowShape'
  BY DEF RowShape
<1>3. ParsedInv'
  BY <1>1, ParsedKept
<1>4. BatchesInv'
  BY <1>1, BatchesAway
<1>5. GateInv'
  BY <1>1 DEF GateInv, Steps, PaidFor
<1>6. CostInv'
  BY <1>1, CostKept
<1> QED BY <1>1, <1>2, <1>3, <1>4, <1>5, <1>6

LEMMA PlanRelease == ASSUME RInv, Plan PROVE RInv'
<1> USE AttemptIds DEF RInv, Shape
<1>1. wk.at = "plan" /\ row' = row /\ charged' = charged /\ settled' = settled
  BY DEF Plan
<1>2. CASE wk' = Goto("recover")
  <2>1. row.status # "released"
    BY <1>1 DEF GateInv, Steps
  <2> QED BY <1>1, <1>2, <2>1, ReleaseLeft
<1>3. CASE wk' = [wk EXCEPT !.at = "parse",
                     !.doc = [d \in Docs |-> IF d <= Batch THEN "ready" ELSE "waiting"]]
  <2>1. /\ WorkerShape' /\ wk'.at = "parse" /\ wk'.mem = wk.mem /\ wk'.k = wk.k
        /\ \A d \in Docs : wk'.doc[d] \in {"ready", "waiting"}
    BY <1>3 DEF WorkerShape, DocSteps
  <2>2. RowShape'
    BY <1>1 DEF RowShape
  <2>3. ParsedInv'
    BY <1>1, <2>1 DEF ParsedInv, Steps
  <2>4. BatchesInv'
    BY <1>1, <2>1, BatchesAway
  <2>5. GateInv'
    BY <1>1, <2>1, GateAway DEF UpToBatches
  <2>6. CostInv'
    BY <1>1, <2>1, CostKept
  <2> QED BY <2>1, <2>2, <2>3, <2>4, <2>5, <2>6
<1> QED BY <1>2, <1>3 DEF Plan

\* A step of a document: it concerns what the worker knows of that document.
LEMMA DocumentRelease ==
  ASSUME RInv, RowShape', WorkerShape', ParsedInv', wk.at = "parse",
         wk'.at \in {"parse", "merge"}, wk'.k = wk.k,
         settled' = settled, row'.status = row.status,
         row'.cost = row.cost \/ row'.cost \in Nat
  PROVE  RInv'
<1>1. BatchesInv'
  BY BatchesAway DEF RInv
<1>2. GateInv'
  BY GateAway DEF RInv, UpToBatches
<1>3. CostInv'
  BY CostKept DEF RInv
<1> QED BY <1>1, <1>2, <1>3 DEF RInv, Shape

LEMMA NotStartedRelease ==
  ASSUME RInv, NEW d \in Docs, NotStarted(d) \/ CleanupFails(d) PROVE RInv'
<1>1. /\ wk' = Step(d, "failed") /\ row' = row /\ charged' = charged /\ settled' = settled
      /\ wk.at = "parse"
  BY DEF NotStarted, CleanupFails
<1>2. /\ WorkerShape' /\ wk'.doc = [wk.doc EXCEPT ![d] = "failed"] /\ wk'.mem = wk.mem
      /\ wk'.at = wk.at /\ wk'.k = wk.k
  BY <1>1, DocumentGoes DEF RInv, Shape, DocSteps
<1>3. RowShape'
  BY <1>1 DEF RInv, Shape, RowShape
<1>4. ParsedInv'
  BY <1>1, <1>2 DEF RInv, Shape, WorkerShape, ParsedInv, Steps
<1> QED BY <1>1, <1>2, <1>3, <1>4, DocumentRelease

LEMMA MarkStartedRelease == ASSUME RInv, NEW d \in Docs, MarkStarted(d) PROVE RInv'
<1> DEFINE pending == Event("pending", ParseReserve)
<1> USE AttemptIds DEF RInv, Shape
<1>1. pending \in Events /\ pending.state = "pending"
  BY LedgerAssumption DEF Event, Events, EventStates
<1>2. /\ row' = row \/ row' = WithEvent(Parse(d), pending)
      /\ wk' = Step(d, "failed") \/ wk' = Remember(d, "dispatch", pending)
      /\ charged' = charged /\ settled' = settled /\ wk.at = "parse"
  BY DEF MarkStarted, MarkPending, Guarded
<1> HIDE DEF pending
<1>3. RowShape' /\ row'.status = row.status /\ (row'.cost = row.cost \/ row'.cost \in Nat)
  <2>1. CASE row' = row
    BY <2>1, <1>2 DEF RowShape
  <2>2. CASE row' = WithEvent(Parse(d), pending)
    BY <2>2, <1>1, <1>2, EventWritten
  <2> QED BY <1>2, <2>1, <2>2
<1>4. /\ WorkerShape' /\ wk'.at = wk.at /\ wk'.k = wk.k
      /\ \/ wk'.mem = wk.mem /\ wk'.doc = [wk.doc EXCEPT ![d] = "failed"]
         \/ /\ wk'.mem = [wk.mem EXCEPT ![Parse(d)] = pending]
            /\ wk'.doc = [wk.doc EXCEPT ![d] = "dispatch"]
  <2>1. CASE wk' = Step(d, "failed")
    BY <2>1, DocumentGoes DEF DocSteps
  <2>2. CASE wk' = Remember(d, "dispatch", pending)
    <3>1. WorkerShape /\ "dispatch" \in DocSteps
      BY DEF DocSteps
    <3> QED BY <2>2, <3>1, <1>1, DocumentRemembers
  <2> QED BY <1>2, <2>1, <2>2
<1>5. ParsedInv'
  BY <1>1, <1>2, <1>4 DEF ParsedInv, WorkerShape, Steps
<1> QED BY <1>2, <1>3, <1>4, <1>5, DocumentRelease

LEMMA DispatchRelease == ASSUME RInv, NEW d \in Docs, Dispatch(d) PROVE RInv'
<1> USE AttemptIds DEF RInv, Shape
<1>1. PICK c \in ParseCharges :
        /\ charged' = [charged EXCEPT ![Parse(d)] = c]
        /\ \/ \E state \in {"succeeded", "failed"}, amount \in {c, ParseReserve} :
                /\ amount = c \/ c <= ParseReserve
                /\ wk' = Remember(d, "capture", Event(state, amount))
           \/ wk' = Step(d, "failed")
  BY DEF Dispatch
<1>2. /\ c \in Nat /\ ParseReserve \in Nat /\ row' = row /\ settled' = settled
      /\ wk.at = "parse" /\ wk.doc[d] = "dispatch" /\ wk.mem[Parse(d)].state # "succeeded"
  BY LedgerAssumption DEF Dispatch, ParsedInv
<1>3. RowShape'
  BY <1>1, <1>2 DEF RowShape
<1>4. /\ WorkerShape' /\ wk'.at = wk.at /\ wk'.k = wk.k
      /\ \/ /\ wk'.doc = [wk.doc EXCEPT ![d] = "capture"]
            /\ \E e \in Events : c <= e.amount /\ wk'.mem = [wk.mem EXCEPT ![Parse(d)] = e]
         \/ wk'.doc = [wk.doc EXCEPT ![d] = "failed"] /\ wk'.mem = wk.mem
  <2>1. CASE wk' = Step(d, "failed")
    BY <2>1, DocumentGoes DEF DocSteps
  <2>2. ASSUME NEW state \in {"succeeded", "failed"}, NEW amount \in {c, ParseReserve},
               amount = c \/ c <= ParseReserve,
               wk' = Remember(d, "capture", Event(state, amount))
        PROVE  <1>4
    <3>1. Event(state, amount) \in Events /\ c <= Event(state, amount).amount
      BY <1>2, <2>2 DEF Event, Events, EventStates
    <3> QED BY <2>2, <3>1, DocumentRemembers DEF DocSteps
  <2> QED BY <1>1, <2>1, <2>2
<1>5. ParsedInv'
  BY <1>1, <1>2, <1>4 DEF ParsedInv, RowShape, WorkerShape, Steps
<1> QED BY <1>2, <1>3, <1>4, <1>5, DocumentRelease

LEMMA CaptureRelease == ASSUME RInv, NEW d \in Docs, Capture(d) PROVE RInv'
<1> DEFINE event == wk.mem[Parse(d)]
           unknown == Event("pending", ParseReserve)
<1> USE AttemptIds DEF RInv, Shape
<1>1. /\ event \in Events /\ unknown \in Events /\ unknown.state = "pending"
  BY LedgerAssumption DEF WorkerShape, Event, Events, EventStates
<1>2. /\ row' = row \/ row' = WithEvent(Parse(d), event)
      /\ \/ event.state = "succeeded" /\ wk' = Step(d, "parsed")
         \/ wk' = Step(d, "failed") \/ wk' = Remember(d, "failed", unknown)
      /\ charged' = charged /\ settled' = settled /\ wk.at = "parse"
  BY DEF Capture, Guarded
<1> HIDE DEF unknown
<1>3. RowShape' /\ row'.status = row.status /\ (row'.cost = row.cost \/ row'.cost \in Nat)
  <2>1. CASE row' = row
    BY <2>1, <1>2 DEF RowShape
  <2>2. CASE row' = WithEvent(Parse(d), event)
    BY <2>2, <1>1, <1>2, EventWritten
  <2> QED BY <1>2, <2>1, <2>2
<1>4. /\ WorkerShape' /\ wk'.at = wk.at /\ wk'.k = wk.k
      /\ \/ /\ wk'.mem = wk.mem
            /\ \/ wk'.doc = [wk.doc EXCEPT ![d] = "failed"]
               \/ event.state = "succeeded" /\ wk'.doc = [wk.doc EXCEPT ![d] = "parsed"]
         \/ /\ wk'.mem = [wk.mem EXCEPT ![Parse(d)] = unknown]
            /\ wk'.doc = [wk.doc EXCEPT ![d] = "failed"]
  <2>1. CASE wk' = Step(d, "failed")
    BY <2>1, DocumentGoes DEF DocSteps
  <2>2. CASE wk' = Remember(d, "failed", unknown)
    BY <2>2, <1>1, DocumentRemembers DEF DocSteps
  <2>3. CASE event.state = "succeeded" /\ wk' = Step(d, "parsed")
    BY <2>3, DocumentGoes DEF DocSteps
  <2> QED BY <1>2, <2>1, <2>2, <2>3
<1>5. ParsedInv'
  BY <1>1, <1>2, <1>4 DEF ParsedInv, WorkerShape, Steps
<1> QED BY <1>2, <1>3, <1>4, <1>5, DocumentRelease

LEMMA BatchEndsRelease == ASSUME RInv, BatchEnds PROVE RInv'
<1> USE AttemptIds DEF RInv, Shape
<1>1. /\ row' = row /\ charged' = charged /\ settled' = settled
      /\ WorkerShape' /\ wk'.mem = wk.mem /\ wk.at = "parse"
      /\ wk'.at \in {"parse", "merge"} /\ wk'.k = wk.k
      /\ \A d \in Docs : wk'.doc[d] \in {"ready", wk.doc[d]}
  BY DEF BatchEnds, Goto, WorkerShape, DocSteps
<1>2. RowShape'
  BY <1>1 DEF RowShape
<1>3. ParsedInv'
  BY <1>1 DEF ParsedInv, Steps
<1> QED BY <1>1, <1>2, <1>3, DocumentRelease

LEMMA MergeRelease == ASSUME RInv, Merge PROVE RInv'
<1> DEFINE merged == Merged(row.events)
           parsed == \A d \in Docs : wk.doc[d] = "parsed"
<1> USE AttemptIds DEF RInv, Shape
<1>1. /\ wk.at = "merge" /\ charged' = charged /\ settled' = settled
      /\ row' = row \/ row' = [row EXCEPT !.events = merged]
      /\ wk' = Goto("recover") \/ (parsed /\ wk' = Goto("preflight"))
  BY DEF Merge, Guarded
<1>2. merged \in [Attempts -> Events]
  BY DEF Merged, RowShape, WorkerShape
<1> HIDE DEF merged
<1>3. RowShape' /\ row'.status = row.status /\ row'.cost = row.cost
  BY <1>1, <1>2 DEF RowShape
<1>4. /\ WorkerShape' /\ wk'.doc = wk.doc /\ wk'.mem = wk.mem /\ wk'.k = wk.k
      /\ wk'.at = "recover" \/ (wk'.at = "preflight" /\ parsed)
  BY <1>1, WorkerGoes
<1>5. ParsedInv'
  BY <1>1, <1>4 DEF ParsedInv, Steps
<1>6. BatchesInv'
  BY <1>1, <1>4, BatchesAway
<1>7. GateInv'
  BY <1>1, <1>3, <1>4, GateAway DEF UpToBatches
<1>8. CostInv'
  BY <1>3, <1>4, CostKept
<1> QED BY <1>3, <1>4, <1>5, <1>6, <1>7, <1>8

-----------------------------------------------------------------------------
(* The release: the model batches *)

\* The batches before the one the worker is at are not touched by it.
LEMMA EarlierBatches ==
  ASSUME RInv, wk.at \in {"markBatch", "call", "settleBatch"},
         wk.started \subseteq wk'.started,
         \A a \in Attempts : a # Model(wk.k) => /\ charged'[a] = charged[a]
                                                /\ row'.events[a] = row.events[a]
  PROVE  \A j \in Batches : j < wk.k => j \in wk'.started /\ BatchPaid(j)'
<1> SUFFICES ASSUME NEW j \in Batches, j < wk.k PROVE j \in wk'.started /\ BatchPaid(j)'
  OBVIOUS
<1>1. wk.k \in Batches /\ j \in wk.started /\ BatchPaid(j)
  BY DEF RInv, Shape, WorkerShape, BatchesInv, Steps
<1>2. Model(j) \in Attempts /\ Model(j) # Model(wk.k)
  <2>1. j # wk.k
    BY <1>1 DEF Batches
  <2> QED BY <1>1, <2>1, AttemptIds
<1> QED BY <1>1, <1>2 DEF BatchPaid

\* A step between the preflight and the gate leaves the documents alone.
LEMMA BatchRelease ==
  ASSUME RInv, RowShape', WorkerShape', BatchesInv',
         wk.at \in {"preflight", "markBatch", "call", "settleBatch"},
         wk'.at \in {"markBatch", "call", "settleBatch", "billed", "lost", "recover"},
         wk'.doc = wk.doc, wk'.mem = wk.mem,
         \A d \in Docs : charged'[Parse(d)] = charged[Parse(d)],
         settled' = settled, row'.status = row.status,
         row'.cost = row.cost \/ row'.cost \in Nat
  PROVE  RInv'
<1>1. ParsedInv'
  BY ParsedKept DEF RInv
<1>2. GateInv'
  BY GateAway DEF RInv, UpToBatches
<1>3. CostInv'
  BY CostKept DEF RInv
<1> QED BY <1>1, <1>2, <1>3 DEF RInv, Shape

LEMMA PreflightRelease == ASSUME RInv, Preflight PROVE RInv'
<1>1. /\ wk.at = "preflight" /\ row' = row /\ charged' = charged /\ settled' = settled
      /\ \E step \in {"markBatch", "recover"} : wk' = Goto(step)
  BY DEF Preflight
<1>2. /\ WorkerShape' /\ wk'.doc = wk.doc /\ wk'.mem = wk.mem /\ wk'.k = wk.k
      /\ wk'.at \in {"markBatch", "recover"}
  BY <1>1, WorkerGoes DEF RInv, Shape
<1>3. RowShape'
  BY <1>1 DEF RInv, Shape, RowShape
<1>4. BatchesInv'
  <2>1. wk.k = 1 /\ \A j \in Batches : ~(j < 1)
    BY <1>1 DEF RInv, BatchesInv, Steps, Batches
  <2> QED BY <1>2, <2>1 DEF BatchesInv, Steps
<1> QED BY <1>1, <1>2, <1>3, <1>4, BatchRelease

LEMMA MarkBatchRelease == ASSUME RInv, MarkBatch PROVE RInv'
<1> DEFINE k == wk.k
           cap == OutputCap(k, wk.used)
           pending == Event("pending", MaxCost(k, wk.used))
           called == [wk EXCEPT !.at = "call", !.started = @ \cup {k}]
<1>0. RowShape /\ WorkerShape /\ k \in Batches /\ wk.used \in Int /\ Model(k) \in Attempts
  BY AttemptIds DEF RInv, Shape, WorkerShape
<1>1. /\ wk.at = "markBatch" /\ charged' = charged /\ settled' = settled
      /\ \/ row' = row /\ wk' = Goto("lost")
         \/ /\ ~(cap < OutputFloors[k])
            /\ row' = row \/ row' = WithEvent(Model(k), pending)
            /\ wk' = Goto("lost") \/ wk' = called
  BY DEF MarkBatch, MarkPending, Guarded
<1>2. ~(cap < OutputFloors[k]) => cap \in Nat /\ pending \in Events
  <2> SUFFICES ASSUME ~(cap < OutputFloors[k]) PROVE cap \in Nat /\ pending \in Events
    OBVIOUS
  <2>1. cap \in Int /\ InputTokens[k] \in Nat /\ OutputFloors[k] \in Nat
    BY <1>0, CapIsInteger, LedgerAssumption
  <2>2. cap \in Nat
    BY <2>1
  <2>3. MaxCost(k, wk.used) \in Nat
    BY <2>1, <2>2, PriceIsNatural DEF MaxCost
  <2> QED BY <2>2, <2>3 DEF Event, Events, EventStates
<1> HIDE DEF pending
<1>3. /\ RowShape' /\ row'.status = row.status /\ (row'.cost = row.cost \/ row'.cost \in Nat)
      /\ row'.events = row.events \/ row'.events = [row.events EXCEPT ![Model(k)] = pending]
  <2>1. CASE row' = row
    BY <1>0, <1>1, <2>1 DEF RowShape
  <2>2. CASE row' = WithEvent(Model(k), pending) /\ pending \in Events
    BY <1>0, <1>1, <2>2, EventWritten
  <2> QED BY <1>1, <1>2, <2>1, <2>2
<1>4. /\ WorkerShape' /\ wk'.doc = wk.doc /\ wk'.mem = wk.mem /\ wk'.k = k /\ wk'.used = wk.used
      /\ wk.started \subseteq wk'.started
      /\ \/ wk'.at = "lost"
         \/ wk'.at = "call" /\ k \in wk'.started /\ cap \in Nat
  <2>1. CASE wk' = Goto("lost")
    BY <1>0, <2>1, WorkerGoes
  <2>2. CASE wk' = called /\ cap \in Nat
    <3>1. wk.started \cup {k} \subseteq 1..k
      BY <1>0 DEF WorkerShape, Batches
    <3>2. WorkerShape'
      BY <1>0, <2>2, <3>1 DEF WorkerShape
    <3> QED BY <1>0, <2>2, <3>2 DEF WorkerShape
  <2> QED BY <1>1, <1>2, <2>1, <2>2
<1>5. \A a \in Attempts : a # Model(k) => /\ charged'[a] = charged[a]
                                          /\ row'.events[a] = row.events[a]
  BY <1>0, <1>1, <1>3 DEF RowShape
<1>6. \A j \in Batches : j < k => j \in wk'.started /\ BatchPaid(j)'
  BY <1>1, <1>4, <1>5, EarlierBatches
<1>7. BatchesInv'
  BY <1>4, <1>6 DEF BatchesInv, Steps
<1> QED BY <1>1, <1>3, <1>4, <1>7, BatchRelease

\* What a call ends with is charged to its attempt, and no success says less.
LEMMA CallEndsRelease ==
  ASSUME RInv, wk.at = "call", row' = row, settled' = settled,
         NEW c \in Nat, charged' = [charged EXCEPT ![Model(wk.k)] = c],
         NEW e \in Events, NEW n \in Int,
         wk' = [wk EXCEPT !.at = "settleBatch", !.outcome = e, !.used = @ + n],
         e.state = "succeeded" => c <= e.amount
  PROVE  RInv'
<1> DEFINE k == wk.k
<1>0. RowShape /\ WorkerShape /\ k \in Batches /\ Model(k) \in Attempts
  BY AttemptIds DEF RInv, Shape, WorkerShape
<1>1. /\ WorkerShape' /\ wk'.at = "settleBatch" /\ wk'.k = k /\ wk'.outcome = e
      /\ wk'.mem = wk.mem /\ wk'.doc = wk.doc /\ wk'.started = wk.started
  <2>1. wk.used + n \in Int
    BY <1>0 DEF WorkerShape
  <2>2. WorkerShape'
    BY <1>0, <2>1 DEF WorkerShape
  <2> QED BY <1>0, <2>2 DEF WorkerShape
<1>2. RowShape' /\ row'.status = row.status /\ row'.cost = row.cost
  BY <1>0 DEF RowShape
<1>3. /\ \A a \in Attempts : a # Model(k) => charged'[a] = charged[a]
      /\ charged'[Model(k)] = c
  BY <1>0 DEF RowShape
<1>4. k \in wk.started
  BY DEF RInv, BatchesInv, Steps
<1>5. \A j \in Batches : j < k => j \in wk'.started /\ BatchPaid(j)'
  BY <1>1, <1>3, EarlierBatches
<1>6. BatchesInv'
  BY <1>1, <1>3, <1>4, <1>5 DEF BatchesInv, Steps
<1>7. \A d \in Docs : charged'[Parse(d)] = charged[Parse(d)]
  BY <1>0, <1>3, AttemptIds
<1> QED BY <1>1, <1>2, <1>6, <1>7, BatchRelease

LEMMA CallBatchRelease == ASSUME RInv, CallBatch PROVE RInv'
<1> DEFINE k == wk.k
           cap == OutputCap(k, wk.used)
           price(out) == Price(InputTokens[k], out)
           Charge(out) == charged' = [charged EXCEPT ![Model(k)] = price(out)]
<1>0. RowShape /\ WorkerShape /\ k \in Batches /\ wk.used \in Int /\ Model(k) \in Attempts
  BY AttemptIds DEF RInv, Shape, WorkerShape
<1>1. /\ wk.at = "call" /\ row' = row /\ settled' = settled /\ cap \in Nat
      /\ InputTokens[k] \in Nat
  BY <1>0, CapIsInteger DEF CallBatch, RInv, BatchesInv, Steps
<1>2. \A out \in Nat : price(out) \in Nat /\ (out <= cap => price(out) <= price(cap))
  <2> SUFFICES ASSUME NEW out \in Nat
               PROVE  price(out) \in Nat /\ (out <= cap => price(out) <= price(cap))
    OBVIOUS
  <2>1. price(out) \in Nat
    BY <1>1, PriceIsNatural
  <2>2. ASSUME out <= cap PROVE price(out) <= price(cap)
    BY <1>1, <2>2, PriceIsMonotone
  <2> QED BY <2>1, <2>2
<1>3. \/ charged' = charged /\ wk' = Outcome("failed", 0, 0)
      \/ \E out \in 0..cap, state \in {"succeeded", "failed"} :
           /\ Charge(out)
           /\ \/ wk' = Outcome(state, ObservedOrMaximum(k, wk.used, NoUsage), cap)
              \/ wk' = Outcome(state, ObservedOrMaximum(k, wk.used, out), out)
      \/ \E out \in (cap + 1)..(cap + ExcessTokens) :
           Charge(out) /\ wk' = Outcome("failed", ObservedOrMaximum(k, wk.used, out), cap)
  BY DEF CallBatch
<1>4. \A out \in Nat : /\ ObservedOrMaximum(k, wk.used, out) = price(out)
                       /\ ObservedOrMaximum(k, wk.used, NoUsage) = price(cap)
  BY DEF ObservedOrMaximum, NoUsage, MaxCost
<1> HIDE DEF k, cap, price
<1>5. CASE charged' = charged /\ wk' = Outcome("failed", 0, 0)
  <2> DEFINE e == Event("failed", 0)
  <2>1. e \in Events /\ e.state # "succeeded" /\ 0 \in Int
    BY DEF Event, Events, EventStates
  <2>2. wk' = [wk EXCEPT !.at = "settleBatch", !.outcome = e, !.used = @ + 0]
    BY <1>5 DEF Outcome
  <2>3. /\ charged[Model(wk.k)] \in Nat
        /\ charged' = [charged EXCEPT ![Model(wk.k)] = charged[Model(wk.k)]]
    BY <1>0, <1>5 DEF RowShape, k
  <2> HIDE DEF e
  <2> QED BY <1>1, <2>1, <2>2, <2>3, CallEndsRelease
<1>6. ASSUME NEW out \in Nat, NEW amount \in Nat, NEW state \in {"succeeded", "failed"},
             NEW n \in Int, Charge(out), wk' = Outcome(state, amount, n),
             state = "succeeded" => price(out) <= amount
      PROVE  RInv'
  <2> DEFINE e == Event(state, amount)
  <2>1. e \in Events /\ e.state = state /\ e.amount = amount
    BY DEF Event, Events, EventStates
  <2>2. wk' = [wk EXCEPT !.at = "settleBatch", !.outcome = e, !.used = @ + n]
    BY <1>6 DEF Outcome
  <2>3. price(out) \in Nat /\ charged' = [charged EXCEPT ![Model(wk.k)] = price(out)]
    BY <1>2, <1>6 DEF k
  <2> HIDE DEF e
  <2> QED BY <1>1, <1>6, <2>1, <2>2, <2>3, CallEndsRelease
<1>7. ASSUME NEW out \in 0..cap, NEW state \in {"succeeded", "failed"}, Charge(out),
             \/ wk' = Outcome(state, price(cap), cap)
             \/ wk' = Outcome(state, price(out), out)
      PROVE  RInv'
  <2>1. /\ out \in Nat /\ out \in Int /\ cap \in Int /\ cap \in Nat
        /\ price(out) \in Nat /\ price(cap) \in Nat
        /\ price(out) <= price(out) /\ price(out) <= price(cap)
    BY <1>1, <1>2, <1>7
  <2>2. CASE wk' = Outcome(state, price(cap), cap)
    BY <1>6, <1>7, <2>1, <2>2
  <2>3. CASE wk' = Outcome(state, price(out), out)
    BY <1>6, <1>7, <2>1, <2>3
  <2> QED BY <1>7, <2>2, <2>3
<1>8. ASSUME NEW out \in (cap + 1)..(cap + ExcessTokens), Charge(out),
             wk' = Outcome("failed", price(out), cap)
      PROVE  RInv'
  <2>1. out \in Nat /\ cap \in Int /\ price(out) \in Nat
    BY <1>1, <1>2, LedgerAssumption
  <2>2. "failed" \in {"succeeded", "failed"} /\ "failed" # "succeeded"
    OBVIOUS
  <2> QED BY <1>6, <1>8, <2>1, <2>2
<1>9. \A out \in (cap + 1)..(cap + ExcessTokens) : out \in Nat
  BY <1>1, LedgerAssumption
<1>10. \A out \in 0..cap : out \in Nat
  BY <1>1
<1> QED BY <1>3, <1>4, <1>5, <1>7, <1>8, <1>9, <1>10

LEMMA SettleBatchRelease == ASSUME RInv, SettleBatch PROVE RInv'
<1> DEFINE k == wk.k
           e == wk.outcome
           new == WithEvent(Model(k), e)
           next == [wk EXCEPT !.at = "markBatch", !.k = k + 1]
           done == e.state = "succeeded" /\ row' = new
<1>0. RowShape /\ WorkerShape /\ k \in Batches /\ Model(k) \in Attempts /\ e \in Events
  BY AttemptIds DEF RInv, Shape, WorkerShape
<1>1. /\ wk.at = "settleBatch" /\ charged' = charged /\ settled' = settled
      /\ row' = row \/ row' = new
      /\ \/ wk' = Goto("lost")
         \/ done /\ k = Len(InputTokens) /\ wk' = Goto("billed")
         \/ done /\ k # Len(InputTokens) /\ wk' = next
  BY DEF SettleBatch, Guarded
<1>2. k \in wk.started /\ (e.state = "succeeded" => charged[Model(k)] <= e.amount)
  BY <1>1 DEF RInv, BatchesInv, Steps
<1> HIDE DEF new
<1>3. /\ RowShape' /\ row'.status = row.status /\ (row'.cost = row.cost \/ row'.cost \in Nat)
      /\ row'.events = row.events \/ row'.events = [row.events EXCEPT ![Model(k)] = e]
      /\ row' = new => row'.events = [row.events EXCEPT ![Model(k)] = e]
  <2>1. CASE row' = new
    <3>1. row' = WithEvent(Model(k), e)
      BY <2>1 DEF new
    <3> QED BY <1>0, <1>1, <3>1, EventWritten
  <2>2. CASE row' = row /\ row' # new
    BY <1>0, <1>1, <2>2 DEF RowShape
  <2> QED BY <1>1, <2>1, <2>2
<1>4. done => /\ row'.events[Model(k)].state = "succeeded"
              /\ charged'[Model(k)] <= row'.events[Model(k)].amount
  <2>1. done => row'.events[Model(k)] = e
    BY <1>0, <1>3 DEF RowShape
  <2> QED BY <1>1, <1>2, <2>1
<1>5. \A a \in Attempts : a # Model(k) => /\ charged'[a] = charged[a]
                                          /\ row'.events[a] = row.events[a]
  BY <1>0, <1>1, <1>3 DEF RowShape
<1> HIDE DEF done
<1>6. /\ WorkerShape' /\ wk'.doc = wk.doc /\ wk'.mem = wk.mem /\ wk'.started = wk.started
      /\ \/ wk'.at = "lost"
         \/ wk'.at = "billed" /\ done /\ k = Len(InputTokens)
         \/ wk'.at = "markBatch" /\ done /\ wk'.k = k + 1
  <2>1. CASE wk' = Goto("lost")
    BY <1>0, <2>1, WorkerGoes
  <2>2. CASE done /\ k = Len(InputTokens) /\ wk' = Goto("billed")
    BY <1>0, <2>2, WorkerGoes
  <2>3. CASE done /\ k # Len(InputTokens) /\ wk' = next
    <3>1. k + 1 \in Batches /\ 1..k \subseteq 1..(k + 1)
      <4>1. Len(InputTokens) \in Nat /\ k \in 1..Len(InputTokens) /\ k # Len(InputTokens)
        <5>1. InputTokens \in Seq(Nat) /\ k \in Batches
          BY <1>0, LedgerAssumption
        <5> QED BY <2>3, <5>1 DEF Batches
      <4> HIDE DEF k
      <4> QED BY <4>1 DEF Batches
    <3>2. wk.started \subseteq 1..(k + 1)
      BY <1>0, <3>1 DEF WorkerShape
    <3>3. WorkerShape'
      BY <1>0, <2>3, <3>1, <3>2 DEF WorkerShape
    <3> QED BY <1>0, <2>3, <3>3 DEF WorkerShape
  <2> QED BY <1>1, <2>1, <2>2, <2>3
<1>7. \A j \in Batches : j < k => j \in wk'.started /\ BatchPaid(j)'
  BY <1>1, <1>5, <1>6, EarlierBatches
<1>8. BatchesInv'
  <2>1. CASE wk'.at = "lost"
    BY <2>1, BatchesAway DEF RInv
  <2>2. CASE wk'.at = "billed" /\ done /\ k = Len(InputTokens)
    <3>1. \A j \in Batches : j < k \/ j = k
      BY <1>0, <2>2, LedgerAssumption DEF Batches
    <3>2. \A j \in Batches : j \in wk'.started /\ BatchPaid(j)'
      BY <1>2, <1>4, <1>6, <1>7, <2>2, <3>1 DEF BatchPaid
    <3> QED BY <2>2, <3>2 DEF BatchesInv, Steps
  <2>3. CASE wk'.at = "markBatch" /\ done /\ wk'.k = k + 1
    <3>1. \A j \in Batches : j < k + 1 => j < k \/ j = k
      BY <1>0 DEF Batches
    <3>2. \A j \in Batches : j < wk'.k => j \in wk'.started /\ BatchPaid(j)'
      BY <1>2, <1>4, <1>6, <1>7, <2>3, <3>1 DEF BatchPaid
    <3> QED BY <2>3, <3>2 DEF BatchesInv, Steps
  <2> QED BY <1>6, <2>1, <2>2, <2>3
<1> QED BY <1>1, <1>3, <1>6, <1>8, BatchRelease

-----------------------------------------------------------------------------
(* The release: the gate and the ends of a run *)

\* Past the batches the worker's memory of the documents no longer matters.
LEMMA EndRelease ==
  ASSUME RInv, RowShape', WorkerShape', GateInv', CostInv',
         wk'.at \in {"lost", "recover", "over", "verify", "settle", "publish", "settleFailure"},
         wk'.doc = wk.doc, charged' = charged,
         \A d \in Docs : wk'.mem[Parse(d)] = wk.mem[Parse(d)]
  PROVE  RInv'
<1>1. ParsedInv'
  BY ParsedKept DEF RInv
<1>2. BatchesInv'
  BY BatchesAway DEF RInv
<1> QED BY <1>1, <1>2 DEF RInv, Shape

LEMMA BilledRelease == ASSUME RInv, Billed \/ Lost PROVE RInv'
<1> USE AttemptIds DEF RInv, Shape
<1>1. /\ wk.at \in {"billed", "lost"} /\ row' = row /\ charged' = charged /\ settled' = settled
      /\ \/ wk.at = "billed" /\ wk' = [wk EXCEPT !.at = "verify", !.mem = WithBilled]
         \/ wk' = [wk EXCEPT !.at = "recover", !.mem = WithBilled]
         \/ wk' = Goto("lost") \/ wk' = Goto("recover")
  BY DEF Billed, Lost
<1>2. CASE wk' = Goto("lost") \/ wk' = Goto("recover")
  <2>1. row.status # "released"
    BY <1>1 DEF GateInv, Steps
  <2> QED BY <1>1, <1>2, <2>1, ReleaseLeft
<1>3. ASSUME NEW step \in {"verify", "recover"},
             wk' = [wk EXCEPT !.at = step, !.mem = WithBilled],
             step = "verify" => wk.at = "billed"
      PROVE  RInv'
  <2>1. /\ WithBilled \in [Attempts -> Events]
        /\ \A d \in Docs : WithBilled[Parse(d)] = wk.mem[Parse(d)]
    <3>1. wk.started \subseteq Batches
      <4>1. wk.started \subseteq 1..wk.k /\ wk.k \in Batches
        BY DEF WorkerShape
      <4>2. Len(InputTokens) \in Nat
        BY LedgerAssumption
      <4> QED BY <4>1, <4>2 DEF Batches
    <3> QED BY <3>1 DEF WithBilled, RowShape, WorkerShape
  <2>2. WorkerShape' /\ wk'.at = step /\ wk'.mem = WithBilled /\ wk'.doc = wk.doc
    BY <1>3, <2>1 DEF WorkerShape
  <2>3. RowShape'
    BY <1>1 DEF RowShape
  <2>4. step = "verify" => PaidFor(WithBilled)
    <3> SUFFICES ASSUME wk.at = "billed", NEW a \in Attempts
                 PROVE  WithBilled[a].state = "succeeded" /\ charged[a] <= WithBilled[a].amount
      BY <1>3 DEF PaidFor
    <3>1. CASE \E d \in Docs : a = Parse(d)
      BY <2>1, <3>1 DEF ParsedInv, Steps
    <3>2. CASE \E k \in Batches : a = Model(k)
      <4>1. PICK k \in Batches : a = Model(k)
        BY <3>2
      <4>2. k \in wk.started /\ BatchPaid(k)
        BY DEF BatchesInv, Steps
      <4>3. WithBilled[a] = row.events[a]
        BY <4>1, <4>2 DEF WithBilled
      <4> QED BY <4>1, <4>2, <4>3 DEF BatchPaid
    <3> QED BY <3>1, <3>2
  <2>5. GateInv'
    <3>1. row.status # "released"
      BY <1>1 DEF GateInv, Steps
    <3>2. step = "verify" => PaidFor(wk.mem)'
      BY <1>1, <2>2, <2>4 DEF PaidFor
    <3> QED BY <1>1, <2>2, <3>1, <3>2 DEF GateInv, Steps
  <2>6. CostInv'
    BY <1>1, <2>2, CostKept
  <2> QED BY <1>1, <2>1, <2>2, <2>3, <2>5, <2>6, EndRelease
<1> QED BY <1>1, <1>2, <1>3

LEMMA VerifyRelease == ASSUME RInv, Verify PROVE RInv'
<1> DEFINE cost == Total(wk.mem) + Infra
           new == [row EXCEPT !.events = wk.mem, !.infra = Infra, !.cost = cost]
           next == [wk EXCEPT !.at = "settle", !.due = cost]
<1> USE DEF RInv, Shape
<1>1. /\ wk.at = "verify" /\ charged' = charged /\ settled' = settled
      /\ row' = new \/ (row' = row /\ wk' = Goto("recover"))
      /\ wk' = next \/ wk' = Goto("recover")
  BY DEF Verify, Guarded
<1>2. cost \in Nat /\ wk.mem \in [Attempts -> Events]
  <2>1. wk.mem \in [Attempts -> Events]
    BY DEF WorkerShape
  <2>2. Total(wk.mem) \in Nat
    BY <2>1, TotalIsSum
  <2> QED BY <2>1, <2>2, LedgerAssumption
<1>3. PaidFor(wk.mem) /\ row.status # "released"
  BY <1>1 DEF GateInv, Steps
<1> HIDE DEF cost
<1>4. /\ RowShape' /\ row'.status = row.status /\ (row'.cost = row.cost \/ row'.cost \in Nat)
      /\ row'.events = wk.mem \/ wk' = Goto("recover")
  <2>1. CASE row' = new
    BY <1>1, <1>2, <2>1 DEF RowShape
  <2>2. CASE row' = row /\ wk' = Goto("recover")
    BY <1>1, <2>2 DEF RowShape
  <2> QED BY <1>1, <2>1, <2>2
<1>5. /\ WorkerShape' /\ wk'.doc = wk.doc /\ wk'.mem = wk.mem
      /\ wk'.at = "recover" \/ (wk'.at = "settle" /\ wk'.due = cost /\ row'.events = wk.mem)
  <2>1. CASE wk' = next /\ wk' # Goto("recover")
    BY <1>4, <2>1 DEF WorkerShape
  <2>2. CASE wk' = Goto("recover")
    BY <2>2, WorkerGoes
  <2> QED BY <1>1, <2>1, <2>2
<1>6. GateInv'
  <2>1. CASE wk'.at = "recover"
    BY <1>1, <1>3, <1>4, <2>1 DEF GateInv, Steps
  <2>2. CASE wk'.at = "settle" /\ wk'.due = cost /\ row'.events = wk.mem
    <3>1. PaidFor(row.events)' /\ Total(row.events)' = Total(wk.mem)
      BY <1>1, <1>3, <2>2 DEF PaidFor
    <3>2. wk'.due = Total(row.events)' + Infra
      BY <2>2, <3>1 DEF cost
    <3> QED BY <1>1, <1>3, <1>4, <2>2, <3>1, <3>2 DEF GateInv, Steps
  <2> QED BY <1>5, <2>1, <2>2
<1>7. CostInv'
  BY <1>4, <1>5, CostKept
<1> QED BY <1>1, <1>4, <1>5, <1>6, <1>7, EndRelease

LEMMA SettleRelease == ASSUME RInv, Settle PROVE RInv'
<1> USE DEF RInv, Shape
<1>1. /\ wk.at = "settle" /\ row' = row /\ charged' = charged
      /\ \/ wk' = Goto("recover") /\ settled' = settled
         \/ wk' = Goto("recover") /\ settled' = Larger(settled, wk.due) /\ wk.due <= Reserved
         \/ wk' = Goto("publish") /\ settled' = Larger(settled, wk.due) /\ wk.due <= Reserved
  BY DEF Settle, SettleAt, Settleable
<1>2. /\ PaidFor(row.events) /\ wk.due = Total(row.events) + Infra
      /\ row.status # "released" /\ settled \in Nat \cup {Unsettled} /\ settled <= Reserved
  BY <1>1 DEF GateInv, Steps
<1>3. wk.due \in Nat /\ settled \in Int
  <2>1. Total(row.events) \in Nat
    BY TotalIsSum DEF RowShape
  <2> QED BY <1>2, <2>1, LedgerAssumption DEF Unsettled
<1>4. /\ Larger(settled, wk.due) \in Nat \cup {Unsettled} /\ Larger(settled, wk.due) >= wk.due
      /\ wk.due <= Reserved => Larger(settled, wk.due) <= Reserved
  BY <1>2, <1>3, LargerIsLarger
<1>5. /\ WorkerShape' /\ wk'.doc = wk.doc /\ wk'.mem = wk.mem
      /\ \/ wk'.at = "recover"
         \/ wk'.at = "publish" /\ settled' = Larger(settled, wk.due)
      /\ settled' = settled \/ (settled' = Larger(settled, wk.due) /\ wk.due <= Reserved)
  BY <1>1, WorkerGoes
<1>6. RowShape'
  BY <1>1 DEF RowShape
<1>7. GateInv'
  <2>1. settled' \in Nat \cup {Unsettled} /\ settled' <= Reserved
    BY <1>2, <1>4, <1>5
  <2>2. wk'.at = "publish" => Total(row.events) + Infra <= settled'
    BY <1>2, <1>3, <1>4, <1>5
  <2>3. PaidFor(row.events)' /\ Total(row.events)' = Total(row.events)
    BY <1>1, <1>2 DEF PaidFor
  <2>4. wk'.at \in {"recover", "publish"} /\ row'.status # "released"
    BY <1>1, <1>2, <1>5
  <2> QED BY <2>1, <2>2, <2>3, <2>4 DEF GateInv, Steps
<1>8. CostInv'
  BY <1>1, <1>5, CostKept
<1> QED BY <1>1, <1>5, <1>6, <1>7, <1>8, EndRelease

LEMMA PublishRelease == ASSUME RInv, Publish PROVE RInv'
<1> DEFINE new == [row EXCEPT !.status = "released", !.lease = "gone"]
<1> USE DEF RInv, Shape
<1>1. /\ wk.at = "publish" /\ charged' = charged /\ settled' = settled
      /\ row' = row \/ row' = new
      /\ wk' = Goto("over") \/ wk' = Goto("recover")
  BY DEF Publish, Guarded
<1>2. /\ PaidFor(row.events) /\ Total(row.events) + Infra <= settled /\ row.status # "released"
  BY <1>1 DEF GateInv, Steps
<1>3. /\ RowShape' /\ row'.events = row.events /\ row'.cost = row.cost
      /\ row'.status = "released" => row'.lease = "gone"
  <2>1. CASE row' = row
    BY <1>1, <1>2, <2>1 DEF RowShape
  <2>2. CASE row' = new
    BY <1>1, <2>2 DEF RowShape
  <2> QED BY <1>1, <2>1, <2>2
<1>4. /\ WorkerShape' /\ wk'.doc = wk.doc /\ wk'.mem = wk.mem /\ wk'.at \in {"over", "recover"}
  BY <1>1, WorkerGoes
<1>5. GateInv'
  <2>1. PaidFor(row.events)' /\ Total(row.events)' = Total(row.events)
    BY <1>1, <1>2, <1>3 DEF PaidFor
  <2> QED BY <1>1, <1>2, <1>3, <1>4, <2>1 DEF GateInv, Steps
<1>6. CostInv'
  BY <1>3, <1>4, CostKept
<1> QED BY <1>1, <1>3, <1>4, <1>5, <1>6, EndRelease

LEMMA InterruptedRelease == ASSUME RInv, Interrupted \/ Killed PROVE RInv'
<1>1. /\ row' = row /\ charged' = charged /\ settled' = settled
      /\ \/ wk' = Goto("over") \/ wk' = Goto("recover")
         \/ wk.at = "markBatch" /\ wk' = Goto("lost")
  BY DEF Interrupted, Killed
<1>2. wk.at = "markBatch" => row.status # "released"
  BY DEF RInv, GateInv, Steps
<1> QED BY <1>1, <1>2, ReleaseLeft

\* A result that is shown has no lease left for the catch clause to write under.
LEMMA RecoverRelease == ASSUME RInv, Recover PROVE RInv'
<1> DEFINE merged == Merged(row.events)
           cost == Total(merged) + Infra
           new == [row EXCEPT !.events = merged, !.infra = Infra, !.cost = cost,
                              !.status = "failed", !.lease = "gone"]
<1> USE DEF RInv, Shape
<1>1. merged \in [Attempts -> Events]
  BY DEF Merged, RowShape, WorkerShape
<1>2. cost \in Nat /\ Total(wk.mem) + Infra \in Nat
  <2>1. Total(merged) \in Nat
    BY <1>1, TotalIsSum
  <2>2. Total(wk.mem) \in Nat
    BY TotalIsSum DEF WorkerShape
  <2> QED BY <2>1, <2>2, LedgerAssumption
<1>3. new.cost = cost
  BY DEF RowShape
<1> HIDE DEF cost
<1>4. /\ wk.at = "recover" /\ charged' = charged /\ settled' = settled
      /\ \/ /\ row.lease = "held" /\ row' = new
            /\ wk' = [wk EXCEPT !.at = "settleFailure", !.due = FailureAmount(new.cost)]
         \/ row' = row /\ wk' = [wk EXCEPT !.at = "settleFailure", !.due = FailureAmount(row.cost)]
  BY DEF Recover, cost
<1> HIDE DEF merged
<1>5. \A c \in Nat : FailureAmount(c) \in Nat
  <2> SUFFICES ASSUME NEW c \in Nat PROVE FailureAmount(c) \in Nat
    OBVIOUS
  <2>1. Reserved \in Nat
    BY LedgerAssumption
  <2>2. Larger(c, Total(wk.mem) + Infra) \in Nat
    BY <1>2, LargerIsLarger
  <2> QED BY <2>1, <2>2, LargerIsLarger DEF FailureAmount
<1>6. /\ RowShape' /\ row'.cost \in Nat
      /\ row' = row \/ (row.lease = "held" /\ row'.status = "failed")
  <2>1. CASE row.lease = "held" /\ row' = new
    BY <1>1, <1>2, <1>4, <2>1 DEF RowShape
  <2>2. CASE row' = row
    BY <1>4, <2>2 DEF RowShape, CostInv
  <2> QED BY <1>4, <2>1, <2>2
<1>7. \E due \in Nat : wk' = [wk EXCEPT !.at = "settleFailure", !.due = due]
  <2>1. row.cost \in Nat
    BY DEF CostInv
  <2> QED BY <1>2, <1>3, <1>4, <1>5, <2>1
<1>8. /\ WorkerShape' /\ wk'.doc = wk.doc /\ wk'.mem = wk.mem
      /\ wk'.at = "settleFailure" /\ wk'.due \in Nat
  BY <1>7 DEF WorkerShape
<1>9. GateInv'
  <2>1. CASE row' = row
    BY <1>4, <1>8, <2>1 DEF GateInv, Steps, PaidFor
  <2>2. CASE row.lease = "held" /\ row'.status = "failed"
    BY <1>4, <1>8, <2>2 DEF GateInv, Steps
  <2> QED BY <1>6, <2>1, <2>2
<1>10. CostInv'
  BY <1>6, <1>8 DEF CostInv
<1> QED BY <1>4, <1>6, <1>8, <1>9, <1>10, EndRelease

LEMMA SettleFailureRelease == ASSUME RInv, SettleFailure PROVE RInv'
<1> USE DEF RInv, Shape
<1>1. /\ wk.at = "settleFailure" /\ row' = row /\ charged' = charged /\ wk' = Goto("over")
      /\ \/ settled' = settled
         \/ settled' = Larger(settled, wk.due) /\ wk.due <= Reserved
  BY DEF SettleFailure, SettleAt, Settleable
<1>2. /\ wk.due \in Nat /\ settled \in Nat \cup {Unsettled} /\ settled \in Int
      /\ settled <= Reserved /\ Reserved \in Nat
  BY <1>1, LedgerAssumption DEF CostInv, GateInv, Steps, Unsettled
<1>3. settled' \in Nat \cup {Unsettled} /\ settled' <= Reserved /\ settled <= settled'
  BY <1>1, <1>2, LargerIsLarger
<1>4. WorkerShape' /\ wk'.doc = wk.doc /\ wk'.mem = wk.mem /\ wk'.at = "over"
  BY <1>1, WorkerGoes
<1>5. RowShape'
  BY <1>1 DEF RowShape
<1>6. GateInv'
  <2>1. Total(row.events) + Infra \in Nat
    <3>1. Total(row.events) \in Nat
      BY TotalIsSum DEF RowShape
    <3> QED BY <3>1, LedgerAssumption
  <2>2. row.status = "released" => Total(row.events) + Infra <= settled'
    <3> SUFFICES ASSUME row.status = "released" PROVE Total(row.events) + Infra <= settled'
      OBVIOUS
    <3>1. Total(row.events) + Infra <= settled
      BY DEF GateInv
    <3>2. settled' \in Int
      BY <1>3 DEF Unsettled
    <3> QED BY <1>2, <1>3, <2>1, <3>1, <3>2
  <2>3. Total(row.events)' = Total(row.events) /\ (PaidFor(row.events) => PaidFor(row.events)')
    BY <1>1 DEF PaidFor
  <2> QED BY <1>1, <1>3, <1>4, <2>2, <2>3 DEF GateInv, Steps
<1>7. CostInv'
  BY <1>1, <1>4, CostKept
<1> QED BY <1>1, <1>4, <1>5, <1>6, <1>7, EndRelease

LEMMA WithdrawRelease == ASSUME RInv, Withdraw PROVE RInv'
<1> USE DEF RInv, Shape
<1>1. /\ wk' = wk /\ charged' = charged /\ settled' = settled /\ row.lease = "held"
      /\ row' = [row EXCEPT !.lease = "gone", !.status = "withdrawn"]
  BY DEF Withdraw
<1>2. /\ RowShape' /\ row'.events = row.events /\ row'.cost = row.cost
      /\ row'.status = "withdrawn"
  BY <1>1 DEF RowShape
<1>3. WorkerShape' /\ ParsedInv'
  BY <1>1 DEF WorkerShape, ParsedInv, Steps
<1>4. BatchesInv' /\ CostInv'
  BY <1>1, <1>2 DEF BatchesInv, BatchPaid, CostInv, Steps
<1>5. GateInv'
  BY <1>1, <1>2 DEF GateInv, PaidFor, Steps
<1> QED BY <1>2, <1>3, <1>4, <1>5

LEMMA StutteringRelease == ASSUME RInv, UNCHANGED vars PROVE RInv'
<1>1. RowShape' /\ WorkerShape' /\ ParsedInv'
  BY DEF vars, RInv, Shape, RowShape, WorkerShape, ParsedInv, Steps
<1>2. BatchesInv' /\ GateInv' /\ CostInv'
  BY DEF vars, RInv, BatchesInv, BatchPaid, GateInv, PaidFor, CostInv, Steps
<1> QED BY <1>1, <1>2 DEF RInv, Shape

LEMMA EveryRelease == RInv /\ [Next]_vars => RInv'
<1> SUFFICES ASSUME RInv, [Next]_vars PROVE RInv'
  OBVIOUS
<1>1. ASSUME NEW d \in Docs, ParseDocument(d) PROVE RInv'
  BY <1>1, NotStartedRelease, MarkStartedRelease, DispatchRelease, CaptureRelease
     DEF ParseDocument
<1>2. CASE Plan \/ BatchEnds \/ Merge
  BY <1>2, PlanRelease, BatchEndsRelease, MergeRelease
<1>3. CASE Extract
  BY <1>3, PreflightRelease, MarkBatchRelease, CallBatchRelease, SettleBatchRelease,
     BilledRelease DEF Extract
<1>4. CASE Finish
  BY <1>4, VerifyRelease, SettleRelease, PublishRelease, InterruptedRelease,
     RecoverRelease, SettleFailureRelease DEF Finish
<1>5. CASE Killed \/ Withdraw
  BY <1>5, InterruptedRelease, WithdrawRelease
<1>6. CASE UNCHANGED vars
  BY <1>6, StutteringRelease
<1> QED BY <1>1, <1>2, <1>3, <1>4, <1>5, <1>6 DEF Next

\* Whatever the providers charge, a result is shown only when all of it has been
\* settled within the reservation and no attempt was left pending or failed.
THEOREM ReleaseIsPaid == Spec => []ReleasedWithinReservation
<1>1. RInv => ReleasedWithinReservation
  <2> SUFFICES ASSUME RInv, row.status = "released"
               PROVE  /\ Spent + Infra <= settled /\ settled <= Reserved
                      /\ \A a \in Attempts : row.events[a].state = "succeeded"
    BY DEF ReleasedWithinReservation
  <2>1. /\ PaidFor(row.events) /\ Total(row.events) + Infra <= settled /\ settled <= Reserved
        /\ settled \in Nat \cup {Unsettled}
    BY DEF RInv, GateInv
  <2>2. row.events \in [Attempts -> Events] /\ charged \in [Attempts -> Nat]
    BY DEF RInv, Shape, RowShape
  <2>3. /\ Amounts(row.events) \in [Attempts -> Nat] /\ Total(row.events) \in Nat
        /\ Total(row.events) = SumOver(Amounts(row.events))
    BY <2>2, TotalIsSum
  <2>4. Spent = SumOver(charged) /\ Spent \in Nat
    BY <2>2, SpentIsSum
  <2>5. \A a \in Attempts : charged[a] <= Amounts(row.events)[a]
    BY <2>1 DEF Amounts, PaidFor
  <2>6. Spent <= Total(row.events)
    BY <2>2, <2>3, <2>4, <2>5, SumGrows
  <2>7. Infra \in Nat /\ settled \in Int
    BY <2>1, LedgerAssumption DEF Unsettled
  <2> QED BY <2>1, <2>3, <2>4, <2>6, <2>7 DEF PaidFor
<1> QED BY <1>1, InitRelease, EveryRelease, PTL DEF Spec

-----------------------------------------------------------------------------
(* The exposure: how far an overcharge can get                                 *)

\* What the parser may charge beyond its reserve.
Over == Max(ParseCharges \cup {ParseReserve}) - ParseReserve
Limit == Reserved + Larger(Batch * Over, Price(0, ExcessTokens))

\* The documents of the batch that is being parsed.
Window == {d \in Docs : wk.first <= d /\ d < wk.first + Batch}

\* The row, in which the calls of some documents count for their reserve at most.
Trimmed(events, W) ==
  [a \in Attempts |-> IF (\E d \in W : a = Parse(d)) /\ events[a].amount > ParseReserve
                      THEN ParseReserve ELSE events[a].amount]

\* A call beyond its reserve is one of the current batch, or the row says so.
CallInv(d) ==
  /\ charged[Parse(d)] <= ParseReserve + Over
  /\ d \notin Window => charged[Parse(d)] <= row.events[Parse(d)].amount
  /\ wk.doc[d] \in {"waiting", "ready"} => charged[Parse(d)] = 0
  /\ wk.doc[d] = "waiting" => d \notin Window
  /\ d >= wk.first + Batch => wk.doc[d] = "waiting"
  /\ wk.doc[d] \in {"ready", "dispatch", "capture"} => d \in Window
  /\ wk.doc[d] \in {"dispatch", "capture"} => row.events[Parse(d)].amount = ParseReserve
  /\ wk.doc[d] = "capture" => charged[Parse(d)] <= wk.mem[Parse(d)].amount
  /\ wk.doc[d] = "parsed" => charged[Parse(d)] <= row.events[Parse(d)].amount
  /\ charged[Parse(d)] > row.events[Parse(d)].amount =>
       ParseReserve <= row.events[Parse(d)].amount

\* The trimmed row is within the reservation, or no call of the batch was begun.
WindowInv ==
  /\ Steps({"plan"}) => wk.first = 1
  /\ Steps({"parse"}) =>
       /\ wk.first \in Nat
       /\ \A d \in Docs : CallInv(d)
       /\ \/ SumOver(Trimmed(row.events, Window)) <= Reserved
          \/ \A d \in Window : wk.doc[d] \in {"ready", "failed"}

\* When a batch is called, the row covers every other attempt and is within the reservation.
ChargeInv ==
  /\ Steps({"plan"}) => \A a \in Attempts : charged[a] = 0
  /\ Steps({"plan", "parse", "merge", "preflight"}) => \A k \in Batches : charged[Model(k)] = 0
  /\ Steps({"preflight", "markBatch", "call", "settleBatch"}) =>
       \A d \in Docs : charged[Parse(d)] <= row.events[Parse(d)].amount
  /\ Steps({"markBatch", "call"}) => \A j \in Batches : j >= wk.k => charged[Model(j)] = 0
  /\ Steps({"settleBatch"}) => \A j \in Batches : j > wk.k => charged[Model(j)] = 0
  /\ Steps({"call"}) => /\ row.events[Model(wk.k)].amount = MaxCost(wk.k, wk.used)
                        /\ Total(row.events) <= Reserved

SpentInv == Spent <= Limit

XInv == SpentInv /\ WindowInv /\ ChargeInv

\* Finitely many amounts have a largest.
LEMMA OverIsMost ==
  ASSUME IsFiniteSet(ParseCharges)
  PROVE  Over \in Nat /\ \A c \in ParseCharges : c <= ParseReserve + Over
<1> DEFINE S == ParseCharges \cup {ParseReserve}
           Most(s, m) == m \in s /\ \A x \in s : m >= x
           G == {s \in SUBSET S : s = {} \/ \E m : Most(s, m)}
<1>1. IsFiniteSet(S) /\ S \subseteq Nat
  BY LedgerAssumption, FS_AddElement
<1> HIDE DEF S
<1>2. ASSUME NEW s \in SUBSET S, \A x \in s : s \ {x} \in G
      PROVE  s \in G
  <2> SUFFICES ASSUME s # {} PROVE \E m : Most(s, m)
    OBVIOUS
  <2>1. PICK x : x \in s
    OBVIOUS
  <2>2. CASE s \ {x} = {}
    <3>1. Most(s, x)
      BY <1>1, <2>1, <2>2
    <3> QED BY <3>1
  <2>3. CASE s \ {x} # {}
    <3>1. PICK m : Most(s \ {x}, m)
      BY <1>2, <2>1, <2>3
    <3>2. x \in Nat /\ m \in Nat /\ \A y \in s : y \in Nat
      BY <1>1, <2>1, <3>1
    <3>3. Most(s, m) \/ Most(s, x)
      BY <2>1, <3>1, <3>2
    <3> QED BY <3>3
  <2> QED BY <2>2, <2>3
<1> HIDE DEF G
<1>3. SUBSET S \subseteq G
  BY <1>1, <1>2, SetInduction
<1>4. \E m \in S : \A x \in S : m >= x
  BY <1>3 DEF G, S
<1>5. Max(S) \in S /\ \A x \in S : Max(S) >= x
  BY <1>4 DEF Max
<1>6. Max(S) \in Nat /\ ParseReserve \in Nat /\ Max(S) >= ParseReserve
  BY <1>1, <1>5, LedgerAssumption DEF S
<1>7. Over = Max(S) - ParseReserve
  BY DEF Over, S
<1>8. \A c \in ParseCharges : c \in Nat /\ c <= Max(S)
  BY <1>1, <1>5 DEF S
<1> HIDE DEF Over
<1> QED BY <1>6, <1>7, <1>8

LEMMA LimitIsAbove ==
  ASSUME IsFiniteSet(ParseCharges)
  PROVE  /\ Over \in Nat /\ Batch \in Nat /\ Batch * Over \in Nat /\ Limit \in Nat
         /\ Price(0, ExcessTokens) \in Nat /\ Reserved \in Nat /\ ParseReserve \in Nat
         /\ Reserved + Batch * Over <= Limit
         /\ Reserved + Price(0, ExcessTokens) <= Limit
<1>1. Over \in Nat /\ Batch \in Nat /\ ExcessTokens \in Nat /\ Reserved \in Nat
      /\ ParseReserve \in Nat
  BY OverIsMost, LedgerAssumption
<1>2. Batch * Over \in Nat /\ Price(0, ExcessTokens) \in Nat
  BY <1>1, PriceIsNatural
<1>3. /\ Larger(Batch * Over, Price(0, ExcessTokens)) \in Nat
      /\ Larger(Batch * Over, Price(0, ExcessTokens)) >= Batch * Over
      /\ Larger(Batch * Over, Price(0, ExcessTokens)) >= Price(0, ExcessTokens)
  BY <1>2, LargerIsLarger
<1> QED BY <1>1, <1>2, <1>3 DEF Limit

\* Each call of some documents counts for so much more.
Raised(h, D, c) ==
  [a \in Attempts |-> IF \E d \in D : a = Parse(d) THEN h[a] + c ELSE h[a]]

LEMMA SumRaised ==
  ASSUME NEW h \in [Attempts -> Nat], NEW c \in Nat
  PROVE  \A D \in SUBSET Docs : SumOver(Raised(h, D, c)) = SumOver(h) + Cardinality(D) * c
<1> DEFINE G == {D \in SUBSET Docs : SumOver(Raised(h, D, c)) = SumOver(h) + Cardinality(D) * c}
<1>0. IsFiniteSet(Docs) /\ SumOver(h) \in Nat
  BY AttemptsAreFinite, SumType
<1>1. ASSUME NEW D \in SUBSET Docs, \A d \in D : D \ {d} \in G
      PROVE  D \in G
  <2>1. CASE D = {}
    <3>1. Raised(h, D, c) = h
      BY <2>1 DEF Raised
    <3>2. Cardinality(D) = 0 /\ 0 * c = 0
      BY <2>1, FS_EmptySet
    <3> QED BY <1>0, <3>1, <3>2
  <2>2. ASSUME NEW d \in D
        PROVE  D \in G
    <3> DEFINE up == [Raised(h, D \ {d}, c) EXCEPT ![Parse(d)] = h[Parse(d)] + c]
    <3>1. Parse(d) \in Attempts /\ \A e \in D \ {d} : Parse(e) # Parse(d)
      BY AttemptIds
    <3>2. /\ Raised(h, D \ {d}, c) \in [Attempts -> Nat]
          /\ Raised(h, D \ {d}, c)[Parse(d)] = h[Parse(d)]
      BY <3>1 DEF Raised
    <3>3. Raised(h, D, c) = up
      BY <3>1 DEF Raised
    <3>4. Cardinality(D \ {d}) = Cardinality(D) - 1 /\ Cardinality(D) \in Nat
      BY <1>0, FS_Subset, FS_RemoveElement, FS_CardinalityType
    <3>5. SumOver(Raised(h, D \ {d}, c)) = SumOver(h) + (Cardinality(D) - 1) * c
      BY <1>1, <2>2, <3>4
    <3>6. h[Parse(d)] \in Nat /\ h[Parse(d)] + c \in Nat
      BY <3>1
    <3>7. SumOver(up)
            = SumOver(Raised(h, D \ {d}, c)) - Raised(h, D \ {d}, c)[Parse(d)]
                + (h[Parse(d)] + c)
      BY <3>1, <3>2, <3>6, SumReplaces
    <3>8. (Cardinality(D) - 1) * c + c = Cardinality(D) * c /\ (Cardinality(D) - 1) * c \in Int
      <4>1. \A n \in Nat : (n - 1) * c + c = n * c /\ (n - 1) * c \in Int
        OBVIOUS
      <4> QED BY <3>4, <4>1
    <3> HIDE DEF G, up
    <3>9. SumOver(Raised(h, D, c)) = SumOver(h) + Cardinality(D) * c
      <4>1. SumOver(Raised(h, D \ {d}, c)) \in Nat
        BY <3>2, SumType
      <4>2. SumOver(Raised(h, D, c)) = SumOver(Raised(h, D \ {d}, c)) + c
        BY <3>2, <3>3, <3>6, <3>7, <4>1
      <4> QED BY <1>0, <3>5, <3>8, <4>2
    <3> QED BY <3>9 DEF G
  <2> QED BY <2>1, <2>2
<1> HIDE DEF G
<1>2. SUBSET Docs \subseteq G
  BY <1>0, <1>1, SetInduction
<1> QED BY <1>2 DEF G

LEMMA WindowSize ==
  ASSUME NEW first \in Nat, NEW c \in Nat,
         NEW W, W = {d \in Docs : first <= d /\ d < first + Batch}
  PROVE  /\ W \in SUBSET Docs /\ Cardinality(W) \in Nat /\ Cardinality(W) * c \in Nat
         /\ Cardinality(W) * c <= Batch * c
<1> DEFINE last == first + Batch - 1
<1>1. Batch \in Nat \ {0} /\ last \in Int /\ first \in Int /\ first <= last
  BY LedgerAssumption
<1>2. IsFiniteSet(first..last) /\ Cardinality(first..last) = Batch
  <2>1. Cardinality(first..last) = IF first > last THEN 0 ELSE last - first + 1
    BY <1>1, FS_Interval
  <2> QED BY <1>1, <2>1, FS_Interval
<1>3. W \subseteq first..last
  BY <1>1, LedgerAssumption DEF Docs
<1>4. Cardinality(W) \in Nat /\ Cardinality(W) <= Batch
  BY <1>2, <1>3, FS_Subset, FS_CardinalityType
<1>5. /\ Cardinality(W) * c + (Batch - Cardinality(W)) * c = Batch * c
      /\ (Batch - Cardinality(W)) * c \in Nat
  BY <1>1, <1>4, ShareOfReserves
<1>6. Cardinality(W) * c \in Nat /\ Batch * c \in Nat
  BY <1>1, <1>4
<1> QED BY <1>4, <1>5, <1>6

LEMMA TrimmedType ==
  ASSUME NEW events \in [Attempts -> Events], NEW W
  PROVE  /\ Trimmed(events, W) \in [Attempts -> Nat]
         /\ SumOver(Trimmed(events, W)) \in Nat
         /\ SumOver(Trimmed(events, W)) <= Total(events)
<1>1. Trimmed(events, W) \in [Attempts -> Nat]
  BY LedgerAssumption DEF Trimmed, Events
<1>2. /\ Amounts(events) \in [Attempts -> Nat]
      /\ \A a \in Attempts : Trimmed(events, W)[a] <= Amounts(events)[a]
  BY LedgerAssumption DEF Trimmed, Amounts, Events
<1> QED BY <1>1, <1>2, SumType, SumGrows, TotalIsSum

\* What is charged beyond the trimmed row is one batch of overcharged calls.
LEMMA SpentInWindow ==
  ASSUME IsFiniteSet(ParseCharges), NEW f \in [Attempts -> Nat],
         NEW events \in [Attempts -> Events], NEW first \in Nat,
         NEW W, W = {d \in Docs : first <= d /\ d < first + Batch},
         \A k \in Batches : f[Model(k)] = 0,
         \A d \in Docs :
           /\ f[Parse(d)] <= ParseReserve + Over
           /\ d \notin W => f[Parse(d)] <= events[Parse(d)].amount
           /\ f[Parse(d)] > events[Parse(d)].amount => ParseReserve <= events[Parse(d)].amount,
         SumOver(Trimmed(events, W)) <= Reserved
  PROVE  SumOver(f) <= Limit
<1> DEFINE h == Trimmed(events, W)
           raised == Raised(h, W, Over)
<1>1. /\ Over \in Nat /\ Batch * Over \in Nat /\ Limit \in Nat /\ Reserved \in Nat
      /\ Reserved + Batch * Over <= Limit /\ ParseReserve \in Nat
  BY LimitIsAbove
<1>2. h \in [Attempts -> Nat] /\ SumOver(h) \in Nat
  BY TrimmedType
<1>3. \A a \in Attempts : /\ events[a].amount \in Nat /\ f[a] \in Nat
                          /\ h[a] = IF (\E d \in W : a = Parse(d)) /\ events[a].amount > ParseReserve
                                    THEN ParseReserve ELSE events[a].amount
  BY DEF Trimmed, Events
<1> HIDE DEF h
<1>4. /\ raised \in [Attempts -> Nat]
      /\ \A a \in Attempts : raised[a] = IF \E d \in W : a = Parse(d) THEN h[a] + Over ELSE h[a]
  BY <1>1, <1>2 DEF Raised
<1> HIDE DEF raised
<1>5. \A a \in Attempts : f[a] <= raised[a]
  <2> SUFFICES ASSUME NEW a \in Attempts PROVE f[a] <= raised[a]
    OBVIOUS
  <2>1. CASE \E d \in Docs : a = Parse(d)
    <3>1. PICK d \in Docs : a = Parse(d)
      BY <2>1
    <3>2. W \subseteq Docs /\ ((\E e \in W : a = Parse(e)) <=> d \in W)
      BY <3>1, AttemptIds
    <3>3. CASE d \in W
      BY <1>1, <1>2, <1>3, <1>4, <3>1, <3>2, <3>3
    <3>4. CASE d \notin W
      BY <1>1, <1>2, <1>3, <1>4, <3>1, <3>2, <3>4
    <3> QED BY <3>3, <3>4
  <2>2. CASE \E k \in Batches : a = Model(k)
    BY <1>3, <1>4, <2>2
  <2> QED BY <2>1, <2>2, AttemptIds
<1>6. /\ W \in SUBSET Docs /\ Cardinality(W) * Over \in Nat
      /\ Cardinality(W) * Over <= Batch * Over
  BY <1>1, WindowSize
<1>7. SumOver(raised) = SumOver(h) + Cardinality(W) * Over
  BY <1>1, <1>2, <1>6, SumRaised DEF raised
<1>8. SumOver(h) <= Reserved
  BY DEF h
<1>9. SumOver(f) <= SumOver(raised)
  BY <1>4, <1>5, SumGrows
<1>10. SumOver(f) \in Nat
  BY SumType
<1> QED BY <1>1, <1>2, <1>6, <1>7, <1>8, <1>9, <1>10

-----------------------------------------------------------------------------
(* The exposure: the parser calls                                            *)

LEMMA InitExposure == ASSUME IsFiniteSet(ParseCharges), Init PROVE XInv
<1>1. /\ charged = [a \in Attempts |-> 0] /\ wk.at = "plan"
  BY DEF Init
<1>2. SumOver(charged) = 0
  <2>1. charged = Calls({})
    BY <1>1 DEF Calls
  <2>2. SumOver(Calls({})) = Cardinality({}) * ParseReserve
    BY CallsSum
  <2> QED BY <2>1, <2>2, FS_EmptySet, LedgerAssumption
<1>3. SpentInv
  BY <1>2, SpentIsSum, LimitIsAbove DEF SpentInv
<1>4. WindowInv /\ ChargeInv
  BY <1>1, AttemptIds DEF Init, WindowInv, ChargeInv, Steps
<1> QED BY <1>3, <1>4 DEF XInv

LEMMA SpendsNothing == ASSUME SpentInv, charged' = charged PROVE SpentInv'
BY SpentKept DEF SpentInv

\* A step that charges nothing and after which no call is made any more.
LEMMA EndExposure ==
  ASSUME XInv, charged' = charged, wk'.at \in AfterBatches
  PROVE  XInv'
<1>1. SpentInv'
  BY SpendsNothing DEF XInv
<1>2. WindowInv' /\ ChargeInv'
  BY DEF WindowInv, ChargeInv, Steps, AfterBatches
<1> QED BY <1>1, <1>2 DEF XInv

\* A step of others.
LEMMA SameExposure ==
  ASSUME XInv, wk' = wk, charged' = charged, row'.events = row.events
  PROVE  XInv'
<1>1. SpentInv'
  BY SpendsNothing DEF XInv
<1>2. Window' = Window /\ Trimmed(row.events, Window)' = Trimmed(row.events, Window)
  BY DEF Window, Trimmed
<1>3. WindowInv'
  BY <1>2 DEF XInv, WindowInv, CallInv, Steps
<1>4. ChargeInv'
  BY DEF XInv, ChargeInv, Steps
<1> QED BY <1>1, <1>3, <1>4 DEF XInv

LEMMA PlanExposure == ASSUME IsFiniteSet(ParseCharges), RInv, XInv, Plan PROVE XInv'
<1> USE AttemptIds
<1>1. /\ wk.at = "plan" /\ row' = row /\ charged' = charged /\ wk.first = 1
      /\ \A a \in Attempts : charged[a] = 0
  BY DEF Plan, XInv, ChargeInv, WindowInv, Steps
<1>2. CASE wk' = Goto("recover")
  <2>1. wk'.at \in AfterBatches
    BY <1>2, WorkerGoes DEF RInv, Shape, AfterBatches
  <2> QED BY <1>1, <2>1, EndExposure
<1>3. CASE wk' = [wk EXCEPT !.at = "parse",
                     !.doc = [d \in Docs |-> IF d <= Batch THEN "ready" ELSE "waiting"]]
  <2>1. /\ wk'.at = "parse" /\ wk'.first = 1
        /\ \A d \in Docs : wk'.doc[d] = IF d <= Batch THEN "ready" ELSE "waiting"
    BY <1>1, <1>3 DEF RInv, Shape, WorkerShape
  <2>2. /\ Batch \in Nat /\ ParseReserve \in Nat /\ Over \in Nat
        /\ \A d \in Docs : d \in Nat /\ d >= 1
    BY LimitIsAbove, LedgerAssumption DEF Docs
  <2>3. \A d \in Docs : d \in Window' <=> d <= Batch
    BY <2>1, <2>2 DEF Window
  <2>4. \A d \in Docs : charged'[Parse(d)] = 0 /\ row'.events[Parse(d)].amount \in Nat
    BY <1>1 DEF RInv, Shape, RowShape, Events
  <2>5. ASSUME NEW d \in Docs PROVE CallInv(d)'
    BY <2>1, <2>2, <2>3, <2>4 DEF CallInv
  <2>6. \A d \in Window' : wk'.doc[d] \in {"ready", "failed"}
    BY <2>1, <2>3 DEF Window
  <2>7. WindowInv'
    BY <2>1, <2>5, <2>6 DEF WindowInv, Steps
  <2>8. ChargeInv' /\ SpentInv'
    BY <1>1, <2>1, SpendsNothing DEF XInv, ChargeInv, Steps
  <2> QED BY <2>7, <2>8 DEF XInv
<1> QED BY <1>2, <1>3 DEF Plan

\* A step of a document that charges nothing.
LEMMA DocumentExposure ==
  ASSUME RInv, XInv, wk.at = "parse", wk'.at = "parse", wk'.first = wk.first,
         charged' = charged, NEW d \in Docs, CallInv(d)',
         \A e \in Docs : e # d => /\ wk'.doc[e] = wk.doc[e]
                                  /\ wk'.mem[Parse(e)] = wk.mem[Parse(e)]
                                  /\ row'.events[Parse(e)] = row.events[Parse(e)],
         \/ row'.events = row.events /\ wk'.doc[d] = "failed"
         \/ SumOver(Trimmed(row'.events, Window)) <= Reserved
  PROVE  XInv'
<1>1. /\ wk.first \in Nat /\ (\A e \in Docs : CallInv(e))
      /\ \/ SumOver(Trimmed(row.events, Window)) <= Reserved
         \/ \A e \in Window : wk.doc[e] \in {"ready", "failed"}
  BY DEF XInv, WindowInv, Steps
<1>2. Window' = Window
  BY DEF Window
<1>3. ASSUME NEW e \in Docs PROVE CallInv(e)'
  <2>1. CASE e = d
    BY <2>1
  <2>2. CASE e # d
    BY <1>1, <1>2, <2>2 DEF CallInv
  <2> QED BY <2>1, <2>2
<1>4. \/ SumOver(Trimmed(row.events, Window))' <= Reserved
      \/ \A e \in Window : wk'.doc[e] \in {"ready", "failed"}
  <2>1. SumOver(Trimmed(row.events, Window))' = SumOver(Trimmed(row'.events, Window))
    BY <1>2
  <2>2. \A e \in Window : wk.doc[e] \in {"ready", "failed"} /\ wk'.doc[d] = "failed"
                            => wk'.doc[e] \in {"ready", "failed"}
    BY DEF Window
  <2> QED BY <1>1, <2>1, <2>2
<1>5. WindowInv'
  BY <1>1, <1>2, <1>3, <1>4 DEF WindowInv, Steps
<1>6. ChargeInv' /\ SpentInv'
  BY SpendsNothing DEF XInv, ChargeInv, Steps
<1> QED BY <1>5, <1>6 DEF XInv

LEMMA NotStartedExposure ==
  ASSUME RInv, XInv, NEW d \in Docs, NotStarted(d) \/ CleanupFails(d) PROVE XInv'
<1>1. /\ wk' = Step(d, "failed") /\ row' = row /\ charged' = charged /\ wk.at = "parse"
      /\ wk.doc[d] \in {"ready", "parsed"}
  BY DEF NotStarted, CleanupFails
<1>2. /\ wk'.at = "parse" /\ wk'.first = wk.first /\ wk'.mem = wk.mem
      /\ wk'.doc[d] = "failed" /\ \A e \in Docs : e # d => wk'.doc[e] = wk.doc[e]
  BY <1>1 DEF RInv, Shape, WorkerShape, Step
<1>3. CallInv(d) /\ Window' = Window /\ wk.first \in Nat
  BY <1>1, <1>2 DEF XInv, WindowInv, Steps, Window
<1>4. CallInv(d)'
  <2>1. ~(d >= wk.first + Batch)
    BY <1>1, <1>3 DEF CallInv
  <2> QED BY <1>1, <1>2, <1>3, <2>1 DEF CallInv
<1> QED BY <1>1, <1>2, <1>4, DocumentExposure

\* What the ledger admits is within the reservation, whatever the calls have cost.
LEMMA AdmittedIsReserved ==
  ASSUME RowShape, NEW a \in Attempts, NEW e \in Events, NEW rest \in Nat,
         row' = WithEvent(a, e), charged' = charged, Fits(WithEvent(a, e).cost, rest)
  PROVE  Total(row'.events) <= Reserved
<1>1. RowShape' /\ row'.events = [row.events EXCEPT ![a] = e] /\ row'.cost \in Nat
  BY EventWritten
<1>2. row'.cost = Total(row'.events)
  BY <1>1 DEF RowShape, WithEvent
<1>3. row'.cost + rest <= Reserved /\ Reserved \in Nat
  BY LedgerAssumption DEF Fits
<1> QED BY <1>1, <1>2, <1>3

LEMMA MarkStartedExposure == ASSUME RInv, XInv, NEW d \in Docs, MarkStarted(d) PROVE XInv'
<1> DEFINE pending == Event("pending", ParseReserve)
           new == WithEvent(Parse(d), pending)
           begun == StartedDocs \cup {d}
           remaining == (N - Cardinality(begun)) * ParseReserve + ModelReserve
<1> USE AttemptIds
<1>0. /\ RowShape /\ WorkerShape /\ pending \in Events /\ pending.amount = ParseReserve
      /\ ParseReserve \in Nat
  BY LedgerAssumption DEF RInv, Shape, Event, Events, EventStates
<1>1. remaining \in Nat
  <2>1. begun \subseteq Docs
    BY DEF StartedDocs
  <2>2. Cardinality(begun) \in Nat /\ Cardinality(begun) <= N
    BY <2>1, AttemptsAreFinite, FS_Subset, FS_CardinalityType
  <2>3. (N - Cardinality(begun)) * ParseReserve \in Nat
    BY <2>2, ShareOfReserves, LedgerAssumption
  <2> QED BY <2>3, LedgerAssumption
<1>2. /\ wk.at = "parse" /\ wk.doc[d] = "ready" /\ charged' = charged
      /\ \/ row' = row /\ wk' = Step(d, "failed")
         \/ /\ row' = new /\ Fits(new.cost, remaining)
            /\ wk' = Step(d, "failed") \/ wk' = Remember(d, "dispatch", pending)
  BY DEF MarkStarted, MarkPending, Guarded
<1>3. CallInv(d) /\ wk.first \in Nat
  BY <1>2 DEF XInv, WindowInv, Steps
<1>4. /\ wk'.at = "parse" /\ wk'.first = wk.first /\ wk'.doc[d] \in {"failed", "dispatch"}
      /\ \A e \in Docs : e # d => /\ wk'.doc[e] = wk.doc[e]
                                  /\ wk'.mem[Parse(e)] = wk.mem[Parse(e)]
      /\ wk' = Step(d, "failed") => wk'.doc[d] = "failed"
  <2>1. Parse(d) \in Attempts /\ \A e \in Docs : e # d => Parse(e) # Parse(d)
    OBVIOUS
  <2>2. CASE wk' = Step(d, "failed")
    <3>1. /\ wk'.doc = [wk.doc EXCEPT ![d] = "failed"] /\ wk'.mem = wk.mem /\ wk'.at = wk.at
          /\ wk'.first = wk.first
      BY <1>0, <2>2 DEF WorkerShape, Step
    <3> QED BY <1>0, <1>2, <3>1 DEF WorkerShape
  <2>3. CASE wk' = Remember(d, "dispatch", pending) /\ wk' # Step(d, "failed")
    <3>1. /\ wk'.doc = [wk.doc EXCEPT ![d] = "dispatch"] /\ wk'.at = wk.at
          /\ wk'.first = wk.first /\ wk'.mem = [wk.mem EXCEPT ![Parse(d)] = pending]
      BY <1>0, <2>3 DEF WorkerShape, Remember
    <3> QED BY <1>0, <1>2, <2>1, <2>3, <3>1 DEF WorkerShape
  <2> QED BY <1>2, <2>2, <2>3
<1>5. d \in Window /\ charged[Parse(d)] = 0 /\ Window' = Window
  BY <1>2, <1>3, <1>4 DEF CallInv, Window
<1> HIDE DEF pending, remaining
<1>6. CASE row' = row /\ wk' = Step(d, "failed")
  <2>1. CallInv(d)'
    BY <1>2, <1>3, <1>4, <1>5, <1>6 DEF CallInv, Window
  <2> QED BY <1>2, <1>4, <1>6, <2>1, DocumentExposure
<1>7. CASE row' = new /\ Fits(new.cost, remaining)
  <2>1. /\ RowShape' /\ row'.events = [row.events EXCEPT ![Parse(d)] = pending]
        /\ row'.events \in [Attempts -> Events]
    BY <1>0, <1>2, <1>7, EventWritten DEF RowShape
  <2>2. Total(row'.events) <= Reserved
    BY <1>0, <1>1, <1>2, <1>7, AdmittedIsReserved
  <2>3. SumOver(Trimmed(row'.events, Window)) <= Reserved
    <3>1. /\ SumOver(Trimmed(row'.events, Window)) <= Total(row'.events)
          /\ SumOver(Trimmed(row'.events, Window)) \in Nat
      BY <2>1, TrimmedType
    <3>2. Total(row'.events) \in Nat /\ Reserved \in Nat
      BY <2>1, TotalIsSum, LedgerAssumption
    <3> QED BY <2>2, <3>1, <3>2
  <2>4. /\ row'.events[Parse(d)].amount = ParseReserve
        /\ \A e \in Docs : e # d => row'.events[Parse(e)] = row.events[Parse(e)]
    BY <1>0, <2>1 DEF RowShape
  <2>5. charged'[Parse(d)] = 0 /\ 0 <= ParseReserve
    BY <1>0, <1>2, <1>5
  <2>6. CallInv(d)'
    BY <1>0, <1>2, <1>3, <1>4, <1>5, <2>4, <2>5 DEF CallInv, Window
  <2> QED BY <1>2, <1>4, <2>3, <2>4, <2>6, DocumentExposure
<1> QED BY <1>2, <1>6, <1>7

LEMMA DispatchExposure ==
  ASSUME IsFiniteSet(ParseCharges), RInv, XInv, NEW d \in Docs, Dispatch(d) PROVE XInv'
<1> USE AttemptIds
<1>0. /\ RowShape /\ WorkerShape /\ Over \in Nat /\ ParseReserve \in Nat
      /\ Limit \in Nat /\ \A c \in ParseCharges : c \in Nat /\ c <= ParseReserve + Over
  BY LimitIsAbove, OverIsMost, LedgerAssumption DEF RInv, Shape
<1>1. PICK c \in ParseCharges :
        /\ charged' = [charged EXCEPT ![Parse(d)] = c]
        /\ \/ \E state \in {"succeeded", "failed"}, amount \in {c, ParseReserve} :
                /\ amount = c \/ c <= ParseReserve
                /\ wk' = Remember(d, "capture", Event(state, amount))
           \/ wk' = Step(d, "failed")
  BY DEF Dispatch
<1>2. row' = row /\ wk.at = "parse" /\ wk.doc[d] = "dispatch"
  BY DEF Dispatch
<1>3. /\ wk'.at = "parse" /\ wk'.first = wk.first
      /\ \A e \in Docs : e # d => /\ wk'.doc[e] = wk.doc[e]
                                  /\ wk'.mem[Parse(e)] = wk.mem[Parse(e)]
      /\ \/ wk'.doc[d] = "failed"
         \/ wk'.doc[d] = "capture" /\ c <= wk'.mem[Parse(d)].amount
  <2>1. Parse(d) \in Attempts /\ \A e \in Docs : e # d => Parse(e) # Parse(d)
    OBVIOUS
  <2>2. CASE wk' = Step(d, "failed")
    <3>1. /\ wk'.doc = [wk.doc EXCEPT ![d] = "failed"] /\ wk'.mem = wk.mem /\ wk'.at = wk.at
          /\ wk'.first = wk.first
      BY <1>0, <2>2 DEF WorkerShape, Step
    <3> QED BY <1>0, <1>2, <3>1 DEF WorkerShape
  <2>3. ASSUME NEW state, NEW amount \in {c, ParseReserve}, amount = c \/ c <= ParseReserve,
               wk' = Remember(d, "capture", Event(state, amount))
        PROVE  /\ wk'.at = "parse" /\ wk'.first = wk.first
               /\ \A e \in Docs : e # d => /\ wk'.doc[e] = wk.doc[e]
                                           /\ wk'.mem[Parse(e)] = wk.mem[Parse(e)]
               /\ wk'.doc[d] = "capture" /\ c <= wk'.mem[Parse(d)].amount
    <3> DEFINE ev == Event(state, amount)
    <3>1. ev.amount = amount /\ c <= amount
      BY <1>0, <2>3 DEF Event
    <3> HIDE DEF ev
    <3>2. /\ wk'.doc = [wk.doc EXCEPT ![d] = "capture"] /\ wk'.at = wk.at
          /\ wk'.first = wk.first /\ wk'.mem = [wk.mem EXCEPT ![Parse(d)] = ev]
      BY <1>0, <2>3 DEF WorkerShape, Remember, ev
    <3> QED BY <1>0, <1>2, <2>1, <3>1, <3>2 DEF WorkerShape
  <2> QED BY <1>1, <2>2, <2>3
<1>4. /\ charged' \in [Attempts -> Nat] /\ charged'[Parse(d)] = c
      /\ \A a \in Attempts : a # Parse(d) => charged'[a] = charged[a]
  BY <1>0, <1>1 DEF RowShape
<1>5. /\ wk.first \in Nat /\ (\A e \in Docs : CallInv(e))
      /\ d \in Window /\ row.events[Parse(d)].amount = ParseReserve
      /\ SumOver(Trimmed(row.events, Window)) <= Reserved
      /\ \A k \in Batches : charged[Model(k)] = 0
  <2>1. /\ wk.first \in Nat /\ (\A e \in Docs : CallInv(e))
        /\ \A k \in Batches : charged[Model(k)] = 0
    BY <1>2 DEF XInv, WindowInv, ChargeInv, Steps
  <2>2. d \in Window /\ row.events[Parse(d)].amount = ParseReserve
    BY <1>2, <2>1 DEF CallInv
  <2> QED BY <1>2, <2>1, <2>2 DEF XInv, WindowInv, Steps
<1>6. Window' = Window
  BY <1>3 DEF Window
<1>7. \A e \in Docs : CallInv(e)'
  <2> SUFFICES ASSUME NEW e \in Docs PROVE CallInv(e)'
    OBVIOUS
  <2>1. CASE e = d
    BY <1>0, <1>2, <1>3, <1>4, <1>5, <1>6, <2>1 DEF CallInv, Window
  <2>2. CASE e # d
    <3>1. charged'[Parse(e)] = charged[Parse(e)]
      BY <1>4, <2>2
    <3> QED BY <1>2, <1>3, <1>5, <1>6, <2>2, <3>1 DEF CallInv
  <2> QED BY <2>1, <2>2
<1>8. WindowInv'
  <2>1. SumOver(Trimmed(row.events, Window))' = SumOver(Trimmed(row.events, Window))
    BY <1>2, <1>6
  <2> QED BY <1>3, <1>5, <1>7, <2>1 DEF WindowInv, Steps
<1>9. ChargeInv'
  BY <1>3, <1>4, <1>5 DEF ChargeInv, Steps
<1>10. SpentInv'
  <2>1. Window = {e \in Docs : wk.first <= e /\ e < wk.first + Batch}
    BY DEF Window
  <2>2. \A k \in Batches : charged'[Model(k)] = 0
    BY <1>4, <1>5
  <2>3. ASSUME NEW e \in Docs
        PROVE  /\ charged'[Parse(e)] <= ParseReserve + Over
               /\ e \notin Window => charged'[Parse(e)] <= row.events[Parse(e)].amount
               /\ charged'[Parse(e)] > row.events[Parse(e)].amount
                    => ParseReserve <= row.events[Parse(e)].amount
    BY <1>2, <1>6, <1>7 DEF CallInv
  <2>4. row.events \in [Attempts -> Events]
    BY <1>0 DEF RowShape
  <2> DEFINE W == Window
  <2> HIDE DEF W
  <2>5. SumOver(charged') <= Limit
    BY <1>4, <1>5, <2>1, <2>2, <2>3, <2>4, SpentInWindow
  <2>6. Spent' = SumOver(charged')
    BY DEF Spent, SumOver, MapThenSumSet, MapThenFoldSet
  <2> QED BY <2>5, <2>6 DEF SpentInv
<1> QED BY <1>8, <1>9, <1>10 DEF XInv

LEMMA CaptureExposure == ASSUME RInv, XInv, NEW d \in Docs, Capture(d) PROVE XInv'
<1> DEFINE event == wk.mem[Parse(d)]
           new == WithEvent(Parse(d), event)
<1> USE AttemptIds
<1>0. RowShape /\ WorkerShape /\ event \in Events /\ ParseReserve \in Nat
  BY LedgerAssumption DEF RInv, Shape, WorkerShape
<1>1. /\ wk.at = "parse" /\ wk.doc[d] = "capture" /\ charged' = charged
      /\ \/ row' = new /\ wk' = Step(d, "parsed")
         \/ /\ row' = new \/ row' = row
            /\ \/ wk' = Step(d, "failed")
               \/ wk' = Remember(d, "failed", Event("pending", ParseReserve))
  BY DEF Capture, Guarded
<1>2. /\ wk'.at = "parse" /\ wk'.first = wk.first
      /\ wk'.doc[d] = "failed" \/ (wk'.doc[d] = "parsed" /\ row' = new)
      /\ \A e \in Docs : e # d => /\ wk'.doc[e] = wk.doc[e]
                                  /\ wk'.mem[Parse(e)] = wk.mem[Parse(e)]
  <2>1. Parse(d) \in Attempts /\ \A e \in Docs : e # d => Parse(e) # Parse(d)
    OBVIOUS
  <2>2. ASSUME NEW step \in {"parsed", "failed"}, wk' = Step(d, step)
        PROVE  /\ wk'.at = "parse" /\ wk'.first = wk.first /\ wk'.doc[d] = step
               /\ \A e \in Docs : e # d => /\ wk'.doc[e] = wk.doc[e]
                                           /\ wk'.mem[Parse(e)] = wk.mem[Parse(e)]
    <3>1. /\ wk'.doc = [wk.doc EXCEPT ![d] = step] /\ wk'.mem = wk.mem /\ wk'.at = wk.at
          /\ wk'.first = wk.first
      BY <1>0, <2>2 DEF WorkerShape, Step
    <3> QED BY <1>0, <1>1, <3>1 DEF WorkerShape
  <2>3. ASSUME NEW ev, wk' = Remember(d, "failed", ev)
        PROVE  /\ wk'.at = "parse" /\ wk'.first = wk.first /\ wk'.doc[d] = "failed"
               /\ \A e \in Docs : e # d => /\ wk'.doc[e] = wk.doc[e]
                                           /\ wk'.mem[Parse(e)] = wk.mem[Parse(e)]
    <3>1. /\ wk'.doc = [wk.doc EXCEPT ![d] = "failed"] /\ wk'.at = wk.at
          /\ wk'.first = wk.first /\ wk'.mem = [wk.mem EXCEPT ![Parse(d)] = ev]
      BY <1>0, <2>3 DEF WorkerShape, Remember
    <3> QED BY <1>0, <1>1, <2>1, <3>1 DEF WorkerShape
  <2> HIDE DEF new
  <2> QED BY <1>1, <2>2, <2>3
<1>3. /\ CallInv(d) /\ wk.first \in Nat /\ d \in Window /\ Window' = Window
      /\ row.events[Parse(d)].amount = ParseReserve
      /\ charged[Parse(d)] <= event.amount
      /\ SumOver(Trimmed(row.events, Window)) <= Reserved
  <2>1. CallInv(d) /\ wk.first \in Nat
    BY <1>1 DEF XInv, WindowInv, Steps
  <2>2. d \in Window /\ Window' = Window
    BY <1>1, <1>2, <2>1 DEF CallInv, Window
  <2> QED BY <1>1, <2>1, <2>2 DEF XInv, WindowInv, Steps, CallInv
<1> HIDE DEF event, new
<1>4. CASE row' = row
  <2>1. CASE wk'.doc[d] = "failed"
    <3>1. CallInv(d)'
      BY <1>0, <1>1, <1>2, <1>3, <1>4, <2>1 DEF CallInv, Window
    <3> QED BY <1>1, <1>2, <1>4, <2>1, <3>1, DocumentExposure
  <2>2. CASE row' = new
    <3>1. row.events[Parse(d)] = event
      <4>1. row.events = [row.events EXCEPT ![Parse(d)] = event]
        BY <1>0, <1>1, <1>4, <2>2, EventWritten DEF new
      <4> QED BY <1>0, <4>1 DEF RowShape
    <3>2. CallInv(d)'
      BY <1>0, <1>1, <1>2, <1>3, <1>4, <3>1 DEF CallInv, Window
    <3> QED BY <1>1, <1>2, <1>3, <1>4, <3>2, DocumentExposure
  <2> QED BY <1>2, <2>1, <2>2
<1>5. CASE row' = new
  <2>1. RowShape' /\ row'.events = [row.events EXCEPT ![Parse(d)] = event]
    BY <1>0, <1>1, <1>5, EventWritten DEF new
  <2>2. /\ row'.events[Parse(d)] = event /\ row'.events \in [Attempts -> Events]
        /\ \A a \in Attempts : a # Parse(d) => row'.events[a] = row.events[a]
    BY <1>0, <2>1 DEF RowShape
  <2>3. SumOver(Trimmed(row'.events, Window)) <= Reserved
    <3>1. /\ Trimmed(row.events, Window) \in [Attempts -> Nat]
          /\ SumOver(Trimmed(row.events, Window)) \in Nat
          /\ Trimmed(row'.events, Window) \in [Attempts -> Nat]
          /\ SumOver(Trimmed(row'.events, Window)) \in Nat
      BY <1>0, <2>2, TrimmedType DEF RowShape
    <3>2. \A a \in Attempts : Trimmed(row'.events, Window)[a] <= Trimmed(row.events, Window)[a]
      <4> SUFFICES ASSUME NEW a \in Attempts
                   PROVE  Trimmed(row'.events, Window)[a] <= Trimmed(row.events, Window)[a]
        OBVIOUS
      <4>1. CASE a # Parse(d)
        <5>1. Trimmed(row'.events, Window)[a] = Trimmed(row.events, Window)[a]
          BY <2>2, <4>1 DEF Trimmed
        <5> QED BY <3>1, <5>1
      <4>2. CASE a = Parse(d)
        <5>1. Trimmed(row.events, Window)[a] = ParseReserve
          BY <1>0, <1>3, <4>2 DEF Trimmed
        <5>2. \E e \in Window : a = Parse(e)
          BY <1>3, <4>2
        <5>3. event.amount \in Nat
          BY <1>0 DEF Events
        <5>4. Trimmed(row'.events, Window)[a] = IF event.amount > ParseReserve THEN ParseReserve
                                                ELSE event.amount
          BY <2>2, <4>2, <5>2 DEF Trimmed
        <5> QED BY <1>0, <5>1, <5>3, <5>4
      <4> QED BY <4>1, <4>2
    <3>3. SumOver(Trimmed(row'.events, Window)) <= SumOver(Trimmed(row.events, Window))
      BY <3>1, <3>2, SumGrows
    <3> QED BY <1>3, <3>1, <3>3, LedgerAssumption
  <2>4. event.amount \in Nat /\ charged[Parse(d)] \in Nat
    BY <1>0 DEF Events, RowShape
  <2>5. CallInv(d)'
    BY <1>0, <1>1, <1>2, <1>3, <2>2, <2>4 DEF CallInv, Window
  <2>6. \A e \in Docs : e # d => row'.events[Parse(e)] = row.events[Parse(e)]
    BY <2>2
  <2> QED BY <1>1, <1>2, <2>3, <2>5, <2>6, DocumentExposure
<1> QED BY <1>1, <1>4, <1>5

\* When a batch of calls has ended without a failure, the row covers all of them.
LEMMA BatchEndsExposure == ASSUME RInv, XInv, BatchEnds PROVE XInv'
<1> DEFINE next == wk.first + Batch
           later == [wk EXCEPT !.first = next,
                       !.doc = [d \in Docs |-> IF d >= next /\ d < next + Batch
                                               THEN "ready" ELSE wk.doc[d]]]
<1> USE AttemptIds
<1>0. RowShape /\ WorkerShape /\ Batch \in Nat \ {0} /\ \A d \in Docs : d \in Nat
  BY LedgerAssumption DEF RInv, Shape, Docs
<1>1. /\ wk.at = "parse" /\ row' = row /\ charged' = charged
      /\ \A d \in Docs : wk.doc[d] \in {"waiting", "parsed", "failed"}
      /\ \/ wk' = Goto("merge")
         \/ wk' = later /\ \A d \in Docs : wk.doc[d] # "failed"
  BY DEF BatchEnds
<1>2. /\ wk.first \in Nat /\ (\A e \in Docs : CallInv(e))
      /\ \A k \in Batches : charged[Model(k)] = 0
  BY <1>1 DEF XInv, WindowInv, ChargeInv, Steps
<1>3. SpentInv'
  BY <1>1, SpendsNothing DEF XInv
<1>4. CASE wk' = Goto("merge")
  <2>1. wk'.at = "merge"
    BY <1>0, <1>4, WorkerGoes
  <2>2. WindowInv' /\ ChargeInv'
    BY <1>1, <1>2, <2>1 DEF WindowInv, ChargeInv, Steps
  <2> QED BY <1>3, <2>2 DEF XInv
<1>5. CASE wk' = later /\ \A d \in Docs : wk.doc[d] # "failed"
  <2>1. /\ wk'.at = "parse" /\ wk'.first = next /\ wk'.mem = wk.mem /\ next \in Nat
        /\ \A d \in Docs : wk'.doc[d] = IF d >= next /\ d < next + Batch
                                        THEN "ready" ELSE wk.doc[d]
    BY <1>0, <1>1, <1>2, <1>5 DEF WorkerShape
  <2> HIDE DEF next, later
  <2>2. \A d \in Docs : d \in Window' <=> (d >= next /\ d < next + Batch)
    BY <1>0, <2>1 DEF Window
  <2>3. ASSUME NEW d \in Docs
        PROVE  charged[Parse(d)] <= row.events[Parse(d)].amount
    <3>1. CallInv(d) /\ wk.doc[d] \in {"waiting", "parsed"}
      BY <1>1, <1>2, <1>5
    <3> QED BY <3>1 DEF CallInv
  <2>4. ASSUME NEW d \in Docs PROVE CallInv(d)'
    <3>1. /\ CallInv(d) /\ wk.doc[d] \in {"waiting", "parsed"}
          /\ charged[Parse(d)] \in Nat /\ row.events[Parse(d)].amount \in Nat
      BY <1>0, <1>1, <1>2, <1>5 DEF RowShape, Events
    <3>2. d >= next => wk.doc[d] = "waiting"
      BY <3>1 DEF CallInv, next
    <3>3. CASE d >= next /\ d < next + Batch
      <4>1. wk'.doc[d] = "ready" /\ d \in Window' /\ charged[Parse(d)] = 0 /\ ~(d >= next + Batch)
        BY <1>0, <2>1, <2>2, <3>1, <3>2, <3>3 DEF CallInv
      <4> QED BY <1>1, <2>1, <2>3, <3>1, <4>1 DEF CallInv
    <3>4. CASE ~(d >= next /\ d < next + Batch)
      <4>1. wk'.doc[d] = wk.doc[d] /\ d \notin Window'
        BY <2>1, <2>2, <3>4
      <4>2. d >= next + Batch => d >= next
        BY <1>0, <2>1
      <4> QED BY <1>1, <2>1, <2>3, <3>1, <3>2, <4>1, <4>2 DEF CallInv
    <3> QED BY <3>3, <3>4
  <2>5. \A d \in Window' : wk'.doc[d] \in {"ready", "failed"}
    BY <2>1, <2>2 DEF Window
  <2>6. WindowInv'
    BY <2>1, <2>4, <2>5 DEF WindowInv, Steps
  <2>7. ChargeInv'
    BY <1>1, <1>2, <2>1 DEF ChargeInv, Steps
  <2> QED BY <1>3, <2>6, <2>7 DEF XInv
<1> QED BY <1>1, <1>4, <1>5

-----------------------------------------------------------------------------
(* The exposure: the model batches and the ends of a run                    *)

LEMMA MergeExposure == ASSUME RInv, XInv, Merge PROVE XInv'
<1> DEFINE merged == Merged(row.events)
           new == [row EXCEPT !.events = merged]
<1> USE AttemptIds
<1>0. RowShape /\ WorkerShape /\ merged \in [Attempts -> Events]
  BY DEF RInv, Shape, RowShape, WorkerShape, Merged
<1>1. /\ wk.at = "merge" /\ charged' = charged
      /\ \/ wk' = Goto("recover")
         \/ wk' = Goto("preflight") /\ row' = new /\ \A d \in Docs : wk.doc[d] = "parsed"
  BY DEF Merge, Guarded
<1>2. CASE wk' = Goto("recover")
  <2>1. wk'.at \in AfterBatches
    BY <1>0, <1>2, WorkerGoes DEF AfterBatches
  <2> QED BY <1>1, <2>1, EndExposure
<1>3. CASE wk' = Goto("preflight") /\ row' = new /\ \A d \in Docs : wk.doc[d] = "parsed"
  <2>1. wk'.at = "preflight" /\ row'.events = merged
    BY <1>0, <1>3, WorkerGoes DEF RowShape
  <2>2. ASSUME NEW d \in Docs
        PROVE  charged[Parse(d)] <= merged[Parse(d)].amount
    <3>1. /\ wk.mem[Parse(d)].state = "succeeded"
          /\ charged[Parse(d)] <= wk.mem[Parse(d)].amount
      BY <1>3 DEF RInv, ParsedInv
    <3>2. merged[Parse(d)] = wk.mem[Parse(d)]
      BY <3>1 DEF Merged, NoEvent
    <3> QED BY <3>1, <3>2
  <2>3. ChargeInv'
    BY <1>1, <2>1, <2>2 DEF XInv, ChargeInv, Steps
  <2>4. WindowInv' /\ SpentInv'
    BY <1>1, <2>1, SpendsNothing DEF XInv, WindowInv, Steps
  <2> QED BY <2>3, <2>4 DEF XInv
<1> QED BY <1>1, <1>2, <1>3

LEMMA PreflightExposure == ASSUME RInv, XInv, Preflight PROVE XInv'
<1>1. /\ wk.at = "preflight" /\ row' = row /\ charged' = charged
      /\ \E step \in {"markBatch", "recover"} : wk' = Goto(step)
  BY DEF Preflight
<1>2. wk'.at \in {"markBatch", "recover"}
  BY <1>1, WorkerGoes DEF RInv, Shape
<1>3. ChargeInv'
  BY <1>1, <1>2 DEF XInv, ChargeInv, Steps
<1>4. WindowInv' /\ SpentInv'
  BY <1>1, <1>2, SpendsNothing DEF XInv, WindowInv, Steps
<1> QED BY <1>3, <1>4 DEF XInv

LEMMA MarkBatchExposure == ASSUME RInv, XInv, MarkBatch PROVE XInv'
<1> DEFINE k == wk.k
           cap == OutputCap(k, wk.used)
           pending == Event("pending", MaxCost(k, wk.used))
           new == WithEvent(Model(k), pending)
           rest == MultiPrice(k + 1, LaterFloors[k])
           called == [wk EXCEPT !.at = "call", !.started = @ \cup {k}]
<1> USE AttemptIds
<1>0. RowShape /\ WorkerShape /\ k \in Batches /\ wk.used \in Int /\ Model(k) \in Attempts
  BY DEF RInv, Shape, WorkerShape
<1>1. /\ wk.at = "markBatch" /\ charged' = charged
      /\ \/ wk' = Goto("lost")
         \/ /\ ~(cap < OutputFloors[k]) /\ Fits(new.cost, rest)
            /\ row' = new /\ wk' = called
  BY DEF MarkBatch, MarkPending, Guarded
<1>2. CASE wk' = Goto("lost")
  <2>1. wk'.at \in AfterBatches
    BY <1>0, <1>2, WorkerGoes DEF AfterBatches
  <2> QED BY <1>1, <2>1, EndExposure
<1>3. CASE ~(cap < OutputFloors[k]) /\ Fits(new.cost, rest) /\ row' = new /\ wk' = called
  <2>1. cap \in Nat /\ InputTokens[k] \in Nat
    <3>1. cap \in Int /\ InputTokens[k] \in Nat
      BY <1>0, CapIsInteger
    <3>2. OutputFloors[k] \in Nat
      BY <1>0, LedgerAssumption DEF Batches
    <3> HIDE DEF cap
    <3> QED BY <1>3, <3>1, <3>2
  <2>2. pending \in Events /\ pending.amount = MaxCost(k, wk.used)
    <3>1. MaxCost(k, wk.used) \in Nat
      BY <2>1, PriceIsNatural DEF MaxCost
    <3> QED BY <3>1 DEF Event, Events, EventStates
  <2>3. rest \in Nat
    <3>1. k + 1 \in 1..(Last + 1) /\ LaterFloors[k] \in Nat
      <4>1. k \in 1..Last /\ Last \in Nat /\ LaterFloors[k] \in Nat
        BY <1>0, LedgerAssumption DEF Last, Batches
      <4> HIDE DEF k
      <4> QED BY <4>1
    <3> QED BY <3>1, MultiPriceType
  <2>4. wk'.at = "call" /\ wk'.k = k /\ wk'.used = wk.used
    BY <1>0, <1>3 DEF WorkerShape
  <2> HIDE DEF pending, rest
  <2>5. /\ row'.events[Model(k)].amount = MaxCost(k, wk.used)
        /\ \A a \in Attempts : a # Model(k) => row'.events[a] = row.events[a]
    <3>1. row'.events = [row.events EXCEPT ![Model(k)] = pending]
      BY <1>0, <1>1, <1>3, <2>2, EventWritten
    <3> QED BY <1>0, <2>2, <3>1 DEF RowShape
  <2>6. Total(row'.events) <= Reserved
    BY <1>0, <1>1, <1>3, <2>2, <2>3, AdmittedIsReserved
  <2>7. ChargeInv'
    <3>1. \A d \in Docs : row'.events[Parse(d)] = row.events[Parse(d)]
      BY <1>0, <2>5
    <3>2. Total(row.events)' <= Reserved
      BY <2>6
    <3>3. MaxCost(wk.k, wk.used)' = MaxCost(k, wk.used) /\ Model(wk.k)' = Model(k)
      BY <2>4
    <3>4. /\ \A d \in Docs : charged[Parse(d)] <= row.events[Parse(d)].amount
          /\ \A j \in Batches : j >= k => charged[Model(j)] = 0
      BY <1>1 DEF XInv, ChargeInv, Steps
    <3> QED BY <1>1, <2>4, <2>5, <3>1, <3>2, <3>3, <3>4 DEF ChargeInv, Steps
  <2>8. WindowInv' /\ SpentInv'
    BY <1>1, <2>4, SpendsNothing DEF XInv, WindowInv, Steps
  <2> QED BY <2>7, <2>8 DEF XInv
<1> QED BY <1>1, <1>2, <1>3

\* Tokens beyond the maximum cost what they cost on their own at most.
LEMMA PriceOfExcess ==
  ASSUME NEW in \in Nat, NEW cap \in Nat, NEW x \in Nat, NEW out \in Nat, out <= cap + x
  PROVE  Price(in, out) <= Price(in, cap) + Price(0, x)
BY DEF Price

LEMMA CallCharges ==
  ASSUME IsFiniteSet(ParseCharges), RInv, XInv, wk.at = "call", NEW c \in Nat,
         charged' = [charged EXCEPT ![Model(wk.k)] = c],
         c <= MaxCost(wk.k, wk.used) + Price(0, ExcessTokens)
  PROVE  SpentInv'
<1> DEFINE k == wk.k
           most == [Amounts(row.events) EXCEPT ![Model(k)] = c]
<1> USE AttemptIds
<1>0. /\ RowShape /\ k \in Batches /\ Model(k) \in Attempts
      /\ Limit \in Nat /\ Price(0, ExcessTokens) \in Nat /\ Reserved \in Nat
      /\ Reserved + Price(0, ExcessTokens) <= Limit
  BY LimitIsAbove DEF RInv, Shape, WorkerShape
<1>1. /\ \A d \in Docs : charged[Parse(d)] <= row.events[Parse(d)].amount
      /\ \A j \in Batches : j >= k => charged[Model(j)] = 0
      /\ row.events[Model(k)].amount = MaxCost(k, wk.used)
      /\ Total(row.events) <= Reserved
  BY DEF XInv, ChargeInv, Steps
<1>2. /\ Amounts(row.events) \in [Attempts -> Nat]
      /\ Total(row.events) = SumOver(Amounts(row.events)) /\ Total(row.events) \in Nat
      /\ \A a \in Attempts : Amounts(row.events)[a] = row.events[a].amount
  BY <1>0, TotalIsSum DEF RowShape, Amounts
<1>3. MaxCost(k, wk.used) \in Nat
  BY <1>0, <1>1, <1>2
<1>4. charged' \in [Attempts -> Nat] /\ most \in [Attempts -> Nat]
  BY <1>0, <1>2 DEF RowShape
<1>5. ASSUME NEW a \in Attempts PROVE charged'[a] <= most[a]
  <2>1. CASE a = Model(k)
    BY <1>0, <1>2, <2>1 DEF RowShape
  <2>2. CASE a # Model(k)
    <3>1. charged'[a] = charged[a] /\ most[a] = row.events[a].amount /\ most[a] \in Nat
      BY <1>0, <1>2, <1>4, <2>2 DEF RowShape
    <3>2. charged[a] <= row.events[a].amount
      <4>1. CASE \E d \in Docs : a = Parse(d)
        BY <1>1, <4>1
      <4>2. CASE \E j \in Batches : a = Model(j)
        <5>1. PICK j \in Batches : a = Model(j)
          BY <4>2
        <5>2. CASE j >= k
          BY <1>1, <3>1, <5>1, <5>2
        <5>3. CASE j < k
          BY <5>1, <5>3 DEF RInv, BatchesInv, BatchPaid, Steps
        <5> QED BY <1>0, <5>2, <5>3 DEF Batches
      <4> QED BY <4>1, <4>2
    <3> QED BY <3>1, <3>2
  <2> QED BY <2>1, <2>2
<1>6. SumOver(charged') <= SumOver(most) /\ SumOver(charged') \in Nat
  BY <1>4, <1>5, SumGrows, SumType
<1>7. SumOver(most) = Total(row.events) - MaxCost(k, wk.used) + c
  BY <1>0, <1>1, <1>2, SumReplaces
<1> HIDE DEF most
<1>8. SumOver(charged') <= Limit
  BY <1>0, <1>1, <1>2, <1>3, <1>6, <1>7
<1>9. Spent' = SumOver(charged')
  BY DEF Spent, SumOver, MapThenSumSet, MapThenFoldSet
<1> QED BY <1>8, <1>9 DEF SpentInv

LEMMA CallBatchExposure ==
  ASSUME IsFiniteSet(ParseCharges), RInv, XInv, CallBatch PROVE XInv'
<1> DEFINE k == wk.k
           cap == OutputCap(k, wk.used)
           price(out) == Price(InputTokens[k], out)
<1> USE AttemptIds
<1>0. RowShape /\ WorkerShape /\ k \in Batches /\ wk.used \in Int /\ Model(k) \in Attempts
  BY DEF RInv, Shape, WorkerShape
<1>1. /\ wk.at = "call" /\ row' = row /\ cap \in Nat /\ InputTokens[k] \in Nat
      /\ ExcessTokens \in Nat
  BY <1>0, CapIsInteger, LedgerAssumption DEF CallBatch, RInv, BatchesInv, Steps
<1>2. /\ \/ charged' = charged
         \/ \E out \in 0..(cap + ExcessTokens) : charged' = [charged EXCEPT ![Model(k)] = price(out)]
      /\ \E state, amount, n : wk' = Outcome(state, amount, n)
  <2>1. \/ charged' = charged
        \/ \E out \in 0..cap : charged' = [charged EXCEPT ![Model(k)] = price(out)]
        \/ \E out \in (cap + 1)..(cap + ExcessTokens) :
             charged' = [charged EXCEPT ![Model(k)] = price(out)]
    BY DEF CallBatch
  <2>2. \E state, amount, n : wk' = Outcome(state, amount, n)
    BY DEF CallBatch
  <2>3. 0..cap \subseteq 0..(cap + ExcessTokens)
        /\ (cap + 1)..(cap + ExcessTokens) \subseteq 0..(cap + ExcessTokens)
    BY <1>1
  <2> QED BY <2>1, <2>2, <2>3
<1>3. wk'.at = "settleBatch" /\ wk'.k = k
  BY <1>0, <1>2 DEF WorkerShape, Outcome
<1>4. \A a \in Attempts : a # Model(k) => charged'[a] = charged[a]
  BY <1>0, <1>2 DEF RowShape
<1>5. ChargeInv'
  <2>1. /\ \A d \in Docs : charged[Parse(d)] <= row.events[Parse(d)].amount
        /\ \A j \in Batches : j >= k => charged[Model(j)] = 0
    BY <1>1 DEF XInv, ChargeInv, Steps
  <2>2. \A d \in Docs : charged'[Parse(d)] = charged[Parse(d)]
    BY <1>0, <1>4
  <2>3. \A j \in Batches : j > k => charged'[Model(j)] = 0
    <3>1. \A j \in Batches : j > k => j >= k /\ j # k
      BY <1>0 DEF Batches
    <3> QED BY <1>0, <1>4, <2>1, <3>1
  <2> QED BY <1>1, <1>3, <2>1, <2>2, <2>3 DEF ChargeInv, Steps
<1>6. WindowInv'
  BY <1>3 DEF WindowInv, Steps
<1>7. SpentInv'
  <2>1. CASE charged' = charged
    BY <2>1, SpendsNothing DEF XInv
  <2>2. ASSUME NEW out \in 0..(cap + ExcessTokens),
               charged' = [charged EXCEPT ![Model(k)] = price(out)]
        PROVE  SpentInv'
    <3>1. out \in Nat /\ out <= cap + ExcessTokens
      BY <1>1
    <3>2. price(out) \in Nat
      BY <1>1, <3>1, PriceIsNatural
    <3>3. price(out) <= price(cap) + Price(0, ExcessTokens)
      BY <1>1, <3>1, PriceOfExcess
    <3>4. price(cap) = MaxCost(k, wk.used)
      BY DEF MaxCost
    <3> HIDE DEF cap
    <3> QED BY <1>1, <2>2, <3>2, <3>3, <3>4, CallCharges
  <2> QED BY <1>2, <2>1, <2>2
<1> QED BY <1>5, <1>6, <1>7 DEF XInv

LEMMA SettleBatchExposure == ASSUME RInv, XInv, SettleBatch PROVE XInv'
<1> DEFINE k == wk.k
           next == [wk EXCEPT !.at = "markBatch", !.k = k + 1]
<1> USE AttemptIds
<1>0. /\ RowShape /\ WorkerShape /\ k \in Batches /\ Model(k) \in Attempts
      /\ wk.outcome \in Events
  BY DEF RInv, Shape, WorkerShape
<1>1. /\ wk.at = "settleBatch" /\ charged' = charged
      /\ row' = row \/ row' = WithEvent(Model(k), wk.outcome)
      /\ wk' = Goto("lost") \/ wk' = Goto("billed") \/ wk' = next
  BY DEF SettleBatch, Guarded
<1>2. CASE wk' = Goto("lost") \/ wk' = Goto("billed")
  <2>1. wk'.at \in AfterBatches
    BY <1>0, <1>2, WorkerGoes DEF AfterBatches
  <2> QED BY <1>1, <2>1, EndExposure
<1>3. CASE wk' = next
  <2>1. wk'.at = "markBatch" /\ wk'.k = k + 1
    BY <1>0, <1>3 DEF WorkerShape
  <2>2. \A d \in Docs : row'.events[Parse(d)] = row.events[Parse(d)]
    <3>1. CASE row' = row
      BY <3>1
    <3>2. CASE row' = WithEvent(Model(k), wk.outcome)
      <4>1. row'.events = [row.events EXCEPT ![Model(k)] = wk.outcome]
        BY <1>0, <1>1, <3>2, EventWritten
      <4> QED BY <1>0, <4>1 DEF RowShape
    <3> QED BY <1>1, <3>1, <3>2
  <2>3. /\ \A d \in Docs : charged[Parse(d)] <= row.events[Parse(d)].amount
        /\ \A j \in Batches : j > k => charged[Model(j)] = 0
    BY <1>1 DEF XInv, ChargeInv, Steps
  <2>4. \A j \in Batches : j >= k + 1 => j > k
    BY <1>0 DEF Batches
  <2>5. ChargeInv'
    BY <1>1, <2>1, <2>2, <2>3, <2>4 DEF ChargeInv, Steps
  <2>6. WindowInv' /\ SpentInv'
    BY <1>1, <2>1, SpendsNothing DEF XInv, WindowInv, Steps
  <2> QED BY <2>5, <2>6 DEF XInv
<1> QED BY <1>1, <1>2, <1>3

\* Past the batches nothing is charged any more.
LEMMA FinishExposure ==
  ASSUME RInv, XInv, Billed \/ Lost \/ Finish \/ Killed PROVE XInv'
<1>0. WorkerShape
  BY DEF RInv, Shape
<1>1. charged' = charged
  BY DEF Billed, Lost, Finish, Verify, Settle, Publish, Interrupted, Recover, SettleFailure,
         Killed
<1>2. /\ wk' = [wk EXCEPT !.at = wk'.at, !.mem = wk'.mem, !.due = wk'.due]
      /\ wk'.at \in AfterBatches
  <2>1. CASE Billed \/ Lost
    BY <1>0, <2>1 DEF Billed, Lost, Goto, AfterBatches, WorkerShape
  <2>2. CASE Verify \/ Settle \/ Publish
    BY <1>0, <2>2 DEF Verify, Settle, Publish, Guarded, SettleAt, Goto, AfterBatches, WorkerShape
  <2>3. CASE Interrupted \/ Recover \/ SettleFailure \/ Killed
    BY <1>0, <2>3 DEF Interrupted, Recover, SettleFailure, SettleAt, Killed, Goto, AfterBatches,
                      WorkerShape
  <2> QED BY <2>1, <2>2, <2>3 DEF Finish
<1> QED BY <1>1, <1>2, EndExposure

LEMMA EveryExposure ==
  ASSUME IsFiniteSet(ParseCharges), RInv, XInv, [Next]_vars PROVE XInv'
<1>1. ASSUME NEW d \in Docs, ParseDocument(d) PROVE XInv'
  BY <1>1, NotStartedExposure, MarkStartedExposure, DispatchExposure, CaptureExposure
     DEF ParseDocument
<1>2. CASE Plan \/ BatchEnds \/ Merge
  BY <1>2, PlanExposure, BatchEndsExposure, MergeExposure
<1>3. CASE Extract
  BY <1>3, PreflightExposure, MarkBatchExposure, CallBatchExposure, SettleBatchExposure,
     FinishExposure DEF Extract
<1>4. CASE Finish \/ Killed
  BY <1>4, FinishExposure
<1>5. CASE Withdraw
  <2>1. wk' = wk /\ charged' = charged /\ row'.events = row.events
    BY <1>5 DEF Withdraw, RInv, Shape, RowShape
  <2> QED BY <2>1, SameExposure
<1>6. CASE UNCHANGED vars
  <2>1. wk' = wk /\ charged' = charged /\ row'.events = row.events
    BY <1>6 DEF vars
  <2> QED BY <2>1, SameExposure
<1> QED BY <1>1, <1>2, <1>3, <1>4, <1>5, <1>6 DEF Next

\* A provider that charges more than it was allowed to is stopped at the next
\* commitment: whatever parsers and models charge, as long as there is a highest
\* charge, a run spends no more than its reservation and the overcharge of the
\* calls that were in flight, one parallel batch of documents or one model batch.
THEOREM SpendIsBounded == IsFiniteSet(ParseCharges) => (Spec => []ExposureIsBounded)
<1> SUFFICES ASSUME IsFiniteSet(ParseCharges) PROVE Spec => []ExposureIsBounded
  OBVIOUS
<1>1. Init => RInv /\ XInv
  BY InitRelease, InitExposure
<1>2. RInv /\ XInv /\ [Next]_vars => RInv' /\ XInv'
  BY EveryRelease, EveryExposure
<1>3. XInv => ExposureIsBounded
  BY DEF XInv, SpentInv, ExposureIsBounded, Limit, Over
<1> QED BY <1>1, <1>2, <1>3, PTL DEF Spec
=============================================================================
