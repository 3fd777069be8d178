------------------------ MODULE RunProcessingProofs ------------------------
(***************************************************************************)
(* One run, for every number of documents, workers and cleaners, in three  *)
(* parts: what each step does, what holds although workers outlive their   *)
(* lease, and what becomes of the sources when they do not.                *)
(***************************************************************************)
EXTENDS RunProcessing, TLAPS

-----------------------------------------------------------------------------
(***************************************************************************)
(* First part.                                                             *)
(*                                                                         *)
(* What each step of RunProcessing leaves as it is and what it changes,    *)
(* and that every step keeps the types: one lemma per action, so that a    *)
(* proof about an invariant cites the effect of an action and never its    *)
(* text.                                                                   *)
(***************************************************************************)

-----------------------------------------------------------------------------
(* What a step leaves as it is *)

OnlyWorker(w) ==
  /\ wk' \in [Worker -> WorkerState]
  /\ \A v \in Worker : v # w => wk'[v] = wk[v]

OnlyCleaner(c) ==
  /\ cl' \in [Cleaner -> CleanerState]
  /\ \A b \in Cleaner : b # c => cl'[b] = cl[b]

KeepsCursor(local, w) == local.doc = wk[w].doc /\ local.first = wk[w].first
KeepsHands(local, w) == local.got = wk[w].got /\ local.held = wk[w].held
KeepsParse(local, w) == local.parse = wk[w].parse /\ local.how = wk[w].how

KeepsLife(row) ==
  /\ row.status = run.status /\ row.lease = run.lease /\ row.leaseTime = run.leaseTime
  /\ row.clean = run.clean /\ row.after = run.after
KeepsBooks(row) == row.expected = run.expected /\ row.receipts = run.receipts
KeepsWatch(row) ==
  /\ row.watchdog = run.watchdog /\ row.scheduled = run.scheduled
  /\ row.captured = run.captured /\ row.confirmed = run.confirmed
  /\ row.access = run.access

SameWorld == UNCHANGED <<raw, staged, fetching, calls, watched>>

-----------------------------------------------------------------------------
(* Names and types *)

LEMMA DocsType == Docs \subseteq Nat /\ 1 \in Docs /\ N \in Docs
BY ProcessingAssumption DEF Docs

LEMMA StepNames ==
  WorkerSteps =
    {"staging", "indexing", "parsing", "purging", "extracting", "reconciling", "verifying",
     "register", "arm", "record", "after", "manifest", "verify", "pending", "publish",
     "read", "put", "fence", "schedule", "parse", "model", "recoverRead", "recoverDelete",
     "recoverWrite", "none", "over", "dead"}
BY DEF WorkerSteps, RunningSteps, RecoverySteps, WorkSteps, GuardedSteps, LoadSteps, StageSteps

LEMMA StatusNames ==
  RunStatuses =
    {"queued", "validating", "staging", "page_indexing", "parsing", "purging_source",
     "extracting", "reconciling", "verifying", "ready", "partial", "failed",
     "cleanup_pending", "expired"}
BY DEF RunStatuses, LeasedStatuses, ReleasedStatuses, WithdrawnStatuses

LEMMA ResourceTypes ==
  /\ \A ds \in SUBSET Docs : Sources(ds) \subseteq Sources(Docs)
  /\ \A d \in Docs : Sources({d}) \subseteq Sources(Docs)
  /\ Sources(Docs) \subseteq Resources
  /\ \A d \in Docs, w \in Worker : Text(d, w) \in Resources /\ Parsed(d, w) \in Resources
<1>1. /\ \A ds \in SUBSET Docs : Sources(ds) \subseteq Sources(Docs)
      /\ \A d \in Docs : {d} \in SUBSET Docs
  BY DEF Sources
<1>2. Sources(Docs) \subseteq Resources
  BY DEF Resources
<1>3. \A d \in Docs, w \in Worker : Text(d, w) \in Resources
  BY DEF Resources
<1>4. \A d \in Docs, w \in Worker : Parsed(d, w) \in Resources
  BY DEF Resources
<1> QED BY <1>1, <1>2, <1>3, <1>4

LEMMA LastType ==
  ASSUME TypeOK, NEW w \in Worker
  PROVE  Last(w) \in Docs /\ wk[w].first <= Last(w) /\ InBatch(w) \subseteq Docs
BY ProcessingAssumption DEF Last, InBatch, Docs, TypeOK, WorkerState

LEMMA LocalType ==
  ASSUME TypeOK, NEW w \in Worker
  PROVE  /\ wk[w] \in WorkerState
         /\ wk[w].at \in WorkerSteps /\ wk[w].doc \in Docs /\ wk[w].first \in Docs
         /\ wk[w].got \subseteq Resources /\ wk[w].held \subseteq Resources
         /\ wk[w].parse \in [Docs -> ParseStates] /\ wk[w].how \in [Docs -> CallEnds]
BY DEF TypeOK, WorkerState

LEMMA RowType ==
  ASSUME TypeOK
  PROVE  /\ run.status \in RunStatuses /\ run.lease \in Worker \cup {Nobody}
         /\ run.leaseTime \in {"none", "live", "elapsed"} /\ run.clean \in {"yes", "no"}
         /\ run.after \in {"none", "failed", "expired"}
         /\ run.expected \subseteq Resources /\ run.receipts \subseteq Resources
         /\ run.watchdog \in [Docs -> {"none", "armed", "provider_call_started", "captured",
                                       "cleanup_pending", "cleanup_confirmed", "cancelled"}]
         /\ run.scheduled \subseteq Docs /\ run.captured \subseteq Docs
         /\ run.confirmed \subseteq Docs
         /\ run.access \in [Docs -> {"none", "open", "over"}]
BY DEF TypeOK, RunRow

-----------------------------------------------------------------------------
(* The idioms of the actions *)

LEMMA WorkerMoves ==
  ASSUME TypeOK, NEW w \in Worker, NEW local \in WorkerState, wk' = [wk EXCEPT ![w] = local]
  PROVE  OnlyWorker(w) /\ wk'[w] = local
BY DEF TypeOK, OnlyWorker

LEMMA WorkerGoes ==
  ASSUME TypeOK, NEW w \in Worker, NEW step \in WorkerSteps, Goto(w, step)
  PROVE  /\ OnlyWorker(w) /\ wk'[w].at = step
         /\ KeepsCursor(wk'[w], w) /\ KeepsHands(wk'[w], w) /\ KeepsParse(wk'[w], w)
BY DEF TypeOK, WorkerState, Goto, OnlyWorker, KeepsCursor, KeepsHands, KeepsParse

LEMMA RecoveringLocal ==
  ASSUME NEW local \in WorkerState, NEW other, other = [local EXCEPT !.at = "recoverRead"]
  PROVE  /\ other \in WorkerState /\ other.at = "recoverRead"
         /\ other.doc = local.doc /\ other.first = local.first
         /\ other.got = local.got /\ other.held = local.held
         /\ other.parse = local.parse /\ other.how = local.how
BY StepNames DEF WorkerState

LEMMA GuardedEffect ==
  ASSUME TypeOK, NEW w \in Worker, NEW row, NEW local \in WorkerState,
         Guarded(w, row, local)
  PROVE  /\ run.lease = w /\ run' = row /\ faults' \in Nat /\ OnlyWorker(w)
         /\ wk'[w].at = local.at \/ wk'[w].at = "recoverRead"
         /\ wk'[w].doc = local.doc /\ wk'[w].first = local.first
         /\ wk'[w].got = local.got /\ wk'[w].held = local.held
         /\ wk'[w].parse = local.parse /\ wk'[w].how = local.how
<1> DEFINE other == [local EXCEPT !.at = "recoverRead"]
<1>1. run.lease = w /\ run' = row /\ faults' \in Nat
  BY DEF Guarded, NoFault, Fault, TypeOK
<1>2. wk' = [wk EXCEPT ![w] = local] \/ wk' = [wk EXCEPT ![w] = other]
  BY DEF Guarded
<1>3. CASE wk' = [wk EXCEPT ![w] = local]
  BY <1>1, <1>3, WorkerMoves
<1>4. CASE wk' = [wk EXCEPT ![w] = other]
  <2> HIDE DEF other
  <2>1. /\ other \in WorkerState /\ other.at = "recoverRead"
        /\ other.doc = local.doc /\ other.first = local.first
        /\ other.got = local.got /\ other.held = local.held
        /\ other.parse = local.parse /\ other.how = local.how
    BY RecoveringLocal DEF other
  <2> QED BY <1>1, <1>4, <2>1, WorkerMoves
<1> QED BY <1>2, <1>3, <1>4

LEMMA UnlinkEffect ==
  ASSUME TypeOK, NEW targets, NEW deleted, Unlink(targets, deleted)
  PROVE  /\ deleted \subseteq targets /\ faults' \in Nat
         /\ staged' = staged \ {d \in Docs : Stage(d) \in deleted}
         /\ raw' = raw \ {d \in Docs : Blob(d) \in deleted}
         /\ raw' \subseteq Uploads /\ staged' \subseteq Docs
BY DEF Unlink, NoFault, Fault, TypeOK

LEMMA ParseMoves ==
  ASSUME TypeOK, NEW w \in Worker, NEW d \in Docs, NEW state \in ParseStates,
         SetParse(w, d, state)
  PROVE  /\ OnlyWorker(w) /\ wk'[w].at = wk[w].at
         /\ KeepsCursor(wk'[w], w) /\ KeepsHands(wk'[w], w) /\ wk'[w].how = wk[w].how
         /\ wk'[w].parse = [wk[w].parse EXCEPT ![d] = state]
BY DEF TypeOK, WorkerState, SetParse, OnlyWorker, KeepsCursor, KeepsHands

LEMMA ParseWriteEffect ==
  ASSUME TypeOK, NEW w \in Worker, NEW d \in Docs, NEW row, NEW next \in ParseStates,
         NEW onError \in ParseStates, ParseWrite(w, d, row, next, onError)
  PROVE  /\ faults' \in Nat /\ OnlyWorker(w) /\ wk'[w].at = wk[w].at
         /\ KeepsCursor(wk'[w], w) /\ KeepsHands(wk'[w], w) /\ wk'[w].how = wk[w].how
         /\ \/ /\ run.lease = w /\ run' = row
               /\ \/ wk'[w].parse = [wk[w].parse EXCEPT ![d] = next]
                  \/ wk'[w].parse = [wk[w].parse EXCEPT ![d] = onError]
            \/ run' = run /\ wk'[w].parse = [wk[w].parse EXCEPT ![d] = onError]
<1>1. /\ faults' \in Nat
      /\ \/ run.lease = w /\ run' = row /\ SetParse(w, d, next)
         \/ run.lease = w /\ run' = row /\ SetParse(w, d, onError)
         \/ run' = run /\ SetParse(w, d, onError)
  BY DEF ParseWrite, NoFault, Fault, TypeOK
<1> QED BY <1>1, ParseMoves

LEMMA WorkerKeepsTypes ==
  ASSUME TypeOK, NEW w \in Worker, OnlyWorker(w), run' \in RunRow, UNCHANGED cl,
         raw' \subseteq Uploads, staged' \subseteq Docs, fetching' \subseteq Docs,
         calls' \in [Docs -> Nat], watched' \in [Docs -> Nat], faults' \in Nat
  PROVE  TypeOK'
BY DEF TypeOK, OnlyWorker

LEMMA SameWorldTypes ==
  ASSUME TypeOK, SameWorld
  PROVE  /\ raw' \subseteq Uploads /\ staged' \subseteq Docs /\ fetching' \subseteq Docs
         /\ calls' \in [Docs -> Nat] /\ watched' \in [Docs -> Nat]
BY DEF TypeOK, SameWorld

-----------------------------------------------------------------------------
(* The worker: claim, stages, loading *)

LEMMA ClaimEffect ==
  ASSUME TypeOK, NEW w \in Worker, Claim(w)
  PROVE  /\ TypeOK' /\ OnlyWorker(w)
         /\ wk[w].at = "none" /\ wk'[w].at = "staging"
         /\ KeepsCursor(wk'[w], w) /\ KeepsHands(wk'[w], w) /\ KeepsParse(wk'[w], w)
         /\ \A d \in Docs : run.watchdog[d] = "none" /\ run.access[d] = "none"
         /\ run.status = "queued" \/ (run.status \in LeasedStatuses /\ run.leaseTime = "elapsed")
         /\ run'.status = "validating" /\ run'.lease = w /\ run'.leaseTime = "live"
         /\ run'.clean = run.clean /\ run'.after = run.after
         /\ KeepsBooks(run') /\ KeepsWatch(run')
         /\ UNCHANGED cl /\ SameWorld
<1>1. /\ Goto(w, "staging")
      /\ run' = [run EXCEPT !.status = "validating", !.lease = w, !.leaseTime = "live"]
      /\ UNCHANGED cl /\ SameWorld /\ UNCHANGED faults
      /\ wk[w].at = "none"
      /\ \A d \in Docs : run.watchdog[d] = "none" /\ run.access[d] = "none"
      /\ run.status = "queued" \/ (run.status \in LeasedStatuses /\ run.leaseTime = "elapsed")
  BY DEF Claim, SameWorld, world
<1>2. /\ run' \in RunRow
      /\ run'.status = "validating" /\ run'.lease = w /\ run'.leaseTime = "live"
      /\ run'.clean = run.clean /\ run'.after = run.after
      /\ KeepsBooks(run') /\ KeepsWatch(run')
  BY <1>1, StatusNames DEF TypeOK, RunRow, KeepsBooks, KeepsWatch
<1>3. /\ OnlyWorker(w) /\ wk'[w].at = "staging"
      /\ KeepsCursor(wk'[w], w) /\ KeepsHands(wk'[w], w) /\ KeepsParse(wk'[w], w)
  BY <1>1, WorkerGoes, StepNames
<1>4. TypeOK'
  BY <1>1, <1>2, <1>3, WorkerKeepsTypes, SameWorldTypes DEF TypeOK
<1> QED BY <1>1, <1>2, <1>3, <1>4

LEMMA HeartbeatEffect ==
  ASSUME TypeOK, NEW w \in Worker, Heartbeat(w)
  PROVE  /\ TypeOK'
         /\ wk[w].at \in WorkSteps \ {"publish"} /\ run.lease = w
         /\ run.status \in LeasedStatuses /\ run.leaseTime = "elapsed" /\ run'.leaseTime = "live"
         /\ run'.status = run.status /\ run'.lease = run.lease
         /\ run'.clean = run.clean /\ run'.after = run.after
         /\ KeepsBooks(run') /\ KeepsWatch(run')
         /\ UNCHANGED <<wk, cl>> /\ SameWorld
<1>1. /\ wk[w].at \in WorkSteps \ {"publish"} /\ run.lease = w
      /\ run.status \in LeasedStatuses /\ run.leaseTime = "elapsed"
      /\ run' = [run EXCEPT !.leaseTime = "live"]
      /\ UNCHANGED <<wk, cl>> /\ SameWorld /\ UNCHANGED faults
  BY DEF Heartbeat, SameWorld, world
<1>2. /\ run' \in RunRow /\ run'.leaseTime = "live"
      /\ run'.status = run.status /\ run'.lease = run.lease
      /\ run'.clean = run.clean /\ run'.after = run.after
      /\ KeepsBooks(run') /\ KeepsWatch(run')
  BY <1>1 DEF TypeOK, RunRow, KeepsBooks, KeepsWatch
<1>3. TypeOK'
  BY <1>1, <1>2 DEF TypeOK, SameWorld
<1> QED BY <1>1, <1>2, <1>3

LEMMA StagingNames ==
  /\ StageSteps = {"staging", "indexing", "parsing", "purging", "extracting", "reconciling",
                   "verifying"}
  /\ \A step \in StageSteps :
       /\ StatusOf(step) \in LeasedStatuses /\ StatusOf(step) \in RunStatuses
       /\ Following(step) \in WorkerSteps
BY StepNames, StatusNames DEF StageSteps, StatusOf, Following, LeasedStatuses

LEMMA EnterStageEffect ==
  ASSUME TypeOK, NEW w \in Worker, EnterStage(w)
  PROVE  /\ TypeOK' /\ OnlyWorker(w) /\ wk[w].at \in StageSteps /\ run.lease = w
         /\ CanTransition(run.status, StatusOf(wk[w].at), run.clean = "yes")
         /\ run'.status = StatusOf(wk[w].at) /\ run'.lease = run.lease
         /\ run'.leaseTime = run.leaseTime /\ run'.clean = run.clean /\ run'.after = run.after
         /\ KeepsBooks(run') /\ KeepsWatch(run')
         /\ KeepsParse(wk'[w], w) /\ wk'[w].got = wk[w].got /\ wk'[w].first = wk[w].first
         /\ wk'[w].doc = 1
         /\ \/ wk'[w].held = wk[w].held
            \/ wk[w].at = "indexing" /\ wk'[w].held = {Text(d, w) : d \in Docs}
         /\ wk'[w].at = "recoverRead" \/ wk'[w].at = Following(wk[w].at)
         /\ UNCHANGED cl /\ SameWorld
<1> DEFINE step == wk[w].at
           held == IF step = "indexing" THEN {Text(d, w) : d \in Docs} ELSE wk[w].held
           row == [run EXCEPT !.status = StatusOf(step)]
           local == [wk[w] EXCEPT !.at = Following(step), !.doc = 1, !.held = held]
<1>1. /\ step \in StageSteps /\ Guarded(w, row, local) /\ UNCHANGED cl /\ SameWorld
      /\ CanTransition(run.status, StatusOf(wk[w].at), run.clean = "yes")
  BY DEF EnterStage, SameWorld, world
<1>2. StatusOf(step) \in RunStatuses /\ Following(step) \in WorkerSteps
  BY <1>1, StagingNames
<1>3. /\ row \in RunRow /\ row.status = StatusOf(step) /\ row.lease = run.lease
      /\ row.leaseTime = run.leaseTime /\ row.clean = run.clean /\ row.after = run.after
      /\ KeepsBooks(row) /\ KeepsWatch(row)
  BY <1>2 DEF TypeOK, RunRow, KeepsBooks, KeepsWatch
<1>4. /\ held \in SUBSET Resources
      /\ held = wk[w].held \/ (wk[w].at = "indexing" /\ held = {Text(d, w) : d \in Docs})
  BY ResourceTypes DEF TypeOK, WorkerState
<1> HIDE DEF held
<1>5. /\ local \in WorkerState /\ local.at = Following(step) /\ local.doc = 1
      /\ local.first = wk[w].first /\ local.got = wk[w].got /\ local.held = held
      /\ local.parse = wk[w].parse /\ local.how = wk[w].how
  BY <1>2, <1>4, DocsType DEF TypeOK, WorkerState
<1> HIDE DEF row, local
<1>6. /\ run.lease = w /\ run' = row /\ faults' \in Nat /\ OnlyWorker(w)
      /\ wk'[w].at = local.at \/ wk'[w].at = "recoverRead"
      /\ wk'[w].doc = 1 /\ wk'[w].first = wk[w].first /\ wk'[w].got = wk[w].got
      /\ wk'[w].held = held /\ KeepsParse(wk'[w], w)
  BY <1>1, <1>5, GuardedEffect DEF KeepsParse
<1>7. TypeOK'
  BY <1>1, <1>3, <1>6, WorkerKeepsTypes, SameWorldTypes
<1> QED BY <1>1, <1>3, <1>4, <1>5, <1>6, <1>7

\* The steps that only end a worker, or send it to its catch clause.
LEMMA StopEffect ==
  ASSUME TypeOK, NEW w \in Worker, Fenced(w) \/ Throws(w) \/ Killed(w)
  PROVE  /\ TypeOK' /\ OnlyWorker(w) /\ Running(w)
         /\ \/ wk'[w].at = "recoverRead" /\ wk[w].at \in WorkSteps
            \/ wk'[w].at = "dead"
         /\ KeepsCursor(wk'[w], w) /\ KeepsHands(wk'[w], w) /\ KeepsParse(wk'[w], w)
         /\ UNCHANGED <<run, cl>> /\ SameWorld
<1>1. /\ UNCHANGED <<run, cl>> /\ SameWorld /\ faults' \in Nat
      /\ Running(w)
      /\ \/ Goto(w, "recoverRead") /\ wk[w].at \in WorkSteps
         \/ Goto(w, "dead")
  BY DEF Fenced, Throws, Killed, SameWorld, world, Fault, TypeOK, Running, WorkSteps,
         RunningSteps, LoadSteps
<1>2. /\ OnlyWorker(w)
      /\ \/ wk'[w].at = "recoverRead" /\ wk[w].at \in WorkSteps
         \/ wk'[w].at = "dead"
      /\ KeepsCursor(wk'[w], w) /\ KeepsHands(wk'[w], w) /\ KeepsParse(wk'[w], w)
  BY <1>1, WorkerGoes, StepNames
<1>3. TypeOK'
  BY <1>1, <1>2, WorkerKeepsTypes, SameWorldTypes DEF TypeOK
<1> QED BY <1>1, <1>2, <1>3

\* What follows a loaded document: the next one, or the page index.
Proceeds(local, w) ==
  \/ wk[w].doc < N /\ local.at = "read" /\ local.doc = wk[w].doc + 1
  \/ wk[w].doc = N /\ local.at = "indexing" /\ local.doc = wk[w].doc

LEMMA NextDocType ==
  ASSUME TypeOK, NEW w \in Worker
  PROVE  /\ NextDoc(w) \in WorkerState /\ Proceeds(NextDoc(w), w)
         /\ NextDoc(w).first = wk[w].first
         /\ KeepsHands(NextDoc(w), w) /\ KeepsParse(NextDoc(w), w)
<1>1. wk[w].doc \in Docs /\ N \in Nat /\ N \in Docs /\ wk[w] \in WorkerState
  BY LocalType, ProcessingAssumption, DocsType
<1>2. CASE wk[w].doc < N
  <2>1. wk[w].doc + 1 \in Docs
    BY <1>1, <1>2 DEF Docs
  <2> QED
    BY <1>1, <1>2, <2>1, StepNames
    DEF NextDoc, Proceeds, WorkerState, KeepsHands, KeepsParse
<1>3. CASE wk[w].doc = N
  <2>1. ~(wk[w].doc < N)
    BY <1>1, <1>3
  <2> QED
    BY <1>1, <1>3, <2>1, StepNames
    DEF NextDoc, Proceeds, WorkerState, KeepsHands, KeepsParse
<1> QED BY <1>1, <1>2, <1>3 DEF Docs

LEMMA LocalGoes ==
  ASSUME TypeOK, NEW w \in Worker, NEW step \in WorkerSteps, NEW local,
         local = [wk[w] EXCEPT !.at = step]
  PROVE  /\ local \in WorkerState /\ local.at = step
         /\ KeepsCursor(local, w) /\ KeepsHands(local, w) /\ KeepsParse(local, w)
BY LocalType DEF WorkerState, KeepsCursor, KeepsHands, KeepsParse

LEMMA ReadEffect ==
  ASSUME TypeOK, NEW w \in Worker, Read(w)
  PROVE  /\ TypeOK' /\ OnlyWorker(w) /\ wk[w].at = "read"
         /\ wk'[w].first = wk[w].first
         /\ KeepsHands(wk'[w], w) /\ KeepsParse(wk'[w], w)
         /\ \/ wk'[w].at = "recoverRead"
            \/ wk'[w].at = "put" /\ wk'[w].doc = wk[w].doc
            \/ /\ wk[w].doc \in staged /\ wk[w].doc \in Uploads
               /\ wk'[w].at = "fence" /\ wk'[w].doc = wk[w].doc
            \/ wk[w].doc \in staged /\ wk[w].doc \notin Uploads /\ Proceeds(wk'[w], w)
         /\ UNCHANGED <<run, cl>> /\ SameWorld
<1>1. /\ wk[w].at = "read" /\ UNCHANGED <<run, cl>> /\ SameWorld /\ faults' = faults
      /\ \/ wk' = [wk EXCEPT ![w] = [wk[w] EXCEPT !.at = "recoverRead"]]
         \/ wk' = [wk EXCEPT ![w] = [wk[w] EXCEPT !.at = "put"]]
         \/ /\ wk[w].doc \in staged /\ wk[w].doc \in Uploads
            /\ wk' = [wk EXCEPT ![w] = [wk[w] EXCEPT !.at = "fence"]]
         \/ /\ wk[w].doc \in staged /\ wk[w].doc \notin Uploads
            /\ wk' = [wk EXCEPT ![w] = NextDoc(w)]
  BY DEF Read, SameWorld, world, TypeOK
<1>2. \A step \in {"recoverRead", "put", "fence"} :
        /\ [wk[w] EXCEPT !.at = step] \in WorkerState
        /\ [wk[w] EXCEPT !.at = step].at = step
        /\ KeepsCursor([wk[w] EXCEPT !.at = step], w)
        /\ KeepsHands([wk[w] EXCEPT !.at = step], w)
        /\ KeepsParse([wk[w] EXCEPT !.at = step], w)
  BY LocalGoes, StepNames
<1>3. ASSUME NEW step \in {"recoverRead", "put", "fence"},
             wk' = [wk EXCEPT ![w] = [wk[w] EXCEPT !.at = step]]
      PROVE  /\ OnlyWorker(w) /\ wk'[w].at = step
             /\ KeepsCursor(wk'[w], w) /\ KeepsHands(wk'[w], w) /\ KeepsParse(wk'[w], w)
  BY <1>2, <1>3, WorkerMoves
<1>4. ASSUME wk' = [wk EXCEPT ![w] = NextDoc(w)]
      PROVE  /\ OnlyWorker(w) /\ Proceeds(wk'[w], w) /\ wk'[w].first = wk[w].first
             /\ KeepsHands(wk'[w], w) /\ KeepsParse(wk'[w], w)
  BY <1>4, NextDocType, WorkerMoves
<1>5. /\ OnlyWorker(w) /\ wk'[w].first = wk[w].first
      /\ KeepsHands(wk'[w], w) /\ KeepsParse(wk'[w], w)
      /\ \/ wk'[w].at = "recoverRead"
         \/ wk'[w].at = "put" /\ wk'[w].doc = wk[w].doc
         \/ /\ wk[w].doc \in staged /\ wk[w].doc \in Uploads
            /\ wk'[w].at = "fence" /\ wk'[w].doc = wk[w].doc
         \/ wk[w].doc \in staged /\ wk[w].doc \notin Uploads /\ Proceeds(wk'[w], w)
  BY <1>1, <1>3, <1>4 DEF KeepsCursor
<1>6. run' \in RunRow /\ faults' \in Nat
  BY <1>1 DEF TypeOK
<1>7. TypeOK'
  BY <1>1, <1>5, <1>6, WorkerKeepsTypes, SameWorldTypes
<1> QED BY <1>1, <1>5, <1>7

LEMMA PutEffect ==
  ASSUME TypeOK, NEW w \in Worker, Put(w)
  PROVE  /\ TypeOK' /\ OnlyWorker(w) /\ wk[w].at = "put"
         /\ wk'[w].first = wk[w].first
         /\ KeepsHands(wk'[w], w) /\ KeepsParse(wk'[w], w)
         /\ \/ wk[w].doc \in Uploads /\ wk'[w].at = "fence" /\ wk'[w].doc = wk[w].doc
            \/ wk[w].doc \notin Uploads /\ Proceeds(wk'[w], w)
         /\ staged' = staged \cup {wk[w].doc}
         /\ UNCHANGED <<run, cl, raw, fetching, calls, watched>>
<1>1. /\ wk[w].at = "put" /\ staged' = staged \cup {wk[w].doc}
      /\ UNCHANGED <<run, cl, raw, fetching, calls, watched, faults>>
      /\ \/ /\ wk[w].doc \in Uploads
            /\ wk' = [wk EXCEPT ![w] = [wk[w] EXCEPT !.at = "fence"]]
         \/ wk[w].doc \notin Uploads /\ wk' = [wk EXCEPT ![w] = NextDoc(w)]
  BY DEF Put, TypeOK
<1>2. ASSUME wk' = [wk EXCEPT ![w] = [wk[w] EXCEPT !.at = "fence"]]
      PROVE  /\ OnlyWorker(w) /\ wk'[w].at = "fence"
             /\ KeepsCursor(wk'[w], w) /\ KeepsHands(wk'[w], w) /\ KeepsParse(wk'[w], w)
  <2>1. "fence" \in WorkerSteps
    BY StepNames
  <2>2. Goto(w, "fence")
    BY <1>2 DEF Goto, TypeOK
  <2> QED BY <2>1, <2>2, WorkerGoes
<1>3. ASSUME wk' = [wk EXCEPT ![w] = NextDoc(w)]
      PROVE  /\ OnlyWorker(w) /\ Proceeds(wk'[w], w) /\ wk'[w].first = wk[w].first
             /\ KeepsHands(wk'[w], w) /\ KeepsParse(wk'[w], w)
  BY <1>3, NextDocType, WorkerMoves
<1>4. /\ OnlyWorker(w) /\ wk'[w].first = wk[w].first
      /\ KeepsHands(wk'[w], w) /\ KeepsParse(wk'[w], w)
      /\ \/ wk[w].doc \in Uploads /\ wk'[w].at = "fence" /\ wk'[w].doc = wk[w].doc
         \/ wk[w].doc \notin Uploads /\ Proceeds(wk'[w], w)
  BY <1>1, <1>2, <1>3 DEF KeepsCursor
<1>5. TypeOK'
  BY <1>1, <1>4, LocalType, WorkerKeepsTypes DEF TypeOK
<1> QED BY <1>1, <1>4, <1>5

LEMMA FenceEffect ==
  ASSUME TypeOK, NEW w \in Worker, Fence(w)
  PROVE  /\ TypeOK' /\ OnlyWorker(w) /\ wk[w].at = "fence"
         /\ wk'[w].first = wk[w].first /\ Proceeds(wk'[w], w)
         /\ KeepsHands(wk'[w], w) /\ KeepsParse(wk'[w], w)
         /\ raw' = raw \ {wk[w].doc}
         /\ UNCHANGED <<run, cl, staged, fetching, calls, watched>>
<1>1. /\ wk[w].at = "fence" /\ raw' = raw \ {wk[w].doc}
      /\ UNCHANGED <<run, cl, staged, fetching, calls, watched, faults>>
      /\ wk' = [wk EXCEPT ![w] = NextDoc(w)]
  BY DEF Fence
<1>2. /\ OnlyWorker(w) /\ Proceeds(wk'[w], w) /\ wk'[w].first = wk[w].first
      /\ KeepsHands(wk'[w], w) /\ KeepsParse(wk'[w], w)
  BY <1>1, NextDocType, WorkerMoves
<1>3. TypeOK'
  BY <1>1, <1>2, WorkerKeepsTypes DEF TypeOK
<1> QED BY <1>1, <1>2, <1>3

LEMMA SweepUploadEffect ==
  ASSUME TypeOK, NEW d \in Docs, SweepUpload(d)
  PROVE  /\ TypeOK' /\ raw' = raw \ {d}
         /\ UNCHANGED <<run, wk, cl, staged, fetching, calls, watched>>
BY DEF SweepUpload, TypeOK

LEMMA RegisterEffect ==
  ASSUME TypeOK, NEW w \in Worker, Register(w)
  PROVE  /\ TypeOK' /\ OnlyWorker(w) /\ wk[w].at = "register" /\ run.lease = w
         /\ wk'[w].at \in {"parsing", "recoverRead"}
         /\ wk'[w].doc = wk[w].doc /\ wk'[w].first = 1
         /\ KeepsHands(wk'[w], w) /\ KeepsParse(wk'[w], w)
         /\ KeepsLife(run') /\ KeepsWatch(run') /\ run'.receipts = run.receipts
         /\ run'.expected = run.expected \cup {Text(d, w) : d \in Docs}
         /\ UNCHANGED cl /\ SameWorld
<1> DEFINE row == [run EXCEPT !.expected = @ \cup {Text(d, w) : d \in Docs}]
           local == [wk[w] EXCEPT !.at = "parsing", !.first = 1]
<1>1. wk[w].at = "register" /\ Guarded(w, row, local) /\ UNCHANGED cl /\ SameWorld
  BY DEF Register, SameWorld, world
<1>2. /\ row \in RunRow /\ KeepsLife(row) /\ KeepsWatch(row) /\ row.receipts = run.receipts
      /\ row.expected = run.expected \cup {Text(d, w) : d \in Docs}
  BY ResourceTypes DEF TypeOK, RunRow, KeepsLife, KeepsWatch
<1>3. /\ local \in WorkerState /\ local.at = "parsing" /\ local.doc = wk[w].doc
      /\ local.first = 1 /\ KeepsHands(local, w) /\ KeepsParse(local, w)
  BY LocalType, DocsType, StepNames DEF WorkerState, KeepsHands, KeepsParse
<1> HIDE DEF row, local
<1>4. /\ run.lease = w /\ run' = row /\ faults' \in Nat /\ OnlyWorker(w)
      /\ wk'[w].at \in {"parsing", "recoverRead"}
      /\ wk'[w].doc = wk[w].doc /\ wk'[w].first = 1
      /\ KeepsHands(wk'[w], w) /\ KeepsParse(wk'[w], w)
  BY <1>1, <1>3, GuardedEffect DEF KeepsHands, KeepsParse
<1>5. TypeOK'
  BY <1>1, <1>2, <1>4, WorkerKeepsTypes, SameWorldTypes
<1> QED BY <1>1, <1>2, <1>4, <1>5

-----------------------------------------------------------------------------
(* The worker: one parse batch *)

Advances(local, w, next) ==
  \/ wk[w].doc < Last(w) /\ local.at = wk[w].at /\ local.doc = wk[w].doc + 1
  \/ wk[w].doc >= Last(w) /\ local.at = next /\ local.doc = wk[w].first

LEMMA AdvanceType ==
  ASSUME TypeOK, NEW w \in Worker, NEW next \in WorkerSteps
  PROVE  /\ Advance(w, next) \in WorkerState /\ Advances(Advance(w, next), w, next)
         /\ Advance(w, next).first = wk[w].first
         /\ KeepsHands(Advance(w, next), w) /\ KeepsParse(Advance(w, next), w)
<1>1. /\ wk[w].doc \in Docs /\ wk[w].first \in Docs /\ Last(w) \in Docs
      /\ wk[w] \in WorkerState
  BY LocalType, LastType
<1>2. CASE wk[w].doc < Last(w)
  <2>1. wk[w].doc + 1 \in Docs
    BY <1>1, <1>2, ProcessingAssumption DEF Docs
  <2> QED
    BY <1>1, <1>2, <2>1 DEF Advance, Advances, WorkerState, KeepsHands, KeepsParse
<1>3. CASE ~(wk[w].doc < Last(w))
  <2>1. wk[w].doc >= Last(w)
    BY <1>1, <1>3 DEF Docs
  <2> QED
    BY <1>1, <1>3, <2>1 DEF Advance, Advances, WorkerState, KeepsHands, KeepsParse
<1> QED BY <1>2, <1>3

LEMMA ArmEffect ==
  ASSUME TypeOK, NEW w \in Worker, Arm(w)
  PROVE  /\ TypeOK' /\ OnlyWorker(w) /\ wk[w].at = "arm" /\ run.lease = w
         /\ run.access[wk[w].doc] = "none"
         /\ wk'[w].at = "recoverRead" \/ Advances(wk'[w], w, "schedule")
         /\ wk'[w].first = wk[w].first /\ KeepsHands(wk'[w], w) /\ KeepsParse(wk'[w], w)
         /\ KeepsLife(run') /\ KeepsBooks(run')
         /\ run'.watchdog = [run.watchdog EXCEPT ![wk[w].doc] = "armed"]
         /\ run'.scheduled = run.scheduled /\ run'.captured = run.captured
         /\ run'.confirmed = run.confirmed /\ run'.access = run.access
         /\ UNCHANGED cl /\ SameWorld
<1> DEFINE row == [run EXCEPT !.watchdog[wk[w].doc] = "armed"]
           local == Advance(w, "schedule")
<1>1. /\ wk[w].at = "arm" /\ run.access[wk[w].doc] = "none"
      /\ Guarded(w, row, local) /\ UNCHANGED cl /\ SameWorld
  BY DEF Arm, SameWorld, world
<1>2. wk[w].doc \in Docs
  BY LocalType
<1>3. /\ row \in RunRow /\ KeepsLife(row) /\ KeepsBooks(row)
      /\ row.watchdog = [run.watchdog EXCEPT ![wk[w].doc] = "armed"]
      /\ row.scheduled = run.scheduled /\ row.captured = run.captured
      /\ row.confirmed = run.confirmed /\ row.access = run.access
  BY <1>2 DEF TypeOK, RunRow, KeepsLife, KeepsBooks
<1>4. /\ local \in WorkerState /\ Advances(local, w, "schedule")
      /\ local.first = wk[w].first /\ KeepsHands(local, w) /\ KeepsParse(local, w)
  BY AdvanceType, StepNames
<1> HIDE DEF row, local
<1>5. /\ run.lease = w /\ run' = row /\ faults' \in Nat /\ OnlyWorker(w)
      /\ wk'[w].at = local.at \/ wk'[w].at = "recoverRead"
      /\ wk'[w].doc = local.doc /\ wk'[w].first = wk[w].first
      /\ KeepsHands(wk'[w], w) /\ KeepsParse(wk'[w], w)
  BY <1>1, <1>4, GuardedEffect DEF KeepsHands, KeepsParse
<1>6. TypeOK'
  BY <1>1, <1>3, <1>5, WorkerKeepsTypes, SameWorldTypes
<1>7. wk'[w].at = "recoverRead" \/ Advances(wk'[w], w, "schedule")
  BY <1>4, <1>5 DEF Advances
<1> QED BY <1>1, <1>3, <1>5, <1>6, <1>7

LEMMA ScheduleEffect ==
  ASSUME TypeOK, NEW w \in Worker, Schedule(w)
  PROVE  /\ TypeOK' /\ OnlyWorker(w) /\ wk[w].at = "schedule"
         /\ KeepsCursor(wk'[w], w) /\ KeepsHands(wk'[w], w) /\ KeepsParse(wk'[w], w)
         /\ \/ /\ \A d \in Docs : watched'[d] = watched[d] + (IF d \in InBatch(w) THEN 1 ELSE 0)
               /\ wk'[w].at \in {"record", "recoverRead"}
            \/ UNCHANGED watched /\ wk'[w].at = "recoverRead"
         /\ UNCHANGED <<run, cl, raw, staged, fetching, calls>>
<1>1. /\ wk[w].at = "schedule" /\ UNCHANGED <<run, cl, raw, staged, fetching, calls>>
      /\ faults' \in Nat
      /\ \/ /\ watched' = [d \in Docs |-> watched[d] + (IF d \in InBatch(w) THEN 1 ELSE 0)]
            /\ Goto(w, "record") \/ Goto(w, "recoverRead")
         \/ UNCHANGED watched /\ Goto(w, "recoverRead")
  BY DEF Schedule, NoFault, Fault, TypeOK
<1>2. \A d \in Docs : watched[d] + (IF d \in InBatch(w) THEN 1 ELSE 0) \in Nat
  BY DEF TypeOK
<1>3. /\ watched' \in [Docs -> Nat]
      /\ \/ /\ \A d \in Docs : watched'[d] = watched[d] + (IF d \in InBatch(w) THEN 1 ELSE 0)
            /\ Goto(w, "record") \/ Goto(w, "recoverRead")
         \/ UNCHANGED watched /\ Goto(w, "recoverRead")
  BY <1>1, <1>2 DEF TypeOK
<1>4. /\ OnlyWorker(w)
      /\ KeepsCursor(wk'[w], w) /\ KeepsHands(wk'[w], w) /\ KeepsParse(wk'[w], w)
      /\ \/ /\ \A d \in Docs : watched'[d] = watched[d] + (IF d \in InBatch(w) THEN 1 ELSE 0)
            /\ wk'[w].at \in {"record", "recoverRead"}
         \/ UNCHANGED watched /\ wk'[w].at = "recoverRead"
  BY <1>3, WorkerGoes, StepNames
<1>5. TypeOK'
  BY <1>1, <1>3, <1>4, WorkerKeepsTypes DEF TypeOK
<1> QED BY <1>1, <1>4, <1>5

\* The documents of a batch, marked as ready to be paid for.
Readied(w) == [e \in Docs |-> IF e \in InBatch(w) THEN "ready" ELSE wk[w].parse[e]]

LEMMA RecordEffect ==
  ASSUME TypeOK, NEW w \in Worker, Record(w)
  PROVE  /\ TypeOK' /\ OnlyWorker(w) /\ wk[w].at = "record" /\ run.lease = w
         /\ wk'[w].first = wk[w].first /\ KeepsHands(wk'[w], w) /\ wk'[w].how = wk[w].how
         /\ \/ wk'[w].at = "recoverRead" /\ wk'[w].parse \in {wk[w].parse, Readied(w)}
            \/ /\ wk'[w].at = "record" /\ wk'[w].parse = wk[w].parse
               /\ wk[w].doc < Last(w) /\ wk'[w].doc = wk[w].doc + 1
            \/ /\ wk'[w].at = "parse" /\ wk'[w].parse = Readied(w)
               /\ wk[w].doc >= Last(w) /\ wk'[w].doc = wk[w].first
         /\ KeepsLife(run') /\ KeepsBooks(run')
         /\ run'.watchdog = run.watchdog /\ run'.scheduled = run.scheduled \cup {wk[w].doc}
         /\ run'.captured = run.captured /\ run'.confirmed = run.confirmed
         /\ run'.access = run.access
         /\ UNCHANGED cl /\ SameWorld
<1> DEFINE row == [run EXCEPT !.scheduled = @ \cup {wk[w].doc}]
           next == Advance(w, "parse")
           local == IF next.at = "parse" THEN [next EXCEPT !.parse = Readied(w)] ELSE next
<1>1. /\ next \in WorkerState /\ Advances(next, w, "parse")
      /\ next.first = wk[w].first /\ KeepsHands(next, w) /\ KeepsParse(next, w)
  BY AdvanceType, StepNames
<1>2. [next EXCEPT !.parse = [e \in Docs |-> IF e \in InBatch(w) THEN "ready" ELSE @[e]]]
        = [next EXCEPT !.parse = Readied(w)]
  BY <1>1 DEF Readied, KeepsParse
<1>3. /\ wk[w].at = "record" /\ Guarded(w, row, local) /\ UNCHANGED cl /\ SameWorld
  BY <1>2 DEF Record, SameWorld, world
<1>4. wk[w].doc \in Docs
  BY LocalType
<1>5. /\ row \in RunRow /\ KeepsLife(row) /\ KeepsBooks(row)
      /\ row.scheduled = run.scheduled \cup {wk[w].doc}
      /\ row.watchdog = run.watchdog /\ row.captured = run.captured
      /\ row.confirmed = run.confirmed /\ row.access = run.access
  BY <1>4 DEF TypeOK, RunRow, KeepsLife, KeepsBooks
<1>6. Readied(w) \in [Docs -> ParseStates]
  BY LocalType DEF Readied, ParseStates
<1> HIDE DEF row, next
<1>7. /\ local \in WorkerState /\ local.first = wk[w].first /\ KeepsHands(local, w)
      /\ local.how = wk[w].how
      /\ \/ /\ local.at = "record" /\ local.parse = wk[w].parse
            /\ wk[w].doc < Last(w) /\ local.doc = wk[w].doc + 1
         \/ /\ local.at = "parse" /\ local.parse = Readied(w)
            /\ wk[w].doc >= Last(w) /\ local.doc = wk[w].first
  <2>1. CASE next.at = "parse"
    <3>1. wk[w].doc >= Last(w) /\ next.doc = wk[w].first
      BY <1>1, <1>3, <2>1 DEF Advances
    <3> QED BY <1>1, <1>6, <2>1, <3>1 DEF WorkerState, KeepsHands, KeepsParse
  <2>2. CASE next.at # "parse"
    BY <1>1, <1>3, <2>2 DEF Advances, KeepsParse
  <2> QED BY <2>1, <2>2
<1> HIDE DEF local
<1>8. /\ run.lease = w /\ run' = row /\ faults' \in Nat /\ OnlyWorker(w)
      /\ wk'[w].at = local.at \/ wk'[w].at = "recoverRead"
      /\ wk'[w].doc = local.doc /\ wk'[w].first = wk[w].first
      /\ KeepsHands(wk'[w], w) /\ wk'[w].how = wk[w].how /\ wk'[w].parse = local.parse
  BY <1>3, <1>7, GuardedEffect DEF KeepsHands
<1>9. TypeOK'
  BY <1>3, <1>5, <1>8, WorkerKeepsTypes, SameWorldTypes
<1> QED BY <1>3, <1>5, <1>7, <1>8, <1>9

LEMMA BatchEndsEffect ==
  ASSUME TypeOK, NEW w \in Worker, BatchEnds(w)
  PROVE  /\ TypeOK' /\ OnlyWorker(w) /\ wk[w].at = "parse" /\ KeepsParse(wk'[w], w)
         /\ \A d \in InBatch(w) : Ended(wk[w].parse[d])
         /\ \/ /\ wk'[w].at = "arm" /\ Last(w) < N /\ KeepsHands(wk'[w], w)
               /\ wk'[w].first = Last(w) + 1 /\ wk'[w].doc = Last(w) + 1
               /\ \A d \in InBatch(w) : wk[w].parse[d] = "parsed"
               /\ UNCHANGED <<raw, staged>>
            \/ /\ wk'[w].at = "after" /\ KeepsCursor(wk'[w], w)
               /\ wk'[w].held = wk[w].held \cup
                    {Parsed(d, w) : d \in {e \in Docs : wk[w].parse[e] \in {"parsed", "kept"}}}
               /\ \E deleted \in SUBSET Sources(Last(w) + 1 .. N) :
                    /\ wk'[w].got = wk[w].got \cup deleted
                    /\ staged' = staged \ {d \in Docs : Stage(d) \in deleted}
                    /\ raw' = raw \ {d \in Docs : Blob(d) \in deleted}
         /\ UNCHANGED <<run, cl, fetching, calls, watched>>
<1> DEFINE rest == Sources(Last(w) + 1 .. N)
           held == wk[w].held \cup
                     {Parsed(d, w) : d \in {e \in Docs : wk[w].parse[e] \in {"parsed", "kept"}}}
           failed == \E d \in InBatch(w) :
                       wk[w].parse[d] # "parsed" \/ ~(Sources({d}) \subseteq wk[w].got)
           arms == [wk[w] EXCEPT !.at = "arm", !.first = Last(w) + 1, !.doc = Last(w) + 1]
           ends == [wk[w] EXCEPT !.at = "after", !.held = held]
           fails(deleted) == [wk[w] EXCEPT !.at = "after", !.got = @ \cup deleted, !.held = held]
<1>1. /\ wk[w].at = "parse" /\ \A d \in InBatch(w) : Ended(wk[w].parse[d])
      /\ UNCHANGED <<run, cl, fetching, calls, watched>>
      /\ \/ \E deleted \in SUBSET rest :
              Unlink(rest, deleted) /\ wk' = [wk EXCEPT ![w] = fails(deleted)]
         \/ /\ UNCHANGED <<raw, staged, faults>> /\ ~failed
            /\ \/ Last(w) < N /\ wk' = [wk EXCEPT ![w] = arms]
               \/ wk' = [wk EXCEPT ![w] = ends]
  BY DEF BatchEnds, TypeOK
<1>2. /\ wk[w] \in WorkerState /\ Last(w) \in Docs /\ InBatch(w) \subseteq Docs
  BY LocalType, LastType
<1>3. held \in SUBSET Resources
  BY <1>2, ResourceTypes DEF WorkerState
<1>4. rest \subseteq Sources(Docs) /\ rest \subseteq Resources
  <2>1. Last(w) + 1 .. N \in SUBSET Docs
    BY <1>2, ProcessingAssumption DEF Docs
  <2> QED BY <2>1, ResourceTypes
<1> HIDE DEF held, rest, failed
<1>5. ASSUME Last(w) < N, wk' = [wk EXCEPT ![w] = arms], UNCHANGED <<raw, staged, faults>>, ~failed
      PROVE  /\ OnlyWorker(w) /\ KeepsParse(wk'[w], w) /\ KeepsHands(wk'[w], w)
             /\ wk'[w].at = "arm" /\ wk'[w].first = Last(w) + 1 /\ wk'[w].doc = Last(w) + 1
             /\ \A d \in InBatch(w) : wk[w].parse[d] = "parsed"
             /\ UNCHANGED <<raw, staged>> /\ faults' \in Nat
  <2>1. Last(w) + 1 \in Docs
    BY <1>2, <1>5, ProcessingAssumption DEF Docs
  <2>2. /\ arms \in WorkerState /\ KeepsParse(arms, w) /\ KeepsHands(arms, w)
        /\ arms.at = "arm" /\ arms.first = Last(w) + 1 /\ arms.doc = Last(w) + 1
    BY <1>2, <2>1, StepNames DEF WorkerState, KeepsParse, KeepsHands
  <2>3. \A d \in InBatch(w) : wk[w].parse[d] = "parsed"
    BY <1>5 DEF failed
  <2> HIDE DEF arms
  <2> QED BY <1>5, <2>2, <2>3, WorkerMoves DEF TypeOK
<1>6. ASSUME NEW deleted \in SUBSET rest, Unlink(rest, deleted),
             wk' = [wk EXCEPT ![w] = fails(deleted)]
      PROVE  /\ OnlyWorker(w) /\ KeepsParse(wk'[w], w) /\ KeepsCursor(wk'[w], w)
             /\ wk'[w].at = "after" /\ wk'[w].held = held
             /\ wk'[w].got = wk[w].got \cup deleted
             /\ staged' = staged \ {d \in Docs : Stage(d) \in deleted}
             /\ raw' = raw \ {d \in Docs : Blob(d) \in deleted}
             /\ raw' \subseteq Uploads /\ staged' \subseteq Docs /\ faults' \in Nat
  <2>1. wk[w].got \cup deleted \in SUBSET Resources
    BY <1>2, <1>4 DEF WorkerState
  <2> DEFINE local == fails(deleted)
  <2>2. /\ local \in WorkerState /\ KeepsParse(local, w) /\ KeepsCursor(local, w)
        /\ local.at = "after" /\ local.held = held /\ local.got = wk[w].got \cup deleted
    BY <1>2, <1>3, <2>1, StepNames DEF WorkerState, KeepsParse, KeepsCursor
  <2>3. wk' = [wk EXCEPT ![w] = local]
    BY <1>6
  <2> HIDE DEF local
  <2>4. OnlyWorker(w) /\ wk'[w] = local
    BY <2>2, <2>3, WorkerMoves
  <2> QED BY <1>6, <2>2, <2>4, UnlinkEffect
<1>7. ASSUME wk' = [wk EXCEPT ![w] = ends], UNCHANGED <<raw, staged, faults>>
      PROVE  /\ OnlyWorker(w) /\ KeepsParse(wk'[w], w) /\ KeepsCursor(wk'[w], w)
             /\ wk'[w].at = "after" /\ wk'[w].held = held /\ wk'[w].got = wk[w].got
             /\ faults' \in Nat
  <2>1. /\ ends \in WorkerState /\ KeepsParse(ends, w) /\ KeepsCursor(ends, w)
        /\ ends.at = "after" /\ ends.held = held /\ ends.got = wk[w].got
    BY <1>2, <1>3, StepNames DEF WorkerState, KeepsParse, KeepsCursor
  <2> HIDE DEF ends
  <2> QED BY <1>7, <2>1, WorkerMoves DEF TypeOK
<1> HIDE DEF arms, ends, fails
<1>8. CASE Last(w) < N /\ wk' = [wk EXCEPT ![w] = arms] /\ UNCHANGED <<raw, staged, faults>> /\ ~failed
  BY <1>1, <1>5, <1>8, WorkerKeepsTypes DEF TypeOK
<1>9. CASE wk' = [wk EXCEPT ![w] = ends] /\ UNCHANGED <<raw, staged, faults>>
  <2>1. /\ {} \in SUBSET rest /\ wk[w].got = wk[w].got \cup {}
        /\ staged = staged \ {d \in Docs : Stage(d) \in {}}
        /\ raw = raw \ {d \in Docs : Blob(d) \in {}}
    OBVIOUS
  <2>2. TypeOK'
    BY <1>1, <1>7, <1>9, WorkerKeepsTypes DEF TypeOK
  <2> QED BY <1>1, <1>7, <1>9, <2>1, <2>2 DEF rest, held
<1>10. ASSUME NEW deleted \in SUBSET rest, Unlink(rest, deleted),
              wk' = [wk EXCEPT ![w] = fails(deleted)]
       PROVE  /\ TypeOK' /\ OnlyWorker(w) /\ KeepsParse(wk'[w], w) /\ KeepsCursor(wk'[w], w)
              /\ wk'[w].at = "after" /\ wk'[w].held = held
              /\ wk'[w].got = wk[w].got \cup deleted
              /\ staged' = staged \ {d \in Docs : Stage(d) \in deleted}
              /\ raw' = raw \ {d \in Docs : Blob(d) \in deleted}
  BY <1>1, <1>6, <1>10, WorkerKeepsTypes DEF TypeOK
<1> QED BY <1>1, <1>8, <1>9, <1>10 DEF rest, held

-----------------------------------------------------------------------------
(* The worker: the paid call of one document *)

\* A step of parseDocument for d that leaves the worker's hands alone.
AnswersFor(w, d, states) ==
  /\ OnlyWorker(w) /\ wk'[w].at = "parse" /\ wk[w].at = "parse"
  /\ KeepsCursor(wk'[w], w) /\ wk'[w].held = wk[w].held
  /\ \E state \in states : wk'[w].parse = [wk[w].parse EXCEPT ![d] = state]

LEMMA MarkStartedEffect ==
  ASSUME TypeOK, NEW w \in Worker, NEW d \in Docs, MarkStarted(w, d)
  PROVE  /\ TypeOK' /\ wk[w].parse[d] = "ready"
         /\ d \in run.scheduled /\ run.access[d] = "none"
         /\ wk'[w].got = wk[w].got /\ wk'[w].how = wk[w].how
         /\ KeepsLife(run') /\ KeepsBooks(run')
         /\ run'.scheduled = run.scheduled /\ run'.captured = run.captured
         /\ run'.confirmed = run.confirmed
         /\ \/ /\ run.lease = w
               /\ run'.access = [run.access EXCEPT ![d] = "open"]
               /\ \/ run'.watchdog = run.watchdog
                  \/ run'.watchdog = [run.watchdog EXCEPT ![d] = "provider_call_started"]
               /\ AnswersFor(w, d, {"dispatch", "delete"})
            \/ run' = run /\ AnswersFor(w, d, {"delete"})
         /\ UNCHANGED cl /\ SameWorld
<1> DEFINE row == [run EXCEPT !.access[d] = "open",
                     !.watchdog[d] = IF @ = "armed" THEN "provider_call_started" ELSE @]
<1>1. /\ Parsing(w, d, "ready") /\ d \in run.scheduled /\ run.access[d] = "none"
      /\ ParseWrite(w, d, row, "dispatch", "delete")
      /\ UNCHANGED cl /\ SameWorld
  BY DEF MarkStarted, SameWorld, world
<1>2. /\ row \in RunRow /\ KeepsLife(row) /\ KeepsBooks(row)
      /\ row.scheduled = run.scheduled /\ row.captured = run.captured
      /\ row.confirmed = run.confirmed
      /\ row.access = [run.access EXCEPT ![d] = "open"]
      /\ \/ row.watchdog = run.watchdog
         \/ row.watchdog = [run.watchdog EXCEPT ![d] = "provider_call_started"]
  BY DEF TypeOK, RunRow, KeepsLife, KeepsBooks
<1>3. /\ run \in RunRow /\ KeepsLife(run) /\ KeepsBooks(run)
  BY DEF TypeOK, KeepsLife, KeepsBooks
<1> HIDE DEF row
<1>4. "dispatch" \in ParseStates /\ "delete" \in ParseStates
  BY DEF ParseStates
<1>5. /\ faults' \in Nat /\ OnlyWorker(w) /\ wk'[w].at = wk[w].at
      /\ KeepsCursor(wk'[w], w) /\ KeepsHands(wk'[w], w) /\ wk'[w].how = wk[w].how
      /\ \/ /\ run.lease = w /\ run' = row
            /\ \/ wk'[w].parse = [wk[w].parse EXCEPT ![d] = "dispatch"]
               \/ wk'[w].parse = [wk[w].parse EXCEPT ![d] = "delete"]
         \/ run' = run /\ wk'[w].parse = [wk[w].parse EXCEPT ![d] = "delete"]
  BY <1>1, <1>4, ParseWriteEffect
<1>6. TypeOK'
  BY <1>1, <1>2, <1>3, <1>5, WorkerKeepsTypes, SameWorldTypes
<1>7. \/ run.lease = w /\ run' = row /\ AnswersFor(w, d, {"dispatch", "delete"})
      \/ run' = run /\ AnswersFor(w, d, {"delete"})
  BY <1>1, <1>5 DEF AnswersFor, Parsing, KeepsHands
<1> QED BY <1>1, <1>2, <1>3, <1>5, <1>6, <1>7 DEF Parsing, KeepsHands

LEMMA MarkStartedAccess ==
  ASSUME TypeOK, NEW w \in Worker, NEW d \in Docs, MarkStarted(w, d)
  PROVE  \/ run'.access = run.access /\ AnswersFor(w, d, {"delete"})
         \/ run.access[d] = "none" /\ run'.access = [run.access EXCEPT ![d] = "open"]
<1>1. run.access[d] = "none"
  BY MarkStartedEffect
<1>2. \/ run' = run /\ AnswersFor(w, d, {"delete"})
      \/ run'.access = [run.access EXCEPT ![d] = "open"]
  BY MarkStartedEffect
<1> QED BY <1>1, <1>2

LEMMA DispatchEffect ==
  ASSUME TypeOK, NEW w \in Worker, NEW d \in Docs, Dispatch(w, d)
  PROVE  /\ TypeOK' /\ wk[w].parse[d] = "dispatch" /\ AnswersFor(w, d, {"calling"})
         /\ wk'[w].got = wk[w].got /\ wk'[w].how = wk[w].how
         /\ calls' = [calls EXCEPT ![d] = @ + 1] /\ fetching' = fetching \cup {d}
         /\ UNCHANGED <<run, cl, raw, staged, watched>>
<1>1. /\ Parsing(w, d, "dispatch") /\ SetParse(w, d, "calling")
      /\ calls' = [calls EXCEPT ![d] = @ + 1] /\ fetching' = fetching \cup {d}
      /\ UNCHANGED <<run, cl, raw, staged, watched, faults>>
  BY DEF Dispatch
<1>2. /\ OnlyWorker(w) /\ wk'[w].at = wk[w].at
      /\ KeepsCursor(wk'[w], w) /\ KeepsHands(wk'[w], w) /\ wk'[w].how = wk[w].how
      /\ wk'[w].parse = [wk[w].parse EXCEPT ![d] = "calling"]
  BY <1>1, ParseMoves DEF ParseStates
<1>3. TypeOK'
  BY <1>1, <1>2, WorkerKeepsTypes DEF TypeOK
<1> QED BY <1>1, <1>2, <1>3 DEF Parsing, AnswersFor, KeepsHands

LEMMA AnsweredEffect ==
  ASSUME TypeOK, NEW w \in Worker, NEW d \in Docs, Answered(w, d)
  PROVE  /\ TypeOK' /\ wk[w].parse[d] = "calling" /\ wk'[w].got = wk[w].got
         /\ \/ AnswersFor(w, d, {"capture"}) /\ fetching' = fetching \ {d}
            \/ AnswersFor(w, d, {"failed"}) /\ UNCHANGED fetching
         /\ UNCHANGED <<run, cl, raw, staged, calls, watched>>
<1>1. /\ Parsing(w, d, "calling")
      /\ UNCHANGED <<run, cl, raw, staged, calls, watched, faults>>
      /\ \/ /\ \E how \in {"result", "terminal"} :
                 wk' = [wk EXCEPT ![w].parse[d] = "capture", ![w].how[d] = how]
            /\ fetching' = fetching \ {d}
         \/ SetParse(w, d, "failed") /\ UNCHANGED fetching
  BY DEF Answered
<1>2. ASSUME NEW how \in {"result", "terminal"},
             wk' = [wk EXCEPT ![w].parse[d] = "capture", ![w].how[d] = how]
      PROVE  AnswersFor(w, d, {"capture"}) /\ wk'[w].got = wk[w].got
  <2> DEFINE moved == [wk[w] EXCEPT !.parse = [@ EXCEPT ![d] = "capture"],
                                    !.how = [@ EXCEPT ![d] = how]]
  <2>1. /\ wk \in [Worker -> WorkerState] /\ wk[w] \in WorkerState /\ wk[w].at = "parse"
        /\ "capture" \in ParseStates /\ how \in CallEnds
    BY <1>1 DEF Parsing, TypeOK, ParseStates, CallEnds
  <2>2. wk' = [wk EXCEPT ![w] = moved]
    BY <1>2, <2>1 DEF WorkerState
  <2>3. /\ moved \in WorkerState /\ moved.at = wk[w].at
        /\ moved.doc = wk[w].doc /\ moved.first = wk[w].first
        /\ moved.held = wk[w].held /\ moved.got = wk[w].got
        /\ moved.parse = [wk[w].parse EXCEPT ![d] = "capture"]
    BY <2>1 DEF WorkerState
  <2> HIDE DEF moved
  <2>4. OnlyWorker(w) /\ wk'[w] = moved
    BY <2>1, <2>2, <2>3 DEF OnlyWorker
  <2> QED BY <2>1, <2>3, <2>4 DEF AnswersFor, KeepsCursor
<1>3. ASSUME SetParse(w, d, "failed")
      PROVE  AnswersFor(w, d, {"failed"}) /\ wk'[w].got = wk[w].got
  BY <1>1, <1>3, ParseMoves DEF Parsing, AnswersFor, ParseStates, KeepsHands
<1>4. /\ wk'[w].got = wk[w].got
      /\ \/ AnswersFor(w, d, {"capture"}) /\ fetching' = fetching \ {d}
         \/ AnswersFor(w, d, {"failed"}) /\ UNCHANGED fetching
  BY <1>1, <1>2, <1>3
<1>5. TypeOK'
  BY <1>1, <1>4, WorkerKeepsTypes DEF TypeOK, AnswersFor
<1> QED BY <1>1, <1>4, <1>5 DEF Parsing

LEMMA CaptureEffect ==
  ASSUME TypeOK, NEW w \in Worker, NEW d \in Docs, Capture(w, d)
  PROVE  /\ TypeOK' /\ wk[w].parse[d] = "capture"
         /\ wk'[w].got = wk[w].got /\ wk'[w].how = wk[w].how
         /\ KeepsLife(run') /\ run'.receipts = run.receipts
         /\ run'.scheduled = run.scheduled /\ run'.confirmed = run.confirmed
         /\ run'.access = run.access
         /\ \/ /\ run.lease = w /\ AnswersFor(w, d, {"delete", "failed"})
               /\ run'.captured = run.captured \cup {d}
               /\ run'.watchdog = [run.watchdog EXCEPT ![d] =
                     IF d \in run.confirmed THEN "cleanup_confirmed" ELSE "captured"]
               /\ run'.expected \in {run.expected, run.expected \cup {Parsed(d, w)}}
            \/ run' = run /\ AnswersFor(w, d, {"failed"})
         /\ UNCHANGED cl /\ SameWorld
<1> DEFINE status == IF d \in run.confirmed THEN "cleanup_confirmed" ELSE "captured"
           expected == IF wk[w].how[d] = "result" THEN run.expected \cup {Parsed(d, w)}
                                                  ELSE run.expected
           row == [run EXCEPT !.captured = @ \cup {d}, !.watchdog[d] = status,
                              !.expected = expected]
<1>1. /\ Parsing(w, d, "capture") /\ ParseWrite(w, d, row, "delete", "failed")
      /\ UNCHANGED cl /\ SameWorld
  BY DEF Capture, SameWorld, world
<1>9. expected \subseteq Resources /\ expected \in {run.expected, run.expected \cup {Parsed(d, w)}}
  BY ResourceTypes, RowType
<1>10. status \in {"captured", "cleanup_confirmed"}
       /\ status = IF d \in run.confirmed THEN "cleanup_confirmed" ELSE "captured"
  OBVIOUS
<1> HIDE DEF status, expected
<1>2. /\ row \in RunRow /\ KeepsLife(row) /\ row.receipts = run.receipts
      /\ row.scheduled = run.scheduled /\ row.confirmed = run.confirmed
      /\ row.access = run.access /\ row.captured = run.captured \cup {d}
      /\ row.watchdog = [run.watchdog EXCEPT ![d] = status]
      /\ row.expected = expected
  BY <1>9, <1>10 DEF TypeOK, RunRow, KeepsLife
<1>3. /\ run \in RunRow /\ KeepsLife(run)
  BY DEF TypeOK, KeepsLife
<1> HIDE DEF row
<1>4. "delete" \in ParseStates /\ "failed" \in ParseStates
  BY DEF ParseStates
<1>5. /\ faults' \in Nat /\ OnlyWorker(w) /\ wk'[w].at = wk[w].at
      /\ KeepsCursor(wk'[w], w) /\ KeepsHands(wk'[w], w) /\ wk'[w].how = wk[w].how
      /\ \/ /\ run.lease = w /\ run' = row
            /\ \/ wk'[w].parse = [wk[w].parse EXCEPT ![d] = "delete"]
               \/ wk'[w].parse = [wk[w].parse EXCEPT ![d] = "failed"]
         \/ run' = run /\ wk'[w].parse = [wk[w].parse EXCEPT ![d] = "failed"]
  BY <1>1, <1>4, ParseWriteEffect
<1>6. TypeOK'
  BY <1>1, <1>2, <1>3, <1>5, WorkerKeepsTypes, SameWorldTypes
<1>7. \/ run.lease = w /\ run' = row /\ AnswersFor(w, d, {"delete", "failed"})
      \/ run' = run /\ AnswersFor(w, d, {"failed"})
  BY <1>1, <1>5 DEF AnswersFor, Parsing, KeepsHands
<1> QED BY <1>1, <1>2, <1>3, <1>5, <1>6, <1>7, <1>9, <1>10 DEF Parsing, KeepsHands

LEMMA DeleteSourceEffect ==
  ASSUME TypeOK, NEW w \in Worker, NEW d \in Docs, DeleteSource(w, d)
  PROVE  /\ TypeOK' /\ wk[w].parse[d] = "delete" /\ AnswersFor(w, d, {"attempt"})
         /\ wk'[w].how = wk[w].how
         /\ \E deleted \in SUBSET Sources({d}) :
              /\ wk'[w].got = wk[w].got \cup deleted
              /\ staged' = staged \ {e \in Docs : Stage(e) \in deleted}
              /\ raw' = raw \ {e \in Docs : Blob(e) \in deleted}
         /\ UNCHANGED <<run, cl, fetching, calls, watched>>
<1>1. /\ Parsing(w, d, "delete") /\ UNCHANGED <<run, cl, fetching, calls, watched>>
      /\ \E deleted \in SUBSET Sources({d}) :
           /\ Unlink(Sources({d}), deleted)
           /\ wk' = [wk EXCEPT ![w].parse[d] = "attempt", ![w].got = @ \cup deleted]
  BY DEF DeleteSource
<1>2. PICK deleted \in SUBSET Sources({d}) :
           /\ Unlink(Sources({d}), deleted)
           /\ wk' = [wk EXCEPT ![w].parse[d] = "attempt", ![w].got = @ \cup deleted]
  BY <1>1
<1>3. /\ staged' = staged \ {e \in Docs : Stage(e) \in deleted}
      /\ raw' = raw \ {e \in Docs : Blob(e) \in deleted}
      /\ raw' \subseteq Uploads /\ staged' \subseteq Docs /\ faults' \in Nat
  BY <1>2, UnlinkEffect
<1>4. deleted \subseteq Resources
  BY ResourceTypes
<1> DEFINE local == [wk[w] EXCEPT !.parse[d] = "attempt", !.got = @ \cup deleted]
<1>7. /\ local \in WorkerState /\ local.at = wk[w].at /\ KeepsCursor(local, w)
      /\ local.held = wk[w].held /\ local.how = wk[w].how
      /\ local.got = wk[w].got \cup deleted
      /\ local.parse = [wk[w].parse EXCEPT ![d] = "attempt"]
  <2>1. wk[w].got \cup deleted \in SUBSET Resources /\ "attempt" \in ParseStates
    BY <1>4, LocalType DEF ParseStates
  <2> QED BY <2>1, LocalType DEF WorkerState, KeepsCursor
<1>8. wk' = [wk EXCEPT ![w] = local]
  BY <1>2 DEF TypeOK
<1> HIDE DEF local
<1>9. OnlyWorker(w) /\ wk'[w] = local
  BY <1>7, <1>8, WorkerMoves
<1>5. /\ AnswersFor(w, d, {"attempt"}) /\ wk'[w].got = wk[w].got \cup deleted
      /\ wk'[w].how = wk[w].how
  BY <1>1, <1>7, <1>9 DEF Parsing, AnswersFor, KeepsCursor
<1>6. TypeOK'
  BY <1>1, <1>3, <1>5, WorkerKeepsTypes DEF TypeOK, AnswersFor
<1> QED BY <1>1, <1>3, <1>5, <1>6 DEF Parsing

\* A row on which a cleanup attempt for d was merged with what the row had.
AttemptRow(row, d, receipts) ==
  /\ row \in RunRow /\ KeepsLife(row) /\ row.expected = run.expected
  /\ row.receipts = run.receipts \cup receipts
  /\ row.scheduled = run.scheduled /\ row.captured = run.captured
  /\ row.access = run.access
  /\ \E status \in {"cleanup_pending", "cleanup_confirmed", "cancelled"} :
       row.watchdog = [run.watchdog EXCEPT ![d] = status]

LEMMA AttemptedEffect ==
  ASSUME TypeOK, NEW d \in Docs, NEW receipts \in SUBSET Resources, NEW cancel \in BOOLEAN,
         NEW row, row = Attempted(run, d, receipts, cancel)
  PROVE  AttemptRow(row, d, receipts)
<1> DEFINE merged == run.receipts \cup receipts
           ok == run.status = "expired" \/ Sources({d}) \subseteq merged
           status == CASE ~ok -> "cleanup_pending"
                       [] ok /\ cancel -> "cancelled"
                       [] ok /\ ~cancel -> "cleanup_confirmed"
           confirmed == IF ok THEN run.confirmed \cup {d} ELSE run.confirmed
           watchdog == [run.watchdog EXCEPT ![d] = status]
<1>1. status \in {"cleanup_pending", "cleanup_confirmed", "cancelled"}
  OBVIOUS
<1>2. merged \in SUBSET Resources /\ confirmed \in SUBSET Docs
  BY RowType
<1>3. row = [run EXCEPT !.receipts = merged, !.confirmed = confirmed, !.watchdog[d] = status]
  BY DEF Attempted, TypeOK, RunRow
<1> HIDE DEF status, confirmed, merged
<1>4. watchdog \in [Docs -> {"none", "armed", "provider_call_started", "captured",
                             "cleanup_pending", "cleanup_confirmed", "cancelled"}]
  BY <1>1, RowType
<1>5. row = [run EXCEPT !.receipts = merged, !.confirmed = confirmed, !.watchdog = watchdog]
  BY <1>3 DEF TypeOK, RunRow
<1> HIDE DEF watchdog
<1>6. /\ row \in RunRow /\ KeepsLife(row) /\ row.expected = run.expected
      /\ row.receipts = merged
      /\ row.scheduled = run.scheduled /\ row.captured = run.captured
      /\ row.access = run.access
      /\ row.watchdog = watchdog
  <2>1. run \in RunRow /\ merged \in SUBSET Resources /\ confirmed \in SUBSET Docs
    BY <1>2 DEF TypeOK
  <2>2. row \in RunRow
    <3>1. row = [status |-> run.status, lease |-> run.lease, leaseTime |-> run.leaseTime,
                 clean |-> run.clean, after |-> run.after, expected |-> run.expected,
                 receipts |-> merged, watchdog |-> watchdog, scheduled |-> run.scheduled,
                 captured |-> run.captured, confirmed |-> confirmed, access |-> run.access]
      BY <1>5, <2>1 DEF RunRow
    <3> QED BY <1>4, <2>1, <3>1, RowType DEF RunRow
  <2> QED BY <1>5, <2>1, <2>2 DEF RunRow, KeepsLife
<1> QED BY <1>1, <1>6 DEF merged, watchdog, AttemptRow

LEMMA RecordAttemptEffect ==
  ASSUME TypeOK, NEW w \in Worker, NEW d \in Docs, RecordAttempt(w, d)
  PROVE  /\ TypeOK' /\ wk[w].parse[d] = "attempt"
         /\ AnswersFor(w, d, {"parsed", "kept", "failed"})
         /\ wk'[w].got = wk[w].got /\ wk'[w].how = wk[w].how
         /\ KeepsLife(run') /\ run'.expected = run.expected
         /\ run'.scheduled = run.scheduled /\ run'.captured = run.captured
         /\ run'.access = run.access
         /\ \/ run' = run
            \/ /\ run.lease = w
               /\ run'.receipts = run.receipts \cup (wk[w].got \cap Sources({d}))
               /\ \E status \in {"cleanup_pending", "cleanup_confirmed", "cancelled"} :
                    run'.watchdog = [run.watchdog EXCEPT ![d] = status]
         /\ UNCHANGED cl /\ SameWorld
<1> DEFINE row == Attempted(run, d, wk[w].got \cap Sources({d}), wk[w].how[d] = "unpaid")
           good == IF wk[w].how[d] = "result" THEN "parsed" ELSE "failed"
           bad == IF wk[w].how[d] = "result" THEN "kept" ELSE "failed"
<1>1. /\ Parsing(w, d, "attempt") /\ ParseWrite(w, d, row, good, bad)
      /\ UNCHANGED cl /\ SameWorld
  BY DEF RecordAttempt, SameWorld, world
<1>2. wk[w].got \cap Sources({d}) \in SUBSET Resources
  BY LocalType
<1>3. /\ row \in RunRow /\ KeepsLife(row) /\ row.expected = run.expected
      /\ row.receipts = run.receipts \cup (wk[w].got \cap Sources({d}))
      /\ row.scheduled = run.scheduled /\ row.captured = run.captured
      /\ row.access = run.access
      /\ \E status \in {"cleanup_pending", "cleanup_confirmed", "cancelled"} :
           row.watchdog = [run.watchdog EXCEPT ![d] = status]
  <2>1. AttemptRow(row, d, wk[w].got \cap Sources({d}))
    BY <1>2, AttemptedEffect
  <2> HIDE DEF row
  <2> QED BY <2>1 DEF AttemptRow
<1>4. /\ run \in RunRow /\ KeepsLife(run)
  BY DEF TypeOK, KeepsLife
<1>5. /\ good \in ParseStates /\ bad \in ParseStates
      /\ good \in {"parsed", "kept", "failed"} /\ bad \in {"parsed", "kept", "failed"}
  BY DEF ParseStates
<1> HIDE DEF row, good, bad
<1>6. /\ faults' \in Nat /\ OnlyWorker(w) /\ wk'[w].at = wk[w].at
      /\ KeepsCursor(wk'[w], w) /\ KeepsHands(wk'[w], w) /\ wk'[w].how = wk[w].how
      /\ \/ /\ run.lease = w /\ run' = row
            /\ \/ wk'[w].parse = [wk[w].parse EXCEPT ![d] = good]
               \/ wk'[w].parse = [wk[w].parse EXCEPT ![d] = bad]
         \/ run' = run /\ wk'[w].parse = [wk[w].parse EXCEPT ![d] = bad]
  BY <1>1, <1>5, ParseWriteEffect
<1>7. TypeOK'
  BY <1>1, <1>3, <1>4, <1>6, WorkerKeepsTypes, SameWorldTypes
<1>8. AnswersFor(w, d, {"parsed", "kept", "failed"})
  BY <1>1, <1>5, <1>6 DEF AnswersFor, Parsing, KeepsHands
<1> QED BY <1>1, <1>3, <1>4, <1>6, <1>7, <1>8 DEF Parsing, KeepsHands

-----------------------------------------------------------------------------
(* The worker: from the parsed documents to the result, and the catch clause *)

LEMMA AfterParseEffect ==
  ASSUME TypeOK, NEW w \in Worker, AfterParse(w)
  PROVE  /\ TypeOK' /\ OnlyWorker(w) /\ wk[w].at = "after" /\ run.lease = w
         /\ KeepsCursor(wk'[w], w) /\ KeepsHands(wk'[w], w) /\ KeepsParse(wk'[w], w)
         /\ \/ wk'[w].at = "recoverRead"
            \/ wk'[w].at = "purging" /\ \A d \in Docs : wk[w].parse[d] = "parsed"
         /\ KeepsLife(run') /\ KeepsWatch(run') /\ run'.expected = run.expected
         /\ run'.receipts = run.receipts \cup wk[w].got
         /\ UNCHANGED cl /\ SameWorld
<1> DEFINE row == [run EXCEPT !.receipts = @ \cup wk[w].got]
           good == \A d \in Docs : wk[w].parse[d] = "parsed" /\ Sources({d}) \subseteq row.receipts
           next == IF good THEN "purging" ELSE "recoverRead"
           local == [wk[w] EXCEPT !.at = next]
<1>1. wk[w].at = "after" /\ Guarded(w, row, local) /\ UNCHANGED cl /\ SameWorld
  BY DEF AfterParse, SameWorld, world
<1>2. \/ next = "recoverRead"
      \/ next = "purging" /\ \A d \in Docs : wk[w].parse[d] = "parsed"
  OBVIOUS
<1>3. /\ row \in RunRow /\ KeepsLife(row) /\ KeepsWatch(row) /\ row.expected = run.expected
      /\ row.receipts = run.receipts \cup wk[w].got
  BY LocalType DEF TypeOK, RunRow, KeepsLife, KeepsWatch
<1> HIDE DEF row, next
<1>4. /\ local \in WorkerState /\ local.at = next
      /\ KeepsCursor(local, w) /\ KeepsHands(local, w) /\ KeepsParse(local, w)
  BY <1>2, LocalGoes, StepNames
<1> HIDE DEF local
<1>5. /\ run.lease = w /\ run' = row /\ faults' \in Nat /\ OnlyWorker(w)
      /\ wk'[w].at = next \/ wk'[w].at = "recoverRead"
      /\ KeepsCursor(wk'[w], w) /\ KeepsHands(wk'[w], w) /\ KeepsParse(wk'[w], w)
  BY <1>1, <1>4, GuardedEffect DEF KeepsCursor, KeepsHands, KeepsParse
<1>6. TypeOK'
  BY <1>1, <1>3, <1>5, WorkerKeepsTypes, SameWorldTypes
<1> QED BY <1>1, <1>2, <1>3, <1>5, <1>6

LEMMA ManifestEffect ==
  ASSUME TypeOK, NEW w \in Worker, Manifest(w)
  PROVE  /\ TypeOK' /\ OnlyWorker(w) /\ wk[w].at = "manifest" /\ run.lease = w
         /\ KeepsCursor(wk'[w], w) /\ KeepsHands(wk'[w], w) /\ KeepsParse(wk'[w], w)
         /\ \/ wk'[w].at = "recoverRead"
            \/ wk'[w].at = "extracting" /\ Sources(Docs) \subseteq run.receipts
         /\ UNCHANGED <<run, cl>> /\ SameWorld
<1> DEFINE next == IF Sources(Docs) \subseteq run.receipts THEN "extracting" ELSE "recoverRead"
           local == [wk[w] EXCEPT !.at = next]
<1>1. wk[w].at = "manifest" /\ Guarded(w, run, local) /\ UNCHANGED cl /\ SameWorld
  BY DEF Manifest, SameWorld, world
<1>2. \/ next = "recoverRead"
      \/ next = "extracting" /\ Sources(Docs) \subseteq run.receipts
  OBVIOUS
<1> HIDE DEF next
<1>3. /\ local \in WorkerState /\ local.at = next
      /\ KeepsCursor(local, w) /\ KeepsHands(local, w) /\ KeepsParse(local, w)
  BY <1>2, LocalGoes, StepNames
<1> HIDE DEF local
<1>4. /\ run.lease = w /\ run' = run /\ faults' \in Nat /\ OnlyWorker(w)
      /\ wk'[w].at = next \/ wk'[w].at = "recoverRead"
      /\ KeepsCursor(wk'[w], w) /\ KeepsHands(wk'[w], w) /\ KeepsParse(wk'[w], w)
  BY <1>1, <1>3, GuardedEffect DEF KeepsCursor, KeepsHands, KeepsParse
<1>5. run' \in RunRow
  BY <1>4 DEF TypeOK
<1>6. TypeOK'
  BY <1>1, <1>4, <1>5, WorkerKeepsTypes, SameWorldTypes
<1> QED BY <1>1, <1>2, <1>4, <1>6

LEMMA ExtractEffect ==
  ASSUME TypeOK, NEW w \in Worker, Extract(w)
  PROVE  /\ TypeOK' /\ OnlyWorker(w) /\ wk[w].at = "model" /\ wk'[w].at = "reconciling"
         /\ KeepsCursor(wk'[w], w) /\ KeepsHands(wk'[w], w) /\ KeepsParse(wk'[w], w)
         /\ UNCHANGED <<run, cl>> /\ SameWorld
<1>1. /\ wk[w].at = "model" /\ Goto(w, "reconciling")
      /\ UNCHANGED <<run, cl, faults>> /\ SameWorld
  BY DEF Extract, SameWorld, world
<1>2. /\ OnlyWorker(w) /\ wk'[w].at = "reconciling"
      /\ KeepsCursor(wk'[w], w) /\ KeepsHands(wk'[w], w) /\ KeepsParse(wk'[w], w)
  BY <1>1, WorkerGoes, StepNames
<1>3. TypeOK'
  BY <1>1, <1>2, WorkerKeepsTypes, SameWorldTypes DEF TypeOK
<1> QED BY <1>1, <1>2, <1>3

LEMMA VerifyEffect ==
  ASSUME TypeOK, NEW w \in Worker, Verify(w)
  PROVE  /\ TypeOK' /\ OnlyWorker(w) /\ wk[w].at = "verify" /\ run.lease = w
         /\ KeepsCursor(wk'[w], w) /\ KeepsHands(wk'[w], w) /\ KeepsParse(wk'[w], w)
         /\ run'.receipts = run.receipts \cup wk[w].held
         /\ run'.status = run.status /\ run'.lease = run.lease
         /\ run'.leaseTime = run.leaseTime /\ run'.after = run.after
         /\ KeepsWatch(run') /\ run'.expected = run.expected
         /\ run'.clean = "yes" => Gate(run')
         /\ wk'[w].at \in {"publish", "pending", "recoverRead"}
         /\ wk'[w].at = "publish" => run'.clean = "yes"
         /\ UNCHANGED cl /\ SameWorld
<1> DEFINE held == [run EXCEPT !.receipts = @ \cup wk[w].held]
           clean == /\ Gate(held)
                    /\ \A d \in Docs : run.watchdog[d] # "none" =>
                         /\ d \in run.captured /\ d \in run.confirmed
                         /\ run.watchdog[d] = "cleanup_confirmed"
           sign == IF clean THEN "yes" ELSE "no"
           next == IF clean THEN "publish" ELSE "pending"
           row == [held EXCEPT !.clean = sign]
           local == [wk[w] EXCEPT !.at = next]
<1>1. wk[w].at = "verify" /\ Guarded(w, row, local) /\ UNCHANGED cl /\ SameWorld
  BY DEF Verify, SameWorld, world
<1>2. /\ held \in RunRow /\ KeepsLife(held) /\ KeepsWatch(held)
      /\ held.expected = run.expected /\ held.receipts = run.receipts \cup wk[w].held
  BY LocalType DEF TypeOK, RunRow, KeepsLife, KeepsWatch
<1>3. /\ sign \in {"yes", "no"} /\ next \in {"publish", "pending"}
      /\ sign = "yes" => Gate(held)
      /\ next = "publish" => sign = "yes"
  OBVIOUS
<1> HIDE DEF held, sign, next
<1>4. /\ row \in RunRow /\ row.clean = sign /\ row.receipts = held.receipts
      /\ row.status = run.status /\ row.lease = run.lease
      /\ row.leaseTime = run.leaseTime /\ row.after = run.after
      /\ KeepsWatch(row) /\ row.expected = held.expected
  BY <1>2, <1>3 DEF RunRow, KeepsLife, KeepsWatch
<1> HIDE DEF row
<1>5. row.clean = "yes" => Gate(row)
  BY <1>3, <1>4 DEF Gate
<1>6. /\ local \in WorkerState /\ local.at = next
      /\ KeepsCursor(local, w) /\ KeepsHands(local, w) /\ KeepsParse(local, w)
  BY <1>3, LocalGoes, StepNames
<1> HIDE DEF local
<1>7. /\ run.lease = w /\ run' = row /\ faults' \in Nat /\ OnlyWorker(w)
      /\ wk'[w].at = next \/ wk'[w].at = "recoverRead"
      /\ KeepsCursor(wk'[w], w) /\ KeepsHands(wk'[w], w) /\ KeepsParse(wk'[w], w)
  BY <1>1, <1>6, GuardedEffect DEF KeepsCursor, KeepsHands, KeepsParse
<1>8. TypeOK'
  BY <1>1, <1>4, <1>7, WorkerKeepsTypes, SameWorldTypes
<1> QED BY <1>1, <1>2, <1>3, <1>4, <1>5, <1>7, <1>8

LEMMA WithholdEffect ==
  ASSUME TypeOK, NEW w \in Worker, Withhold(w)
  PROVE  /\ TypeOK' /\ OnlyWorker(w) /\ wk[w].at = "pending" /\ run.lease = w
         /\ wk'[w].at = "recoverRead"
         /\ KeepsCursor(wk'[w], w) /\ KeepsHands(wk'[w], w) /\ KeepsParse(wk'[w], w)
         /\ run'.status = "cleanup_pending" /\ run'.lease = run.lease
         /\ run'.leaseTime = run.leaseTime /\ run'.clean = run.clean
         /\ KeepsBooks(run') /\ KeepsWatch(run')
         /\ UNCHANGED cl /\ SameWorld
<1> DEFINE row == [run EXCEPT !.status = "cleanup_pending", !.after = "failed"]
           local == [wk[w] EXCEPT !.at = "recoverRead"]
<1>1. wk[w].at = "pending" /\ Guarded(w, row, local) /\ UNCHANGED cl /\ SameWorld
  BY DEF Withhold, SameWorld, world
<1>2. /\ row \in RunRow /\ row.status = "cleanup_pending" /\ row.lease = run.lease
      /\ row.leaseTime = run.leaseTime /\ row.clean = run.clean
      /\ KeepsBooks(row) /\ KeepsWatch(row)
  BY StatusNames DEF TypeOK, RunRow, KeepsBooks, KeepsWatch
<1> HIDE DEF row
<1>3. /\ local \in WorkerState /\ local.at = "recoverRead"
      /\ KeepsCursor(local, w) /\ KeepsHands(local, w) /\ KeepsParse(local, w)
  BY LocalGoes, StepNames
<1> HIDE DEF local
<1>4. /\ run.lease = w /\ run' = row /\ faults' \in Nat /\ OnlyWorker(w)
      /\ wk'[w].at = "recoverRead"
      /\ KeepsCursor(wk'[w], w) /\ KeepsHands(wk'[w], w) /\ KeepsParse(wk'[w], w)
  BY <1>1, <1>3, GuardedEffect DEF KeepsCursor, KeepsHands, KeepsParse
<1>5. TypeOK'
  BY <1>1, <1>2, <1>4, WorkerKeepsTypes, SameWorldTypes
<1> QED BY <1>1, <1>2, <1>4, <1>5

LEMMA PublishEffect ==
  ASSUME TypeOK, NEW w \in Worker, Publish(w)
  PROVE  /\ TypeOK' /\ OnlyWorker(w) /\ wk[w].at = "publish" /\ run.lease = w
         /\ wk'[w].at \in {"over", "recoverRead"}
         /\ KeepsCursor(wk'[w], w) /\ KeepsHands(wk'[w], w) /\ KeepsParse(wk'[w], w)
         /\ run'.status \in ReleasedStatuses
         /\ CanTransition(run.status, run'.status, run.clean = "yes")
         /\ run'.lease = Nobody /\ run'.leaseTime = "none" /\ run'.clean = run.clean
         /\ KeepsBooks(run') /\ KeepsWatch(run')
         /\ UNCHANGED cl /\ SameWorld
<1> DEFINE row(outcome) == [run EXCEPT !.status = outcome, !.lease = Nobody,
                                       !.leaseTime = "none"]
           local == [wk[w] EXCEPT !.at = "over"]
<1>1. PICK outcome \in ReleasedStatuses :
        /\ CanTransition(run.status, outcome, run.clean = "yes")
        /\ Guarded(w, row(outcome), local)
  BY DEF Publish
<1>2. wk[w].at = "publish" /\ UNCHANGED cl /\ SameWorld
  BY DEF Publish, SameWorld, world
<1> DEFINE shown == row(outcome)
<1>3. outcome \in RunStatuses
  BY DEF RunStatuses
<1>4. /\ shown \in RunRow /\ shown.status = outcome /\ shown.lease = Nobody
      /\ shown.leaseTime = "none" /\ shown.clean = run.clean
      /\ KeepsBooks(shown) /\ KeepsWatch(shown)
  BY <1>3 DEF TypeOK, RunRow, KeepsBooks, KeepsWatch
<1>5. Guarded(w, shown, local)
  BY <1>1
<1>6. /\ local \in WorkerState /\ local.at = "over"
      /\ KeepsCursor(local, w) /\ KeepsHands(local, w) /\ KeepsParse(local, w)
  BY LocalGoes, StepNames
<1> HIDE DEF shown, row, local
<1>7. /\ run.lease = w /\ run' = shown /\ faults' \in Nat /\ OnlyWorker(w)
      /\ wk'[w].at \in {"over", "recoverRead"}
      /\ KeepsCursor(wk'[w], w) /\ KeepsHands(wk'[w], w) /\ KeepsParse(wk'[w], w)
  BY <1>5, <1>6, GuardedEffect DEF KeepsCursor, KeepsHands, KeepsParse
<1>8. TypeOK'
  BY <1>2, <1>4, <1>7, WorkerKeepsTypes, SameWorldTypes
<1> QED BY <1>1, <1>2, <1>4, <1>7, <1>8

LEMMA RecoverReadEffect ==
  ASSUME TypeOK, NEW w \in Worker, RecoverRead(w)
  PROVE  /\ TypeOK' /\ OnlyWorker(w) /\ wk[w].at = "recoverRead"
         /\ wk'[w].at = "recoverDelete"
         /\ wk'[w].got = {r \in (Sources(Docs) \cup wk[w].held) \ run.receipts : Authorized(r)}
         /\ KeepsCursor(wk'[w], w) /\ wk'[w].held = wk[w].held /\ KeepsParse(wk'[w], w)
         /\ UNCHANGED <<run, cl>> /\ SameWorld
<1> DEFINE got == {r \in (Sources(Docs) \cup wk[w].held) \ run.receipts : Authorized(r)}
           local == [wk[w] EXCEPT !.at = "recoverDelete", !.got = got]
<1>1. /\ wk[w].at = "recoverRead" /\ UNCHANGED <<run, cl, faults>> /\ SameWorld
      /\ wk' = [wk EXCEPT ![w].at = "recoverDelete", ![w].got = got]
  BY DEF RecoverRead, SameWorld, world
<1>2. got \subseteq Resources
  BY LocalType, ResourceTypes
<1> HIDE DEF got
<1>3. wk' = [wk EXCEPT ![w] = local]
  BY <1>1 DEF TypeOK
<1>4. /\ local \in WorkerState /\ local.at = "recoverDelete" /\ local.got = got
      /\ KeepsCursor(local, w) /\ local.held = wk[w].held /\ KeepsParse(local, w)
  BY <1>2, LocalType, StepNames DEF WorkerState, KeepsCursor, KeepsParse
<1> HIDE DEF local
<1>5. OnlyWorker(w) /\ wk'[w] = local
  BY <1>3, <1>4, WorkerMoves
<1>6. TypeOK'
  BY <1>1, <1>5, WorkerKeepsTypes, SameWorldTypes DEF TypeOK
<1> QED BY <1>1, <1>4, <1>5, <1>6 DEF got

LEMMA RecoverDeleteEffect ==
  ASSUME TypeOK, NEW w \in Worker, RecoverDelete(w)
  PROVE  /\ TypeOK' /\ OnlyWorker(w) /\ wk[w].at = "recoverDelete"
         /\ wk'[w].at = "recoverWrite"
         /\ KeepsCursor(wk'[w], w) /\ wk'[w].held = wk[w].held /\ KeepsParse(wk'[w], w)
         /\ \E deleted \in SUBSET (wk[w].got \ Memory(wk[w].got)) :
              /\ wk'[w].got = deleted \cup Memory(wk[w].got)
              /\ staged' = staged \ {d \in Docs : Stage(d) \in deleted}
              /\ raw' = raw \ {d \in Docs : Blob(d) \in deleted}
         /\ UNCHANGED <<run, cl, fetching, calls, watched>>
<1> DEFINE targets == wk[w].got \ Memory(wk[w].got)
<1>1. /\ wk[w].at = "recoverDelete" /\ UNCHANGED <<run, cl, fetching, calls, watched>>
      /\ \E deleted \in SUBSET targets :
           /\ Unlink(targets, deleted)
           /\ wk' = [wk EXCEPT ![w].at = "recoverWrite", ![w].got = deleted \cup Memory(@)]
  BY DEF RecoverDelete
<1>2. PICK deleted \in SUBSET targets :
           /\ Unlink(targets, deleted)
           /\ wk' = [wk EXCEPT ![w].at = "recoverWrite", ![w].got = deleted \cup Memory(@)]
  BY <1>1
<1>3. /\ staged' = staged \ {d \in Docs : Stage(d) \in deleted}
      /\ raw' = raw \ {d \in Docs : Blob(d) \in deleted}
      /\ raw' \subseteq Uploads /\ staged' \subseteq Docs /\ faults' \in Nat
  BY <1>2, UnlinkEffect
<1> DEFINE got == deleted \cup Memory(wk[w].got)
           local == [wk[w] EXCEPT !.at = "recoverWrite", !.got = got]
<1>4. got \subseteq Resources
  BY LocalType DEF Memory
<1>5. wk' = [wk EXCEPT ![w] = local]
  BY <1>2 DEF TypeOK
<1> HIDE DEF got
<1>6. /\ local \in WorkerState /\ local.at = "recoverWrite" /\ local.got = got
      /\ KeepsCursor(local, w) /\ local.held = wk[w].held /\ KeepsParse(local, w)
  BY <1>4, LocalType, StepNames DEF WorkerState, KeepsCursor, KeepsParse
<1> HIDE DEF local
<1>7. OnlyWorker(w) /\ wk'[w] = local
  BY <1>5, <1>6, WorkerMoves
<1>8. TypeOK'
  BY <1>1, <1>3, <1>7, WorkerKeepsTypes DEF TypeOK
<1> QED BY <1>1, <1>3, <1>6, <1>7, <1>8 DEF got

LEMMA RecoverWriteEffect ==
  ASSUME TypeOK, NEW w \in Worker, RecoverWrite(w)
  PROVE  /\ TypeOK' /\ OnlyWorker(w) /\ wk[w].at = "recoverWrite" /\ wk'[w].at = "over"
         /\ KeepsCursor(wk'[w], w) /\ KeepsHands(wk'[w], w) /\ KeepsParse(wk'[w], w)
         /\ UNCHANGED cl /\ SameWorld
         /\ \/ run.lease # w /\ run' = run
            \/ /\ run.lease = w /\ run'.lease = Nobody
               /\ run'.receipts = run.receipts \cup wk[w].got
               /\ run'.expected = run.expected /\ KeepsWatch(run')
               /\ \/ run'.status = "failed" /\ Gate(run') /\ run'.clean = "yes"
                  \/ run'.status = "cleanup_pending" /\ run'.clean = "no"
               /\ run'.leaseTime \in {run.leaseTime, "none"}
               /\ (\A d \in Docs : run.access[d] = "open" => d \in run.captured)
                    => run'.leaseTime = "none"
               /\ (\E d \in Docs : run.access[d] = "open" /\ d \notin run.captured)
                    => run'.leaseTime = run.leaseTime
<1> DEFINE held == [run EXCEPT !.receipts = @ \cup wk[w].got]
           open == \E d \in Docs : run.access[d] = "open" /\ d \notin run.captured
           status == IF Gate(held) THEN "failed" ELSE "cleanup_pending"
           after == IF Gate(held) THEN "none" ELSE "failed"
           clean == IF Gate(held) THEN "yes" ELSE "no"
           time == IF open THEN run.leaseTime ELSE "none"
           row == [held EXCEPT !.status = status, !.after = after, !.clean = clean,
                               !.lease = Nobody, !.leaseTime = time]
<1>1. /\ wk[w].at = "recoverWrite" /\ Goto(w, "over") /\ UNCHANGED <<cl, faults>>
      /\ SameWorld /\ run' = IF run.lease = w THEN row ELSE run
  <2>1. /\ wk[w].at = "recoverWrite" /\ Goto(w, "over") /\ UNCHANGED <<cl, faults>>
        /\ SameWorld
    BY DEF RecoverWrite, SameWorld, world
  <2>2. held.leaseTime = run.leaseTime
    BY DEF TypeOK, RunRow
  <2> QED BY <2>1, <2>2 DEF RecoverWrite, TypeOK, RunRow
<1>2. /\ held \in RunRow /\ KeepsWatch(held) /\ held.expected = run.expected
      /\ held.receipts = run.receipts \cup wk[w].got
  BY LocalType DEF TypeOK, RunRow, KeepsWatch
<1>3. /\ \/ Gate(held) /\ status = "failed" /\ clean = "yes"
         \/ status = "cleanup_pending" /\ clean = "no"
      /\ after \in {"none", "failed"} /\ time \in {run.leaseTime, "none"}
      /\ open => time = run.leaseTime
      /\ ~open => time = "none"
  OBVIOUS
<1>4. status \in RunStatuses /\ clean \in {"yes", "no"} /\ time \in {"none", "live", "elapsed"}
  BY <1>3, StatusNames, RowType
<1> HIDE DEF held, status, after, clean, time
<1>5. /\ row \in RunRow /\ row.status = status /\ row.lease = Nobody /\ row.clean = clean
      /\ row.leaseTime = time /\ KeepsWatch(row)
      /\ row.receipts = held.receipts /\ row.expected = held.expected
  BY <1>2, <1>3, <1>4 DEF RunRow, KeepsWatch
<1> HIDE DEF row
<1>6. Gate(held) => Gate(row)
  BY <1>5 DEF Gate
<1>7. /\ OnlyWorker(w) /\ wk'[w].at = "over"
      /\ KeepsCursor(wk'[w], w) /\ KeepsHands(wk'[w], w) /\ KeepsParse(wk'[w], w)
  BY <1>1, WorkerGoes, StepNames
<1>8. run' \in RunRow
  BY <1>1, <1>5 DEF TypeOK
<1>9. TypeOK'
  BY <1>1, <1>7, <1>8, WorkerKeepsTypes, SameWorldTypes DEF TypeOK
<1>10. CASE run.lease = w
  BY <1>1, <1>2, <1>3, <1>5, <1>6, <1>7, <1>9, <1>10
<1>11. CASE run.lease # w
  BY <1>1, <1>7, <1>9, <1>11
<1> QED BY <1>10, <1>11

-----------------------------------------------------------------------------
(* Cleaners and time *)

LEMMA CleanerKeepsTypes ==
  ASSUME TypeOK, NEW c \in Cleaner, OnlyCleaner(c), run' \in RunRow, UNCHANGED wk,
         raw' \subseteq Uploads, staged' \subseteq Docs, fetching' \subseteq Docs,
         calls' \in [Docs -> Nat], watched' \in [Docs -> Nat], faults' \in Nat
  PROVE  TypeOK'
BY DEF TypeOK, OnlyCleaner

LEMMA CleanerMoves ==
  ASSUME TypeOK, NEW c \in Cleaner, NEW local \in CleanerState, cl' = [cl EXCEPT ![c] = local]
  PROVE  OnlyCleaner(c) /\ cl'[c] = local
BY DEF TypeOK, OnlyCleaner

LEMMA CleanerType ==
  ASSUME TypeOK, NEW c \in Cleaner
  PROVE  /\ cl[c] \in CleanerState /\ cl[c].doc \in Docs /\ cl[c].set \subseteq Sources(Docs)
         /\ cl[c].quiet \in {"yes", "no"} /\ cl[c].goal \in {"failed", "expired"}
         /\ cl[c].at \in {"idle", "revoke", "revokeIf", "unlink", "attempt", "purge", "confirm"}
BY DEF TypeOK, CleanerState

LEMMA BeginEffect ==
  ASSUME TypeOK, NEW c \in Cleaner, NEW step \in {"revoke", "revokeIf"},
         NEW goal \in {"failed", "expired"}, Begin(c, step, goal)
  PROVE  /\ OnlyCleaner(c) /\ cl'[c].at = step
         /\ cl'[c].doc = cl[c].doc /\ cl'[c].set = cl[c].set /\ cl'[c].quiet = cl[c].quiet
<1> DEFINE local == [cl[c] EXCEPT !.at = step, !.goal = goal]
<1>1. cl' = [cl EXCEPT ![c] = local]
  BY DEF Begin, TypeOK
<1>2. /\ local \in CleanerState /\ local.at = step /\ local.doc = cl[c].doc
      /\ local.set = cl[c].set /\ local.quiet = cl[c].quiet
  BY CleanerType DEF CleanerState
<1> HIDE DEF local
<1> QED BY <1>1, <1>2, CleanerMoves

LEMMA StartEffect ==
  ASSUME TypeOK, NEW c \in Cleaner, Expire(c) \/ Sweep(c) \/ Retry(c)
  PROVE  /\ TypeOK' /\ OnlyCleaner(c) /\ cl[c].at = "idle" /\ cl'[c].at = "revoke"
         /\ cl'[c].set = cl[c].set /\ cl'[c].quiet = cl[c].quiet
         /\ UNCHANGED <<run, wk>> /\ SameWorld
<1>1. /\ cl[c].at = "idle" /\ UNCHANGED <<run, wk, faults>> /\ SameWorld
      /\ \E goal \in {"failed", "expired"} : Begin(c, "revoke", goal)
  BY RowType DEF Expire, Sweep, Retry, SameWorld, world
<1>2. /\ OnlyCleaner(c) /\ cl'[c].at = "revoke"
      /\ cl'[c].set = cl[c].set /\ cl'[c].quiet = cl[c].quiet
  BY <1>1, BeginEffect
<1>3. TypeOK'
  BY <1>1, <1>2, CleanerKeepsTypes, SameWorldTypes DEF TypeOK
<1> QED BY <1>1, <1>2, <1>3

LEMMA PollEffect ==
  ASSUME TypeOK, NEW c \in Cleaner, NEW d \in Docs, Poll(c, d)
  PROVE  /\ TypeOK' /\ OnlyCleaner(c) /\ cl[c].at = "idle" /\ watched[d] > 0
         /\ \/ cl'[c].at = "revokeIf" /\ cl'[c].set = cl[c].set
            \/ /\ cl'[c].at = "unlink" /\ cl'[c].doc = d /\ cl'[c].set = Sources({d})
               /\ d \in run.captured \/ run.access[d] = "over"
         /\ UNCHANGED <<run, wk>> /\ SameWorld
<1>1. /\ cl[c].at = "idle" /\ watched[d] > 0 /\ UNCHANGED <<run, wk, faults>> /\ SameWorld
      /\ \/ Begin(c, "revokeIf", "failed")
         \/ /\ d \in run.captured \/ run.access[d] = "over"
            /\ cl' = [cl EXCEPT ![c].at = "unlink", ![c].doc = d, ![c].set = Sources({d}),
                                ![c].cancel = IF d \in run.captured THEN "no" ELSE "yes"]
  BY DEF Poll, SameWorld, world
<1>2. CASE Begin(c, "revokeIf", "failed")
  <2>1. OnlyCleaner(c) /\ cl'[c].at = "revokeIf" /\ cl'[c].set = cl[c].set
    BY <1>2, BeginEffect
  <2>2. TypeOK'
    BY <1>1, <2>1, CleanerKeepsTypes, SameWorldTypes DEF TypeOK
  <2> QED BY <1>1, <2>1, <2>2
<1>3. CASE /\ d \in run.captured \/ run.access[d] = "over"
           /\ cl' = [cl EXCEPT ![c].at = "unlink", ![c].doc = d, ![c].set = Sources({d}),
                               ![c].cancel = IF d \in run.captured THEN "no" ELSE "yes"]
  <2> DEFINE cancel == IF d \in run.captured THEN "no" ELSE "yes"
             local == [cl[c] EXCEPT !.at = "unlink", !.doc = d, !.set = Sources({d}),
                                    !.cancel = cancel]
  <2>1. cl' = [cl EXCEPT ![c] = local]
    BY <1>3 DEF TypeOK
  <2>2. cancel \in {"yes", "no"} /\ Sources({d}) \subseteq Sources(Docs)
    BY ResourceTypes
  <2> HIDE DEF cancel
  <2>3. /\ local \in CleanerState /\ local.at = "unlink" /\ local.doc = d
        /\ local.set = Sources({d})
    BY <2>2, CleanerType DEF CleanerState
  <2> HIDE DEF local
  <2>4. OnlyCleaner(c) /\ cl'[c] = local
    BY <2>1, <2>3, CleanerMoves
  <2>5. TypeOK'
    BY <1>1, <2>4, CleanerKeepsTypes, SameWorldTypes DEF TypeOK
  <2> QED BY <1>1, <1>3, <2>3, <2>4, <2>5
<1> QED BY <1>1, <1>2, <1>3

LEMMA PurgeEffect ==
  ASSUME TypeOK, NEW c \in Cleaner, Purge(c)
  PROVE  /\ TypeOK' /\ OnlyCleaner(c) /\ cl'[c].quiet = cl[c].quiet
         /\ \/ cl[c].at = "unlink" /\ cl'[c].at = "attempt"
            \/ cl[c].at = "purge" /\ cl'[c].at = "confirm"
         /\ cl'[c].set \subseteq cl[c].set
         /\ staged' = staged \ {d \in Docs : Stage(d) \in cl'[c].set}
         /\ raw' = raw \ {d \in Docs : Blob(d) \in cl'[c].set}
         /\ UNCHANGED <<run, wk, fetching, calls, watched>>
<1>1. /\ cl[c].at \in {"unlink", "purge"} /\ UNCHANGED <<run, wk, fetching, calls, watched>>
      /\ \E deleted \in SUBSET cl[c].set :
           /\ Unlink(cl[c].set, deleted)
           /\ cl' = [cl EXCEPT ![c].set = deleted,
                       ![c].at = IF @ = "unlink" THEN "attempt" ELSE "confirm"]
  BY DEF Purge
<1>2. PICK deleted \in SUBSET cl[c].set :
           /\ Unlink(cl[c].set, deleted)
           /\ cl' = [cl EXCEPT ![c].set = deleted,
                       ![c].at = IF @ = "unlink" THEN "attempt" ELSE "confirm"]
  BY <1>1
<1>3. /\ staged' = staged \ {d \in Docs : Stage(d) \in deleted}
      /\ raw' = raw \ {d \in Docs : Blob(d) \in deleted}
      /\ raw' \subseteq Uploads /\ staged' \subseteq Docs /\ faults' \in Nat
  BY <1>2, UnlinkEffect
<1> DEFINE next == IF cl[c].at = "unlink" THEN "attempt" ELSE "confirm"
           local == [cl[c] EXCEPT !.set = deleted, !.at = next]
<1>4. cl' = [cl EXCEPT ![c] = local]
  BY <1>2 DEF TypeOK
<1>5. /\ next \in {"attempt", "confirm"}
      /\ \/ cl[c].at = "unlink" /\ next = "attempt"
         \/ cl[c].at = "purge" /\ next = "confirm"
  BY <1>1
<1> HIDE DEF next
<1>6. /\ local \in CleanerState /\ local.at = next /\ local.set = deleted
      /\ local.quiet = cl[c].quiet
  BY <1>5, CleanerType DEF CleanerState
<1> HIDE DEF local
<1>7. OnlyCleaner(c) /\ cl'[c] = local
  BY <1>4, <1>6, CleanerMoves
<1>8. TypeOK'
  BY <1>1, <1>3, <1>7, CleanerKeepsTypes DEF TypeOK
<1> QED BY <1>1, <1>3, <1>5, <1>6, <1>7, <1>8

LEMMA RecordPollEffect ==
  ASSUME TypeOK, NEW c \in Cleaner, RecordPoll(c)
  PROVE  /\ TypeOK' /\ OnlyCleaner(c) /\ cl[c].at = "attempt"
         /\ cl'[c].at \in {"revokeIf", "idle"} /\ cl'[c].set = {}
         /\ KeepsLife(run') /\ run'.expected = run.expected
         /\ run'.receipts = run.receipts \cup cl[c].set
         /\ run'.scheduled = run.scheduled /\ run'.captured = run.captured
         /\ run'.access = run.access
         /\ \E status \in {"cleanup_pending", "cleanup_confirmed", "cancelled"} :
              run'.watchdog = [run.watchdog EXCEPT ![cl[c].doc] = status]
         /\ UNCHANGED wk /\ SameWorld
<1> DEFINE row == Attempted(run, cl[c].doc, cl[c].set, cl[c].cancel = "yes")
           next == IF cl[c].doc \in row.confirmed /\ WorkerGone THEN "revokeIf" ELSE "idle"
           local == [cl[c] EXCEPT !.set = {}, !.cancel = "no", !.doc = 1, !.at = next,
                                  !.goal = "failed"]
<1>1. /\ cl[c].at = "attempt" /\ run' = row /\ UNCHANGED <<wk, faults>> /\ SameWorld
      /\ cl' = [cl EXCEPT ![c].set = {}, ![c].cancel = "no", ![c].doc = 1, ![c].at = next,
                          ![c].goal = "failed"]
  BY DEF RecordPoll, SameWorld, world
<1>2. cl[c].set \in SUBSET Resources /\ cl[c].doc \in Docs
  BY CleanerType, ResourceTypes
<1>3. AttemptRow(row, cl[c].doc, cl[c].set)
  BY <1>2, AttemptedEffect
<1>4. next \in {"revokeIf", "idle"}
  OBVIOUS
<1>5. cl' = [cl EXCEPT ![c] = local]
  BY <1>1 DEF TypeOK
<1> HIDE DEF row, next
<1>6. /\ local \in CleanerState /\ local.at = next /\ local.set = {}
  BY <1>4, CleanerType, DocsType DEF CleanerState
<1> HIDE DEF local
<1>7. OnlyCleaner(c) /\ cl'[c] = local
  BY <1>5, <1>6, CleanerMoves
<1>8. run' \in RunRow
  BY <1>1, <1>3 DEF AttemptRow
<1>9. TypeOK'
  BY <1>1, <1>7, <1>8, CleanerKeepsTypes, SameWorldTypes DEF TypeOK
<1>10. AttemptRow(run', cl[c].doc, cl[c].set)
  BY <1>1, <1>3
<1> QED BY <1>1, <1>4, <1>6, <1>7, <1>9, <1>10 DEF AttemptRow

LEMMA TerminalType ==
  ASSUME NEW x, NEW y
  PROVE  TerminalWinner(x, y) \in {"failed", "expired"}
BY DEF TerminalWinner

LEMMA RevokeEffect ==
  ASSUME TypeOK, NEW c \in Cleaner, Revoke(c)
  PROVE  /\ TypeOK' /\ OnlyCleaner(c) /\ cl[c].at \in {"revoke", "revokeIf"}
         /\ \/ run' = run /\ cl'[c].at = "idle"
            \/ /\ run.status # "expired"
               /\ run'.status = "cleanup_pending" /\ run'.clean = "no"
               /\ run'.lease = Nobody /\ run'.leaseTime = run.leaseTime
               /\ KeepsBooks(run') /\ KeepsWatch(run')
               /\ cl'[c].at = "purge"
               /\ cl'[c].quiet = "yes" <=> run.leaseTime # "live"
               /\ \A r \in cl'[c].set : r \in Sources(Docs) /\ Authorized(r)
         /\ UNCHANGED wk /\ SameWorld
<1> DEFINE goes == IF cl[c].at = "revokeIf" THEN WorkerGone ELSE run.status # "expired"
           targets == {r \in Sources(Docs) :
                         /\ Authorized(r)
                         /\ \/ r \notin run.receipts
                            \/ run.leaseTime # "live" /\ r.kind = "staged"}
           quiet == IF run.leaseTime # "live" THEN "yes" ELSE "no"
           winner == TerminalWinner(run.after, cl[c].goal)
           row == [run EXCEPT !.status = "cleanup_pending", !.clean = "no",
                              !.after = winner, !.lease = Nobody]
           takes == [cl[c] EXCEPT !.at = "purge", !.set = targets, !.quiet = quiet]
           leaves == [cl[c] EXCEPT !.at = "idle"]
<1>1. /\ cl[c].at \in {"revoke", "revokeIf"} /\ UNCHANGED <<wk, faults>> /\ SameWorld
      /\ \/ /\ goes /\ run' = row
            /\ cl' = [cl EXCEPT ![c].at = "purge", ![c].set = targets, ![c].quiet = quiet]
         \/ cl' = [cl EXCEPT ![c].at = "idle"] /\ run' = run
  BY DEF Revoke, SameWorld, world, TypeOK, RunRow
<1>2. CASE cl' = [cl EXCEPT ![c].at = "idle"] /\ run' = run
  <2>1. cl' = [cl EXCEPT ![c] = leaves]
    BY <1>2 DEF TypeOK
  <2>2. leaves \in CleanerState /\ leaves.at = "idle"
    BY CleanerType DEF CleanerState
  <2> HIDE DEF leaves
  <2>3. OnlyCleaner(c) /\ cl'[c].at = "idle"
    BY <2>1, <2>2, CleanerMoves
  <2>4. run' \in RunRow
    BY <1>2 DEF TypeOK
  <2>5. TypeOK'
    BY <1>1, <2>3, <2>4, CleanerKeepsTypes, SameWorldTypes DEF TypeOK
  <2> QED BY <1>1, <1>2, <2>3, <2>5
<1>3. CASE /\ goes /\ run' = row
           /\ cl' = [cl EXCEPT ![c].at = "purge", ![c].set = targets, ![c].quiet = quiet]
  <2>1. cl' = [cl EXCEPT ![c] = takes]
    BY <1>3 DEF TypeOK
  <2>2. run.status # "expired"
    BY <1>3 DEF WorkerGone, LeasedStatuses
  <2>3. /\ targets \subseteq Sources(Docs) /\ \A r \in targets : Authorized(r)
        /\ quiet \in {"yes", "no"} /\ (quiet = "yes" <=> run.leaseTime # "live")
    OBVIOUS
  <2>4. winner \in {"none", "failed", "expired"}
    BY TerminalType
  <2> HIDE DEF targets, quiet, winner
  <2>5. /\ row \in RunRow /\ row.status = "cleanup_pending" /\ row.clean = "no"
        /\ row.lease = Nobody /\ row.leaseTime = run.leaseTime
        /\ KeepsBooks(row) /\ KeepsWatch(row)
    BY <2>4, StatusNames DEF TypeOK, RunRow, KeepsBooks, KeepsWatch
  <2>6. /\ takes \in CleanerState /\ takes.at = "purge" /\ takes.set = targets
        /\ takes.quiet = quiet
    BY <2>3, CleanerType DEF CleanerState
  <2> HIDE DEF takes, row
  <2>7. OnlyCleaner(c) /\ cl'[c] = takes
    BY <2>1, <2>6, CleanerMoves
  <2>8. TypeOK'
    BY <1>1, <1>3, <2>5, <2>7, CleanerKeepsTypes, SameWorldTypes DEF TypeOK
  <2> QED BY <1>1, <1>3, <2>2, <2>3, <2>5, <2>6, <2>7, <2>8
<1> QED BY <1>1, <1>2, <1>3

\* The revoked worker of a cleanup counts as gone.
Quiet(c) == run.leaseTime = "none" \/ (run.leaseTime = "elapsed" /\ cl[c].quiet = "yes")

LEMMA ConfirmEffect ==
  ASSUME TypeOK, NEW c \in Cleaner, Confirm(c)
  PROVE  /\ TypeOK' /\ OnlyCleaner(c) /\ cl[c].at = "confirm" /\ cl'[c].at = "idle"
         /\ UNCHANGED wk /\ SameWorld
         /\ \/ run' = run
            \/ /\ run.status # "expired" /\ run'.lease = Nobody /\ KeepsWatch(run')
               /\ \/ /\ run'.status = "cleanup_pending" /\ run'.clean = "no"
                     /\ run'.leaseTime = run.leaseTime /\ run'.expected = run.expected
                     /\ \/ run'.receipts = run.receipts \cup cl[c].set
                        \/ /\ Quiet(c)
                           /\ run'.receipts = run.receipts \cup cl[c].set
                                                \cup Memory(run.expected)
                  \/ /\ Quiet(c) /\ run'.status \in {"failed", "expired"}
                     /\ run'.leaseTime = "none"
                     /\ \A r \in run.expected :
                          \/ r \in Memory(run.expected)
                          \/ r \in cl[c].set
                          \/ r \in run.receipts /\ r.kind # "staged"
                     /\ \/ run'.expected = {} /\ run'.receipts = {} /\ run'.status = "expired"
                        \/ /\ run'.expected = run.expected
                           /\ run'.receipts = run.receipts \cup cl[c].set
                                                \cup Memory(run.expected)
<1> DEFINE memory == run.receipts \cup cl[c].set \cup Memory(run.expected)
           receipts == IF Quiet(c) THEN memory ELSE run.receipts \cup cl[c].set
           durable == run.expected \ Memory(run.expected)
           confirmed == /\ Quiet(c) /\ durable # {}
                        /\ \A r \in durable :
                             r \in (IF r.kind = "staged" THEN cl[c].set ELSE receipts)
                        /\ run.expected \subseteq receipts
           winner == TerminalWinner(run.after, cl[c].goal)
           kept == IF winner = "expired" THEN {} ELSE receipts
           named == IF winner = "expired" THEN {} ELSE run.expected
           pending == [run EXCEPT !.status = "cleanup_pending", !.clean = "no",
                         !.after = winner, !.lease = Nobody, !.receipts = receipts]
           ended == [run EXCEPT !.status = winner, !.clean = "yes", !.after = "none",
                        !.lease = Nobody, !.leaseTime = "none", !.receipts = kept,
                        !.expected = named]
           local == [cl[c] EXCEPT !.at = "idle", !.set = {}, !.quiet = "no", !.goal = "failed"]
<1>1. /\ cl[c].at = "confirm" /\ UNCHANGED <<wk, faults>> /\ SameWorld
      /\ cl' = [cl EXCEPT ![c].at = "idle", ![c].set = {}, ![c].quiet = "no",
                          ![c].goal = "failed"]
  BY DEF Confirm, SameWorld, world
<1>2. \/ run' = run
      \/ run.status # "expired" /\ ~confirmed /\ run' = pending
      \/ run.status # "expired" /\ confirmed /\ run' = ended
  BY DEF Confirm, Quiet, TypeOK, RunRow
<1>3. /\ receipts \in SUBSET Resources /\ kept \in SUBSET Resources
      /\ named \in SUBSET Resources /\ winner \in {"failed", "expired"}
  BY RowType, CleanerType, ResourceTypes, TerminalType DEF Memory
<1>4. cl' = [cl EXCEPT ![c] = local]
  BY <1>1 DEF TypeOK
<1>5. local \in CleanerState /\ local.at = "idle"
  BY CleanerType DEF CleanerState
<1> HIDE DEF local
<1>6. OnlyCleaner(c) /\ cl'[c].at = "idle"
  BY <1>4, <1>5, CleanerMoves
<1>7. \/ Quiet(c) /\ receipts = memory
      \/ receipts = run.receipts \cup cl[c].set
  OBVIOUS
<1>8. confirmed =>
        /\ Quiet(c) /\ receipts = memory
        /\ \A r \in run.expected :
             \/ r \in Memory(run.expected)
             \/ r \in cl[c].set
             \/ r \in run.receipts /\ r.kind # "staged"
  <2> SUFFICES ASSUME confirmed, NEW r \in run.expected, r \notin Memory(run.expected),
                      r \notin cl[c].set
               PROVE  r \in run.receipts /\ r.kind # "staged"
    OBVIOUS
  <2>1. r \in (IF r.kind = "staged" THEN cl[c].set ELSE memory)
    OBVIOUS
  <2> QED BY <2>1
<1>9. \/ winner = "expired" /\ kept = {} /\ named = {}
      \/ kept = receipts /\ named = run.expected
  OBVIOUS
<1> HIDE DEF receipts, winner, kept, named, confirmed
<1>10. /\ pending \in RunRow /\ pending.lease = Nobody /\ KeepsWatch(pending)
       /\ pending.status = "cleanup_pending" /\ pending.clean = "no"
       /\ pending.leaseTime = run.leaseTime /\ pending.expected = run.expected
       /\ pending.receipts = receipts
  BY <1>3, StatusNames DEF TypeOK, RunRow, KeepsWatch
<1>11. /\ ended \in RunRow /\ ended.lease = Nobody /\ KeepsWatch(ended)
       /\ ended.status = winner /\ ended.leaseTime = "none"
       /\ ended.expected = named /\ ended.receipts = kept
  BY <1>3, StatusNames DEF TypeOK, RunRow, KeepsWatch
<1> HIDE DEF pending, ended
<1>12. run' \in RunRow
  BY <1>2, <1>10, <1>11 DEF TypeOK
<1>13. TypeOK'
  BY <1>1, <1>6, <1>12, CleanerKeepsTypes, SameWorldTypes DEF TypeOK
<1>14. CASE run' = run
  BY <1>1, <1>6, <1>13, <1>14
<1>15. CASE run.status # "expired" /\ run' = pending
  BY <1>1, <1>6, <1>7, <1>10, <1>13, <1>15
<1>16. CASE run.status # "expired" /\ confirmed /\ run' = ended
  BY <1>1, <1>3, <1>6, <1>8, <1>9, <1>11, <1>13, <1>16
<1> QED BY <1>2, <1>14, <1>15, <1>16

LEMMA CleanerDiesEffect ==
  ASSUME TypeOK, NEW c \in Cleaner, CleanerDies(c)
  PROVE  /\ TypeOK' /\ OnlyCleaner(c) /\ cl'[c].at = "idle"
         /\ UNCHANGED <<run, wk>> /\ SameWorld
<1> DEFINE local == [cl[c] EXCEPT !.at = "idle", !.set = {}, !.quiet = "no",
                                  !.cancel = "no", !.doc = 1, !.goal = "failed"]
<1>1. UNCHANGED <<run, wk>> /\ SameWorld /\ faults' \in Nat
  BY DEF CleanerDies, SameWorld, world, Fault, TypeOK
<1>5. cl' = [cl EXCEPT ![c] = local]
  BY DEF CleanerDies, TypeOK
<1>2. local \in CleanerState /\ local.at = "idle"
  BY CleanerType, DocsType DEF CleanerState
<1> HIDE DEF local
<1>3. OnlyCleaner(c) /\ cl'[c].at = "idle"
  BY <1>2, <1>5, CleanerMoves
<1>4. TypeOK'
  BY <1>1, <1>3, CleanerKeepsTypes, SameWorldTypes DEF TypeOK
<1> QED BY <1>1, <1>3, <1>4

LEMMA LeaseElapsesEffect ==
  ASSUME TypeOK, LeaseElapses
  PROVE  /\ TypeOK' /\ run.leaseTime = "live" /\ run'.leaseTime = "elapsed"
         /\ Zombies \/ \A w \in Worker : Running(w) => AwaitsProvider(w)
         /\ run'.status = run.status /\ run'.lease = run.lease /\ run'.clean = run.clean
         /\ run'.after = run.after /\ KeepsBooks(run') /\ KeepsWatch(run')
         /\ UNCHANGED <<wk, cl>> /\ SameWorld
<1>1. /\ run.leaseTime = "live" /\ run' = [run EXCEPT !.leaseTime = "elapsed"]
      /\ Zombies \/ \A w \in Worker : Running(w) => AwaitsProvider(w)
      /\ UNCHANGED <<wk, cl, faults>> /\ SameWorld
  BY DEF LeaseElapses, SameWorld, world
<1>2. /\ run' \in RunRow /\ run'.leaseTime = "elapsed"
      /\ run'.status = run.status /\ run'.lease = run.lease /\ run'.clean = run.clean
      /\ run'.after = run.after /\ KeepsBooks(run') /\ KeepsWatch(run')
  BY <1>1 DEF TypeOK, RunRow, KeepsBooks, KeepsWatch
<1>3. TypeOK'
  BY <1>1, <1>2 DEF TypeOK, SameWorld
<1> QED BY <1>1, <1>2, <1>3

LEMMA AccessEndsEffect ==
  ASSUME TypeOK, NEW d \in Docs, AccessEnds(d)
  PROVE  /\ TypeOK' /\ run.access[d] = "open"
         /\ \A w \in Worker : Running(w) => wk[w].parse[d] = "idle"
         /\ run'.access = [run.access EXCEPT ![d] = "over"]
         /\ KeepsLife(run') /\ KeepsBooks(run')
         /\ run'.watchdog = run.watchdog /\ run'.scheduled = run.scheduled
         /\ run'.captured = run.captured /\ run'.confirmed = run.confirmed
         /\ fetching' = fetching \ {d}
         /\ UNCHANGED <<wk, cl, raw, staged, calls, watched>>
<1>1. /\ run.access[d] = "open" /\ run' = [run EXCEPT !.access[d] = "over"]
      /\ \A w \in Worker : Running(w) => wk[w].parse[d] = "idle"
      /\ fetching' = fetching \ {d}
      /\ UNCHANGED <<wk, cl, raw, staged, calls, watched, faults>>
  BY DEF AccessEnds
<1>2. /\ run' \in RunRow /\ run'.access = [run.access EXCEPT ![d] = "over"]
      /\ KeepsLife(run') /\ KeepsBooks(run')
      /\ run'.watchdog = run.watchdog /\ run'.scheduled = run.scheduled
      /\ run'.captured = run.captured /\ run'.confirmed = run.confirmed
  BY <1>1 DEF TypeOK, RunRow, KeepsLife, KeepsBooks
<1>3. TypeOK'
  BY <1>1, <1>2 DEF TypeOK
<1> QED BY <1>1, <1>2, <1>3

-----------------------------------------------------------------------------
(* The steps taken together *)

LEMMA AnswersMore ==
  ASSUME NEW w, NEW d, NEW states, NEW more, states \subseteq more, AnswersFor(w, d, states)
  PROVE  AnswersFor(w, d, more)
BY DEF AnswersFor

\* A step of parseDocument moves one document, and never back to the start.
LEMMA ParseDocumentEffect ==
  ASSUME TypeOK, NEW w \in Worker, NEW d \in Docs,
         \/ MarkStarted(w, d) \/ Dispatch(w, d) \/ Answered(w, d) \/ Capture(w, d)
         \/ DeleteSource(w, d) \/ RecordAttempt(w, d)
  PROVE  /\ AnswersFor(w, d, ParseStates \ {"idle"})
         /\ wk[w].parse[d] \notin {"idle", "parsed", "kept", "failed"}
         /\ UNCHANGED <<cl, watched>>
<1> DEFINE more == ParseStates \ {"idle"}
<1>1. /\ {"dispatch", "delete"} \subseteq more /\ {"delete"} \subseteq more
      /\ {"calling"} \subseteq more /\ {"capture"} \subseteq more /\ {"failed"} \subseteq more
      /\ {"delete", "failed"} \subseteq more /\ {"attempt"} \subseteq more
      /\ {"parsed", "kept", "failed"} \subseteq more
  BY DEF ParseStates
<1> HIDE DEF more
<1>2. AnswersFor(w, d, more)
  <2>1. CASE MarkStarted(w, d)
    <3>1. AnswersFor(w, d, {"dispatch", "delete"}) \/ AnswersFor(w, d, {"delete"})
      BY <2>1, MarkStartedEffect
    <3> QED BY <1>1, <3>1, AnswersMore
  <2>2. CASE Dispatch(w, d)
    BY <1>1, <2>2, AnswersMore, DispatchEffect
  <2>3. CASE Answered(w, d)
    BY <1>1, <2>3, AnswersMore, AnsweredEffect
  <2>4. CASE Capture(w, d)
    <3>1. AnswersFor(w, d, {"delete", "failed"}) \/ AnswersFor(w, d, {"failed"})
      BY <2>4, CaptureEffect
    <3> QED BY <1>1, <3>1, AnswersMore
  <2>5. CASE DeleteSource(w, d)
    <3>1. AnswersFor(w, d, {"attempt"})
      BY <2>5, DeleteSourceEffect
    <3> QED BY <1>1, <3>1, AnswersMore
  <2>6. CASE RecordAttempt(w, d)
    <3>1. AnswersFor(w, d, {"parsed", "kept", "failed"})
      BY <2>6, RecordAttemptEffect
    <3> QED BY <1>1, <3>1, AnswersMore
  <2> QED BY <2>1, <2>2, <2>3, <2>4, <2>5, <2>6
<1>7. /\ wk[w].parse[d] \notin {"idle", "parsed", "kept", "failed"}
      /\ UNCHANGED <<cl, watched>>
  <2>1. CASE MarkStarted(w, d)
    BY <2>1, MarkStartedEffect DEF SameWorld
  <2>2. CASE Dispatch(w, d)
    BY <2>2, DispatchEffect DEF SameWorld
  <2>3. CASE Answered(w, d)
    BY <2>3, AnsweredEffect DEF SameWorld
  <2>4. CASE Capture(w, d)
    BY <2>4, CaptureEffect DEF SameWorld
  <2>5. CASE DeleteSource(w, d)
    BY <2>5, DeleteSourceEffect DEF SameWorld
  <2>6. CASE RecordAttempt(w, d)
    BY <2>6, RecordAttemptEffect DEF SameWorld
  <2> QED BY <2>1, <2>2, <2>3, <2>4, <2>5, <2>6
<1> QED BY <1>2, <1>7 DEF more

\* A cleaner never moves a worker.
LEMMA CleanerEffect ==
  ASSUME TypeOK, NEW c \in Cleaner,
         \/ Expire(c) \/ Sweep(c) \/ Retry(c) \/ Purge(c) \/ RecordPoll(c)
         \/ Revoke(c) \/ Confirm(c) \/ CleanerDies(c) \/ \E d \in Docs : Poll(c, d)
  PROVE  OnlyCleaner(c) /\ UNCHANGED <<wk, fetching, calls, watched>>
BY StartEffect, PurgeEffect, RecordPollEffect, RevokeEffect, ConfirmEffect, CleanerDiesEffect,
   PollEffect DEF SameWorld

LEMMA Steps ==
  ASSUME Next
  PROVE  \/ \E w \in Worker :
              \/ Claim(w) \/ Heartbeat(w) \/ EnterStage(w) \/ Read(w) \/ Put(w) \/ Fence(w)
              \/ Register(w) \/ Arm(w) \/ Schedule(w) \/ Record(w) \/ BatchEnds(w)
              \/ AfterParse(w) \/ Manifest(w) \/ Extract(w) \/ Verify(w) \/ Withhold(w)
              \/ Publish(w) \/ RecoverRead(w) \/ RecoverDelete(w) \/ RecoverWrite(w)
              \/ Fenced(w) \/ Throws(w) \/ Killed(w)
         \/ \E w \in Worker, d \in Docs :
              \/ MarkStarted(w, d) \/ Dispatch(w, d) \/ Answered(w, d) \/ Capture(w, d)
              \/ DeleteSource(w, d) \/ RecordAttempt(w, d)
         \/ \E c \in Cleaner :
              \/ Expire(c) \/ Sweep(c) \/ Retry(c) \/ Purge(c) \/ RecordPoll(c)
              \/ Revoke(c) \/ Confirm(c) \/ CleanerDies(c) \/ \E d \in Docs : Poll(c, d)
         \/ LeaseElapses
         \/ \E d \in Docs : AccessEnds(d) \/ SweepUpload(d)
BY DEF Next, WorkerStep, Load, Parse, ParseDocument, Finish, Recovery, CleanerStep, CleanStep, Time

LEMMA TypesInit ==
  ASSUME Init
  PROVE  TypeOK
<1>1. run \in RunRow
  BY StatusNames, ResourceTypes DEF Init, RunRow
<1>2. wk \in [Worker -> WorkerState]
  BY StepNames, DocsType DEF Init, WorkerState, ParseStates, CallEnds
<1>3. cl \in [Cleaner -> CleanerState]
  BY DocsType DEF Init, CleanerState
<1> QED BY <1>1, <1>2, <1>3 DEF Init, TypeOK

LEMMA TypesKept ==
  ASSUME TypeOK, [Next]_vars
  PROVE  TypeOK'
<1>1. CASE UNCHANGED vars
  BY <1>1 DEF TypeOK, vars, world
<1>2. CASE Next
  BY <1>2, Steps, ClaimEffect, HeartbeatEffect, EnterStageEffect, ReadEffect, PutEffect,
     FenceEffect, RegisterEffect, ArmEffect, ScheduleEffect, RecordEffect, BatchEndsEffect,
     AfterParseEffect, ManifestEffect, ExtractEffect, VerifyEffect, WithholdEffect,
     PublishEffect, RecoverReadEffect, RecoverDeleteEffect, RecoverWriteEffect, StopEffect,
     MarkStartedEffect, DispatchEffect, AnsweredEffect, CaptureEffect, DeleteSourceEffect,
     RecordAttemptEffect, StartEffect, PurgeEffect, RecordPollEffect, RevokeEffect,
     ConfirmEffect, CleanerDiesEffect, PollEffect, LeaseElapsesEffect, AccessEndsEffect,
     SweepUploadEffect
<1> QED BY <1>1, <1>2

\* Every variable of the run keeps its type, whoever writes the row: processRun,
\* cleanupRun and the watchdog share it.
THEOREM TypesCorrect == Spec => []TypeOK
<1>1. Init => TypeOK
  BY TypesInit
<1>2. TypeOK /\ [Next]_vars => TypeOK'
  BY TypesKept
<1> QED BY <1>1, <1>2, PTL DEF Spec

-----------------------------------------------------------------------------
(***************************************************************************)
(* Second part.                                                            *)
(*                                                                         *)
(* What holds of a run although workers may outlive their lease, calls may *)
(* be lost and cleaners may take the run at any moment: nothing is paid    *)
(* for or watched twice, a failure stops the batches to come, a released   *)
(* run had one reader, and a withdrawn run stays withdrawn.                *)
(*                                                                         *)
(* The argument is that arming the first watchdog seals the run:           *)
(* claimProcessing refuses a run with an armed watchdog, so from then on   *)
(* the worker that armed it is the only one that can ever hold the lease.  *)
(***************************************************************************)

LoadingSteps == {"staging", "read", "put", "fence", "indexing", "register", "parsing"}
BatchSteps == {"arm", "schedule", "record", "parse"}
AfterSteps == {"after", "purging", "manifest", "extracting", "model", "reconciling",
               "verifying", "verify", "pending", "publish"}

\* Some watchdog was armed, so that the run can never be claimed again.
Sealed == \E d \in Docs : run.watchdog[d] # "none"

\* The worker has begun to parse some document.
Marked(w) == \E d \in Docs : wk[w].parse[d] # "idle"

\* The worker has armed nothing yet, or has armed something.
Early(w) == wk[w].at \in LoadingSteps \/ (wk[w].at = "arm" /\ wk[w].doc = 1)
Engaged(w) == \/ wk[w].at \in {"schedule", "record", "parse"}
              \/ wk[w].at = "arm" /\ wk[w].doc > 1
              \/ Marked(w)

-----------------------------------------------------------------------------
(* The inductive invariant *)

\* Where a worker is in its batches: all before is parsed, all behind untouched.
BatchOK(w) ==
  /\ wk[w].at \in {"none"} \cup LoadingSteps => ~Marked(w)
  /\ wk[w].at = "parsing" => wk[w].first = 1
  /\ wk[w].at \in BatchSteps =>
       /\ \E k \in Nat : wk[w].first = k * Batch + 1
       /\ wk[w].first <= wk[w].doc /\ wk[w].doc <= Last(w)
       /\ \A d \in Docs : d < wk[w].first => wk[w].parse[d] = "parsed"
       /\ \A d \in Docs : d > Last(w) => wk[w].parse[d] = "idle"
  /\ wk[w].at \in {"arm", "schedule", "record"} =>
       \A d \in Docs : d >= wk[w].first => wk[w].parse[d] = "idle"
  /\ wk[w].at \in {"schedule", "parse"} => wk[w].doc = wk[w].first
  /\ wk[w].at = "parse" => \A d \in InBatch(w) : wk[w].parse[d] # "idle"
  /\ wk[w].at \in AfterSteps => Marked(w)
  /\ wk[w].at \in AfterSteps \ {"after"} => \A d \in Docs : wk[w].parse[d] = "parsed"

BatchInv == \A w \in Worker : BatchOK(w)

\* An engaged worker is the only one, and nobody else holds the lease.
SealInv ==
  /\ \A w \in Worker : Engaged(w) =>
       Sealed /\ \A v \in Worker : v # w => run.lease # v /\ ~Engaged(v)
  /\ \A w \in Worker : Early(w) /\ run.lease = w => ~Sealed
  /\ \A d \in Docs :
       watched[d] > 0 \/ calls[d] > 0 \/ run.access[d] # "none" \/ d \in run.scheduled => Sealed
  /\ \A c \in Cleaner : cl[c].at \in {"unlink", "attempt"} => Sealed

\* A worker's batch is unwatched until it is scheduled, and what follows it too.
WatchOK(w) ==
  Engaged(w) =>
    /\ wk[w].at \in {"arm", "schedule"} =>
         \A d \in Docs : d >= wk[w].first => watched[d] = 0
    /\ wk[w].at \in {"record", "parse"} => \A d \in Docs : d > Last(w) => watched[d] = 0
    /\ wk[w].at \in {"record", "parse"} => \A d \in InBatch(w) : watched[d] > 0

WatchInv ==
  /\ \A d \in Docs :
       /\ watched[d] <= 1
       /\ d \in run.scheduled => watched[d] > 0
       /\ run.access[d] # "none" => d \in run.scheduled
  /\ \A w \in Worker : WatchOK(w)

\* The document belongs to a batch after one in which the worker saw a failure.
Doomed(w, d) ==
  \E e \in Docs : /\ wk[w].parse[e] \in {"failed", "kept"}
                  /\ (e - 1) \div Batch < (d - 1) \div Batch

\* Nothing behind a worker's batch was ever paid for, nor behind a failed document.
CallOK(w) ==
  /\ \A d \in Docs :
       Parsing(w, d, "dispatch") => calls[d] = 0 /\ run.access[d] # "none"
  /\ Engaged(w) /\ wk[w].at \in BatchSteps => \A d \in Docs : d > Last(w) => calls[d] = 0
  /\ \A d \in Docs : Doomed(w, d) => calls[d] = 0

CallInv ==
  /\ \A d \in Docs : calls[d] <= 1 /\ (calls[d] > 0 => run.access[d] # "none")
  /\ \A w \in Worker : CallOK(w)

LeaseInv ==
  /\ run.status \in ReleasedStatuses => run.lease = Nobody
  /\ \A w \in Worker : run.lease = w =>
       wk[w].at # "none" /\ (wk[w].at \in WorkSteps => run.status \in LeasedStatuses)
  /\ run.status = "queued" =>
       run.lease = Nobody /\ run.leaseTime = "none" /\ \A w \in Worker : wk[w].at = "none"

\* A worker holds its own memory only, and the receipts it collects name sources.
ReaderOK(w) ==
  /\ \A r \in wk[w].held : r.by = w /\ r.kind \in {"text", "parsed"}
  /\ wk[w].at \in {"none"} \cup WorkSteps => wk[w].got \subseteq Sources(Docs)
  /\ \A r \in Memory(wk[w].got) : r.by = w

\* The worker is in a batch, and has armed a watchdog.
Busy(w) == wk[w].at \in BatchSteps /\ Engaged(w)

\* Until a run is withdrawn only a worker that has parsed receipts its memory; a
\* release gate that is open stays open, for nobody adds to what is expected.
GateOK ==
  /\ run.status \notin WithdrawnStatuses => \A r \in Memory(run.receipts) : Marked(r.by)
  /\ run.clean = "yes" /\ run.status \notin WithdrawnStatuses =>
       run.expected \subseteq run.receipts /\ Sealed /\ \A w \in Worker : ~Busy(w)
  /\ run.status \in ReleasedStatuses => run.clean = "yes"

ReaderInv == GateOK /\ \A w \in Worker : ReaderOK(w)

IInv == TypeOK /\ BatchInv /\ SealInv /\ WatchInv /\ CallInv /\ LeaseInv /\ ReaderInv

-----------------------------------------------------------------------------
(* What a step that moves one worker leaves true of the others *)

LEMMA OthersSame ==
  ASSUME TypeOK, NEW v \in Worker, wk'[v] = wk[v]
  PROVE  /\ Last(v)' = Last(v) /\ InBatch(v)' = InBatch(v)
         /\ Marked(v)' <=> Marked(v)
         /\ Early(v)' <=> Early(v)
         /\ Engaged(v)' <=> Engaged(v)
         /\ BatchOK(v)' <=> BatchOK(v)
<1>1. Last(v)' = Last(v) /\ InBatch(v)' = InBatch(v)
  BY DEF Last, InBatch
<1>2. Marked(v)' <=> Marked(v)
  BY DEF Marked
<1> QED BY <1>1, <1>2 DEF Early, Engaged, BatchOK

LEMMA SameFirst ==
  ASSUME TypeOK, NEW w \in Worker, wk'[w].first = wk[w].first
  PROVE  Last(w)' = Last(w) /\ InBatch(w)' = InBatch(w)
BY DEF Last, InBatch

LEMMA BatchType ==
  ASSUME TypeOK, NEW w \in Worker
  PROVE  /\ wk[w].first \in Nat /\ wk[w].doc \in Nat /\ Last(w) \in Nat
         /\ wk[w].first >= 1 /\ wk[w].doc >= 1 /\ Last(w) \in Docs
         /\ wk[w].first <= Last(w) /\ Last(w) <= N
         /\ Last(w) < N => Last(w) = wk[w].first + Batch - 1
         /\ Last(w) <= wk[w].first + Batch - 1
         /\ \A d \in Docs : d \in InBatch(w) <=> wk[w].first <= d /\ d <= Last(w)
         /\ InBatch(w) \subseteq Docs
<1>1. wk[w].first \in 1 .. N /\ wk[w].doc \in 1 .. N
  BY LocalType DEF Docs
<1>2. N \in Nat /\ Batch \in Nat /\ Batch >= 1
  BY ProcessingAssumption
<1>3. /\ Last(w) \in Nat /\ wk[w].first <= Last(w) /\ Last(w) <= N
      /\ Last(w) < N => Last(w) = wk[w].first + Batch - 1
      /\ Last(w) <= wk[w].first + Batch - 1
  BY <1>1, <1>2 DEF Last
<1> QED BY <1>1, <1>2, <1>3 DEF Docs, InBatch

LEMMA DocNumbers == N \in Nat /\ Batch \in Nat /\ Batch >= 1
                    /\ \A d \in Docs : d \in Nat /\ d >= 1 /\ d <= N
BY ProcessingAssumption DEF Docs

LEMMA SameParse ==
  ASSUME TypeOK, NEW w \in Worker, KeepsParse(wk'[w], w)
  PROVE  Marked(w)' <=> Marked(w)
BY DEF Marked, KeepsParse

LEMMA StepSets ==
  /\ GuardedSteps = {"staging", "indexing", "parsing", "purging", "extracting", "reconciling",
                     "verifying", "register", "arm", "record", "after", "manifest", "verify",
                     "pending", "publish"}
  /\ WorkSteps = GuardedSteps \cup {"read", "put", "fence", "schedule", "parse", "model"}
  /\ RunningSteps = WorkSteps \cup {"recoverRead", "recoverDelete", "recoverWrite"}
BY DEF RunningSteps, RecoverySteps, WorkSteps, GuardedSteps, LoadSteps, StageSteps

-----------------------------------------------------------------------------
(* Batches *)

LEMMA BatchesInit ==
  ASSUME Init
  PROVE  BatchInv
BY DEF Init, BatchInv, BatchOK, Marked, LoadingSteps, BatchSteps, AfterSteps

\* A worker off the batches owes nothing but what it says of marks.
LEMMA StoppedBatch ==
  ASSUME TypeOK, NEW w \in Worker,
         wk'[w].at \in {"recoverRead", "recoverDelete", "recoverWrite", "over", "dead"}
  PROVE  BatchOK(w)'
BY DEF BatchOK, LoadingSteps, BatchSteps, AfterSteps

LEMMA BatchFacts ==
  ASSUME NEW w \in Worker, BatchOK(w), wk[w].at \in BatchSteps
  PROVE  /\ wk[w].first <= wk[w].doc /\ wk[w].doc <= Last(w)
         /\ \A d \in Docs : d < wk[w].first => wk[w].parse[d] = "parsed"
         /\ \A d \in Docs : d > Last(w) => wk[w].parse[d] = "idle"
         /\ wk[w].at = "parse" => \A d \in InBatch(w) : wk[w].parse[d] # "idle"
BY DEF BatchOK

LEMMA LoadingBatch ==
  ASSUME TypeOK, NEW w \in Worker, KeepsParse(wk'[w], w), ~Marked(w),
         wk'[w].at \in LoadingSteps, wk'[w].at = "parsing" => wk'[w].first = 1
  PROVE  BatchOK(w)'
BY SameParse DEF BatchOK, LoadingSteps, BatchSteps, AfterSteps

LEMMA AfterBatch ==
  ASSUME TypeOK, NEW w \in Worker, KeepsParse(wk'[w], w),
         \A d \in Docs : wk[w].parse[d] = "parsed", wk'[w].at \in AfterSteps
  PROVE  BatchOK(w)'
<1>1. Marked(w)
  BY DocsType DEF Marked
<1>2. Marked(w)'
  BY <1>1, SameParse
<1> QED BY <1>2 DEF BatchOK, LoadingSteps, BatchSteps, AfterSteps, KeepsParse

LEMMA NextBatch ==
  ASSUME NEW k \in Nat, NEW first \in Nat, first = k * Batch + 1
  PROVE  \E j \in Nat : first + Batch = j * Batch + 1
<1>1. Batch \in Nat
  BY ProcessingAssumption
<1>2. first + Batch = (k + 1) * Batch + 1
  BY <1>1
<1>3. k + 1 \in Nat
  OBVIOUS
<1> QED BY <1>2, <1>3

LEMMA BatchesKept ==
  ASSUME TypeOK, BatchInv, Next
  PROVE  BatchInv'
<1> USE DEF BatchInv
<1>1. ASSUME NEW w \in Worker, OnlyWorker(w), BatchOK(w)'
      PROVE  BatchInv'
  BY <1>1, OthersSame DEF OnlyWorker
<1>2. ASSUME UNCHANGED wk
      PROVE  BatchInv'
  BY <1>2, OthersSame
<1>3. ASSUME NEW w \in Worker, Claim(w)
      PROVE  BatchInv'
  <2>1. ~Marked(w)
    BY <1>3, ClaimEffect DEF BatchOK
  <2>2. BatchOK(w)'
    BY <1>3, <2>1, ClaimEffect, LoadingBatch DEF LoadingSteps
  <2> QED BY <1>1, <1>3, <2>2, ClaimEffect
<1>4. ASSUME NEW w \in Worker, EnterStage(w)
      PROVE  BatchInv'
  <2> USE EnterStageEffect, <1>4
  <2>1. CASE wk'[w].at = "recoverRead"
    BY <1>1, <2>1, StoppedBatch
  <2>2. CASE wk[w].at \in {"staging", "indexing"} /\ wk'[w].at = Following(wk[w].at)
    <3>1. ~Marked(w) /\ wk'[w].at \in {"read", "register"}
      BY <2>2 DEF BatchOK, LoadingSteps, Following
    <3>2. BatchOK(w)'
      BY <3>1, LoadingBatch DEF LoadingSteps
    <3> QED BY <1>1, <3>2
  <2>3. CASE wk[w].at = "parsing" /\ wk'[w].at = Following(wk[w].at)
    <3>1. ~Marked(w) /\ wk[w].first = 1 /\ wk'[w].at = "arm"
      BY <2>3 DEF BatchOK, LoadingSteps, Following
    <3>2. /\ wk'[w].first = 1 /\ wk'[w].doc = 1 /\ Last(w) >= 1
          /\ \A d \in Docs : wk'[w].parse[d] = "idle"
      BY <3>1, LastType, DocsType DEF Marked, KeepsParse
    <3>3. 1 = 0 * Batch + 1
      BY ProcessingAssumption
    <3>4. Last(w)' = Last(w) /\ InBatch(w)' = InBatch(w)
      BY <3>1, <3>2, SameFirst
    <3>5. BatchOK(w)'
      BY <3>1, <3>2, <3>3, <3>4, BatchType, DocNumbers
      DEF BatchOK, LoadingSteps, BatchSteps, AfterSteps
    <3> QED BY <1>1, <3>5
  <2>4. CASE /\ wk[w].at \in {"purging", "extracting", "reconciling", "verifying"}
             /\ wk'[w].at = Following(wk[w].at)
    <3>1. /\ \A d \in Docs : wk[w].parse[d] = "parsed"
          /\ wk'[w].at \in AfterSteps
      BY <2>4 DEF BatchOK, AfterSteps, Following
    <3>2. BatchOK(w)'
      BY <3>1, AfterBatch
    <3> QED BY <1>1, <3>2
  <2> QED BY <2>1, <2>2, <2>3, <2>4, StagingNames
<1>5. ASSUME NEW w \in Worker, Fenced(w) \/ Throws(w) \/ Killed(w)
      PROVE  BatchInv'
  BY <1>1, <1>5, StopEffect, StoppedBatch
<1>6. ASSUME NEW w \in Worker, Read(w) \/ Put(w) \/ Fence(w)
      PROVE  BatchInv'
  <2>1. ~Marked(w)
    BY <1>6, ReadEffect, PutEffect, FenceEffect DEF BatchOK, LoadingSteps
  <2>2. /\ OnlyWorker(w) /\ KeepsParse(wk'[w], w)
        /\ wk'[w].at \in {"recoverRead", "read", "put", "fence", "indexing"}
    BY <1>6, ReadEffect, PutEffect, FenceEffect DEF Proceeds
  <2>3. BatchOK(w)'
    BY <2>1, <2>2, LoadingBatch, StoppedBatch DEF LoadingSteps
  <2> QED BY <1>1, <2>2, <2>3
<1>7. ASSUME NEW w \in Worker, Register(w)
      PROVE  BatchInv'
  <2>1. ~Marked(w)
    BY <1>7, RegisterEffect DEF BatchOK, LoadingSteps
  <2>2. BatchOK(w)'
    BY <1>7, <2>1, RegisterEffect, LoadingBatch, StoppedBatch DEF LoadingSteps
  <2> QED BY <1>1, <1>7, <2>2, RegisterEffect
<1>8. ASSUME NEW w \in Worker, Arm(w)
      PROVE  BatchInv'
  <2>0. /\ OnlyWorker(w) /\ wk[w].at = "arm" /\ BatchOK(w)
        /\ wk'[w].at = "recoverRead" \/ Advances(wk'[w], w, "schedule")
        /\ wk'[w].first = wk[w].first /\ KeepsParse(wk'[w], w)
    BY <1>8, ArmEffect
  <2>1. Last(w)' = Last(w) /\ InBatch(w)' = InBatch(w)
    BY <2>0, SameFirst
  <2>2. CASE wk'[w].at = "recoverRead"
    BY <1>1, <2>0, <2>2, StoppedBatch
  <2>3. CASE Advances(wk'[w], w, "schedule")
    <3>1. \/ /\ wk'[w].at = "arm" /\ wk[w].doc < Last(w) /\ wk'[w].doc = wk[w].doc + 1
          \/ wk'[w].at = "schedule" /\ wk'[w].doc = wk[w].first
      BY <2>0, <2>3 DEF Advances
    <3>2. wk[w].first <= wk'[w].doc /\ wk'[w].doc <= Last(w)
      BY <2>0, <3>1, BatchType, BatchFacts DEF BatchSteps
    <3>3. BatchOK(w)'
      BY <2>0, <2>1, <3>1, <3>2
      DEF BatchOK, LoadingSteps, BatchSteps, AfterSteps, KeepsParse
    <3> QED BY <1>1, <2>0, <3>3
  <2> QED BY <2>0, <2>2, <2>3
<1>9. ASSUME NEW w \in Worker, Schedule(w)
      PROVE  BatchInv'
  <2>1. Last(w)' = Last(w) /\ InBatch(w)' = InBatch(w)
    BY <1>9, ScheduleEffect, SameFirst DEF KeepsCursor
  <2>2. BatchOK(w)'
    BY <1>9, <2>1, ScheduleEffect, StoppedBatch
    DEF BatchOK, LoadingSteps, BatchSteps, AfterSteps, KeepsParse, KeepsCursor
  <2> QED BY <1>1, <1>9, <2>2, ScheduleEffect
<1>10. ASSUME NEW w \in Worker, Record(w)
       PROVE  BatchInv'
  <2> USE <1>10, RecordEffect
  <2>1. Last(w)' = Last(w) /\ InBatch(w)' = InBatch(w)
    BY SameFirst
  <2>2. CASE wk'[w].at = "recoverRead"
    BY <1>1, <2>2, StoppedBatch
  <2>3. CASE /\ wk'[w].at = "record" /\ wk'[w].parse = wk[w].parse
             /\ wk[w].doc < Last(w) /\ wk'[w].doc = wk[w].doc + 1
    <3>1. BatchOK(w)'
      BY <2>1, <2>3, BatchType, DocNumbers
      DEF BatchOK, LoadingSteps, BatchSteps, AfterSteps
    <3> QED BY <1>1, <3>1
  <2>4. CASE /\ wk'[w].at = "parse" /\ wk'[w].parse = Readied(w)
             /\ wk[w].doc >= Last(w) /\ wk'[w].doc = wk[w].first
    <3>1. /\ \A d \in Docs : d < wk[w].first => Readied(w)[d] = "parsed"
          /\ \A d \in Docs : d > Last(w) => Readied(w)[d] = "idle"
          /\ \A d \in InBatch(w) : Readied(w)[d] = "ready"
      <4>1. /\ \A d \in Docs : d < wk[w].first => wk[w].parse[d] = "parsed"
            /\ \A d \in Docs : d > Last(w) => wk[w].parse[d] = "idle"
        BY DEF BatchOK, BatchSteps
      <4> QED BY <4>1, BatchType, DocNumbers DEF Readied
    <3>2. BatchOK(w)'
      BY <2>1, <2>4, <3>1, BatchType
      DEF BatchOK, LoadingSteps, BatchSteps, AfterSteps
    <3> QED BY <1>1, <3>2
  <2> QED BY <2>2, <2>3, <2>4
<1>11. ASSUME NEW w \in Worker, BatchEnds(w)
       PROVE  BatchInv'
  <2> USE <1>11, BatchEndsEffect
  <2>1. CASE wk'[w].at = "after" /\ KeepsCursor(wk'[w], w)
    <3>1. wk[w].first \in InBatch(w) /\ wk[w].first \in Docs
      BY BatchType, LocalType
    <3>2. Marked(w)
      BY <3>1 DEF Marked, BatchOK
    <3>3. BatchOK(w)'
      BY <2>1, <3>2, SameParse DEF BatchOK, LoadingSteps, BatchSteps, AfterSteps
    <3> QED BY <1>1, <3>3
  <2>2. CASE /\ wk'[w].at = "arm" /\ Last(w) < N
             /\ wk'[w].first = Last(w) + 1 /\ wk'[w].doc = Last(w) + 1
             /\ \A d \in InBatch(w) : wk[w].parse[d] = "parsed"
    <3>1. Last(w) = wk[w].first + Batch - 1 /\ wk'[w].first = wk[w].first + Batch
      BY <2>2, BatchType, DocNumbers
    <3>2. \E k \in Nat : wk[w].first = k * Batch + 1
      BY DEF BatchOK, BatchSteps
    <3>3. \E k \in Nat : wk'[w].first = k * Batch + 1
      BY <3>1, <3>2, BatchType, NextBatch
    <3>4. wk'[w].first <= Last(w)' /\ Last(w)' \in Nat
      BY <3>1, <2>2, BatchType, DocNumbers DEF Last
    <3>5. /\ \A d \in Docs : d < wk'[w].first => wk'[w].parse[d] = "parsed"
          /\ \A d \in Docs : d >= wk'[w].first => wk'[w].parse[d] = "idle"
      <4>1. /\ \A d \in Docs : d < wk[w].first => wk[w].parse[d] = "parsed"
            /\ \A d \in Docs : d > Last(w) => wk[w].parse[d] = "idle"
        BY DEF BatchOK, BatchSteps
      <4>2. \A d \in Docs : d \in Nat /\ (d \in InBatch(w) <=> wk[w].first <= d /\ d <= Last(w))
        BY BatchType, DocNumbers
      <4>3. wk[w].first \in Nat /\ Last(w) \in Nat /\ wk'[w].first = Last(w) + 1
        BY <2>2, BatchType
      <4>4. ASSUME NEW d \in Docs, d < wk'[w].first
            PROVE  wk[w].parse[d] = "parsed"
        <5>1. d < wk[w].first \/ d \in InBatch(w)
          BY <4>2, <4>3, <4>4
        <5> QED BY <2>2, <4>1, <5>1
      <4>5. ASSUME NEW d \in Docs, d >= wk'[w].first
            PROVE  wk[w].parse[d] = "idle"
        <5>1. d > Last(w)
          BY <4>2, <4>3, <4>5
        <5> QED BY <4>1, <5>1
      <4> QED BY <4>4, <4>5 DEF KeepsParse
    <3>6. BatchOK(w)'
      BY <2>2, <3>1, <3>3, <3>4, <3>5, BatchType, DocNumbers
      DEF BatchOK, LoadingSteps, BatchSteps, AfterSteps
    <3> QED BY <1>1, <3>6
  <2> QED BY <2>1, <2>2
<1>12. ASSUME NEW w \in Worker, NEW d \in Docs, AnswersFor(w, d, ParseStates \ {"idle"}),
              wk[w].parse[d] \notin {"idle", "parsed"}
       PROVE  BatchInv'
  <2>1. Last(w)' = Last(w) /\ InBatch(w)' = InBatch(w)
    BY <1>12, SameFirst DEF AnswersFor, KeepsCursor
  <2>2. PICK state \in ParseStates \ {"idle"} : wk'[w].parse = [wk[w].parse EXCEPT ![d] = state]
    BY <1>12 DEF AnswersFor
  <2>3. wk[w].first <= d /\ d <= Last(w) /\ d \in Nat /\ Last(w) \in Nat /\ wk[w].first \in Nat
    BY <1>12, BatchType, DocNumbers DEF BatchOK, BatchSteps, AnswersFor
  <2>4. /\ \A e \in Docs : e # d => wk'[w].parse[e] = wk[w].parse[e]
        /\ wk'[w].parse[d] # "idle"
    BY <2>2, LocalType
  <2>5. wk[w].at = "parse" /\ wk'[w].at = "parse" /\ KeepsCursor(wk'[w], w)
    BY <1>12 DEF AnswersFor
  <2>6. BatchOK(w)'
    <3>1. /\ \A e \in Docs : e < wk[w].first => wk'[w].parse[e] = "parsed"
          /\ \A e \in Docs : e > Last(w) => wk'[w].parse[e] = "idle"
          /\ \A e \in InBatch(w) : wk'[w].parse[e] # "idle"
      BY <2>3, <2>4, <2>5, BatchType, BatchFacts, DocNumbers DEF BatchSteps
    <3> QED
      BY <2>1, <2>5, <3>1 DEF BatchOK, LoadingSteps, BatchSteps, AfterSteps, KeepsCursor
  <2> QED BY <1>1, <1>12, <2>6 DEF AnswersFor
<1>13. ASSUME NEW w \in Worker, NEW d \in Docs,
              \/ MarkStarted(w, d) \/ Dispatch(w, d) \/ Answered(w, d) \/ Capture(w, d)
              \/ DeleteSource(w, d) \/ RecordAttempt(w, d)
       PROVE  BatchInv'
  <2>1. /\ wk[w].parse[d] \notin {"idle", "parsed"}
        /\ AnswersFor(w, d, ParseStates \ {"idle"})
    BY <1>13, ParseDocumentEffect
  <2> QED BY <1>12, <2>1
<1>14. ASSUME NEW w \in Worker,
              AfterParse(w) \/ Manifest(w) \/ Extract(w) \/ Verify(w) \/ Withhold(w)
       PROVE  BatchInv'
  <2>1. /\ OnlyWorker(w) /\ KeepsParse(wk'[w], w)
        /\ \/ wk'[w].at = "recoverRead"
           \/ wk'[w].at \in AfterSteps /\ \A d \in Docs : wk[w].parse[d] = "parsed"
    BY <1>14, AfterParseEffect, ManifestEffect, ExtractEffect, VerifyEffect, WithholdEffect
    DEF BatchOK, AfterSteps
  <2> QED BY <1>1, <2>1, AfterBatch, StoppedBatch
<1>15. ASSUME NEW w \in Worker,
              Publish(w) \/ RecoverRead(w) \/ RecoverDelete(w) \/ RecoverWrite(w)
       PROVE  BatchInv'
  BY <1>1, <1>15, PublishEffect, RecoverReadEffect, RecoverDeleteEffect, RecoverWriteEffect,
     StoppedBatch
<1>16. ASSUME NEW c \in Cleaner,
              \/ Expire(c) \/ Sweep(c) \/ Retry(c) \/ Purge(c) \/ RecordPoll(c)
              \/ Revoke(c) \/ Confirm(c) \/ CleanerDies(c) \/ \E d \in Docs : Poll(c, d)
       PROVE  UNCHANGED wk
  BY <1>16, StartEffect, PurgeEffect, RecordPollEffect, RevokeEffect, ConfirmEffect,
     CleanerDiesEffect, PollEffect
<1>17. ASSUME LeaseElapses \/ (\E w \in Worker : Heartbeat(w))
              \/ \E d \in Docs : AccessEnds(d) \/ SweepUpload(d)
       PROVE  UNCHANGED wk
  BY <1>17, LeaseElapsesEffect, HeartbeatEffect, AccessEndsEffect, SweepUploadEffect
<1> QED
  BY Steps, <1>2, <1>3, <1>4, <1>5, <1>6, <1>7, <1>8, <1>9, <1>10, <1>11, <1>13, <1>14, <1>15,
     <1>16, <1>17

-----------------------------------------------------------------------------
(* The seal *)

LEMMA SealedSame ==
  ASSUME run'.watchdog = run.watchdog
  PROVE  Sealed' <=> Sealed
BY DEF Sealed

LEMMA SealedTouched ==
  ASSUME TypeOK, NEW d \in Docs, NEW status, status # "none",
         run'.watchdog = [run.watchdog EXCEPT ![d] = status]
  PROVE  Sealed'
<1>1. run.watchdog \in [Docs -> {"none", "armed", "provider_call_started", "captured",
                                 "cleanup_pending", "cleanup_confirmed", "cancelled"}]
  BY RowType
<1>2. run'.watchdog[d] = status
  BY <1>1
<1> QED BY <1>2 DEF Sealed

\* What parseDocument writes of a watchdog is never that it was not armed.
LEMMA DocumentSealed ==
  ASSUME TypeOK, NEW w \in Worker, NEW d \in Docs,
         \/ MarkStarted(w, d) \/ Dispatch(w, d) \/ Answered(w, d) \/ Capture(w, d)
         \/ DeleteSource(w, d) \/ RecordAttempt(w, d)
  PROVE  run'.watchdog = run.watchdog \/ Sealed'
<1>1. CASE Dispatch(w, d) \/ Answered(w, d) \/ DeleteSource(w, d)
  BY <1>1, DispatchEffect, AnsweredEffect, DeleteSourceEffect
<1>2. CASE MarkStarted(w, d)
  <2>1. \/ run'.watchdog = run.watchdog
        \/ run'.watchdog = [run.watchdog EXCEPT ![d] = "provider_call_started"]
    BY <1>2, MarkStartedEffect
  <2> QED BY <2>1, SealedTouched
<1>3. CASE Capture(w, d)
  <2> DEFINE status == IF d \in run.confirmed THEN "cleanup_confirmed" ELSE "captured"
  <2>1. run' = run \/ run'.watchdog = [run.watchdog EXCEPT ![d] = status]
    BY <1>3, CaptureEffect
  <2>2. status # "none"
    OBVIOUS
  <2> HIDE DEF status
  <2> QED BY <2>1, <2>2, SealedTouched
<1>4. CASE RecordAttempt(w, d)
  <2>1. \/ run' = run
        \/ \E status \in {"cleanup_pending", "cleanup_confirmed", "cancelled"} :
             run'.watchdog = [run.watchdog EXCEPT ![d] = status]
    BY <1>4, RecordAttemptEffect
  <2> QED BY <2>1, SealedTouched
<1> QED BY <1>1, <1>2, <1>3, <1>4

\* Of all that a worker does, only Claim makes it early and only Arm engages it.
LEMMA EngagedKept ==
  ASSUME TypeOK, NEW w \in Worker,
         \/ EnterStage(w) \/ Read(w) \/ Put(w) \/ Fence(w) \/ Register(w)
         \/ Schedule(w) \/ Record(w) \/ BatchEnds(w)
         \/ AfterParse(w) \/ Manifest(w) \/ Extract(w) \/ Verify(w) \/ Withhold(w)
         \/ Publish(w) \/ RecoverRead(w) \/ RecoverDelete(w) \/ RecoverWrite(w)
         \/ Fenced(w) \/ Throws(w) \/ Killed(w)
         \/ \E d \in Docs :
              \/ MarkStarted(w, d) \/ Dispatch(w, d) \/ Answered(w, d) \/ Capture(w, d)
              \/ DeleteSource(w, d) \/ RecordAttempt(w, d)
  PROVE  OnlyWorker(w) /\ (Engaged(w)' => Engaged(w)) /\ (Early(w)' => Early(w))
<1>1. ASSUME OnlyWorker(w), KeepsParse(wk'[w], w),
             wk'[w].at \notin {"arm", "schedule", "record", "parse"},
             wk'[w].at \in LoadingSteps => wk[w].at \in LoadingSteps
      PROVE  /\ OnlyWorker(w)
             /\ (Engaged(w)' => Engaged(w)) /\ (Early(w)' => Early(w))
  <2>1. Marked(w)' <=> Marked(w)
    BY <1>1, SameParse
  <2> QED BY <1>1, <2>1 DEF Engaged, Early
<1>2. ASSUME OnlyWorker(w), wk[w].at \in {"schedule", "record", "parse"},
             wk'[w].at \notin LoadingSteps, wk'[w].at = "arm" => wk'[w].doc # 1
      PROVE  /\ OnlyWorker(w)
             /\ (Engaged(w)' => Engaged(w)) /\ (Early(w)' => Early(w))
  BY <1>2 DEF Engaged, Early
<1>3. CASE EnterStage(w)
  <2>0. /\ OnlyWorker(w) /\ KeepsParse(wk'[w], w) /\ wk'[w].doc = 1
        /\ wk[w].at \in StageSteps
        /\ wk'[w].at = "recoverRead" \/ wk'[w].at = Following(wk[w].at)
    BY <1>3, EnterStageEffect
  <2>1. CASE wk'[w].at = "arm"
    <3>1. wk[w].at = "parsing"
      BY <2>0, <2>1, StagingNames DEF Following
    <3>2. Marked(w)' <=> Marked(w)
      BY <2>0, SameParse
    <3> QED BY <2>0, <2>1, <3>1, <3>2 DEF Engaged, Early, LoadingSteps
  <2>2. CASE wk'[w].at # "arm"
    <3>1. /\ wk'[w].at \notin {"arm", "schedule", "record", "parse"}
          /\ wk'[w].at \in LoadingSteps => wk[w].at \in LoadingSteps
      BY <2>0, <2>2, StagingNames DEF Following, LoadingSteps
    <3> QED BY <1>1, <2>0, <3>1
  <2> QED BY <2>1, <2>2
<1>4. CASE Read(w) \/ Put(w) \/ Fence(w)
  <2>1. /\ OnlyWorker(w) /\ KeepsParse(wk'[w], w) /\ wk[w].at \in LoadingSteps
        /\ wk'[w].at \in {"recoverRead", "read", "put", "fence", "indexing"}
    BY <1>4, ReadEffect, PutEffect, FenceEffect DEF Proceeds, LoadingSteps
  <2> QED BY <1>1, <2>1
<1>5. CASE Register(w)
  BY <1>1, <1>5, RegisterEffect DEF LoadingSteps
<1>6. CASE Schedule(w) \/ Record(w)
  BY <1>2, <1>6, ScheduleEffect, RecordEffect DEF LoadingSteps
<1>7. CASE BatchEnds(w)
  <2>1. /\ OnlyWorker(w) /\ wk[w].at = "parse"
        /\ wk'[w].at = "after" \/ (wk'[w].at = "arm" /\ wk'[w].doc = Last(w) + 1)
    BY <1>7, BatchEndsEffect
  <2>2. Last(w) + 1 # 1
    BY BatchType
  <2> QED BY <1>2, <2>1, <2>2 DEF LoadingSteps
<1>8. CASE AfterParse(w) \/ Manifest(w) \/ Extract(w) \/ Verify(w) \/ Withhold(w) \/ Publish(w)
  BY <1>1, <1>8, AfterParseEffect, ManifestEffect, ExtractEffect, VerifyEffect,
     WithholdEffect, PublishEffect DEF LoadingSteps
<1>9. CASE \/ RecoverRead(w) \/ RecoverDelete(w) \/ RecoverWrite(w)
           \/ Fenced(w) \/ Throws(w) \/ Killed(w)
  BY <1>1, <1>9, RecoverReadEffect, RecoverDeleteEffect, RecoverWriteEffect, StopEffect
  DEF LoadingSteps
<1>10. ASSUME NEW d \in Docs,
              \/ MarkStarted(w, d) \/ Dispatch(w, d) \/ Answered(w, d) \/ Capture(w, d)
              \/ DeleteSource(w, d) \/ RecordAttempt(w, d)
       PROVE  /\ OnlyWorker(w)
              /\ (Engaged(w)' => Engaged(w)) /\ (Early(w)' => Early(w))
  <2>1. OnlyWorker(w) /\ wk[w].at = "parse" /\ wk'[w].at = "parse"
    BY <1>10, ParseDocumentEffect DEF AnswersFor
  <2> QED BY <1>2, <2>1 DEF LoadingSteps
<1> QED BY <1>3, <1>4, <1>5, <1>6, <1>7, <1>8, <1>9, <1>10

\* What an unsealed run has nothing of.
Used(d) == watched[d] > 0 \/ calls[d] > 0 \/ run.access[d] # "none" \/ d \in run.scheduled

LEMMA UsedSame ==
  ASSUME UNCHANGED <<calls, watched>>, KeepsWatch(run'), NEW d \in Docs
  PROVE  Used(d)' <=> Used(d)
BY DEF Used, KeepsWatch

LEMMA SealKeeper ==
  ASSUME TypeOK, SealInv, Sealed' <=> Sealed, run'.lease \in {run.lease, Nobody},
         \A v \in Worker : (Engaged(v)' => Engaged(v)) /\ (Early(v)' => Early(v)),
         \A d \in Docs : Used(d)' => Used(d) \/ \E v \in Worker : Engaged(v),
         \A c \in Cleaner : cl'[c].at \in {"unlink", "attempt"} =>
                              cl[c].at \in {"unlink", "attempt"} \/ Sealed
  PROVE  SealInv'
<1>1. \A w \in Worker : Engaged(w)' =>
        Sealed' /\ \A v \in Worker : v # w => run'.lease # v /\ ~Engaged(v)'
  BY ProcessingAssumption DEF SealInv
<1>2. \A w \in Worker : Early(w)' /\ run'.lease = w => ~Sealed'
  BY ProcessingAssumption DEF SealInv
<1>3. \A d \in Docs : Used(d)' => Sealed'
  BY DEF SealInv, Used
<1>4. \A c \in Cleaner : cl'[c].at \in {"unlink", "attempt"} => Sealed'
  BY DEF SealInv
<1> HIDE DEF SealInv
<1> QED BY <1>1, <1>2, <1>3, <1>4 DEF SealInv, Used

LEMMA SealInit ==
  ASSUME Init
  PROVE  SealInv
BY DEF Init, SealInv, Sealed, Engaged, Early, Marked, LoadingSteps

LEMMA SealKept ==
  ASSUME TypeOK, BatchInv, SealInv, Next
  PROVE  SealInv'
<1>1. ASSUME NEW w \in Worker, OnlyWorker(w), UNCHANGED cl, run'.lease \in {run.lease, Nobody},
             (Engaged(w)' => Engaged(w)) /\ (Early(w)' => Early(w)), Sealed' <=> Sealed,
             \A d \in Docs : Used(d)' => Used(d) \/ Engaged(w)
      PROVE  SealInv'
  <2>1. \A v \in Worker : (Engaged(v)' => Engaged(v)) /\ (Early(v)' => Early(v))
    BY <1>1, OthersSame DEF OnlyWorker
  <2> QED BY <1>1, <2>1, SealKeeper
<1>2. ASSUME UNCHANGED wk, run'.lease \in {run.lease, Nobody}, Sealed' <=> Sealed,
             \A d \in Docs : Used(d)' => Used(d),
             \A c \in Cleaner : cl'[c].at \in {"unlink", "attempt"} =>
                                  cl[c].at \in {"unlink", "attempt"} \/ Sealed
      PROVE  SealInv'
  <2>1. \A v \in Worker : (Engaged(v)' => Engaged(v)) /\ (Early(v)' => Early(v))
    BY <1>2, OthersSame
  <2> QED BY <1>2, <2>1, SealKeeper
<1>3. ASSUME NEW w \in Worker, Claim(w)
      PROVE  SealInv'
  <2>1. /\ OnlyWorker(w) /\ wk[w].at = "none" /\ wk'[w].at = "staging"
        /\ KeepsParse(wk'[w], w) /\ run'.lease = w /\ KeepsWatch(run')
        /\ \A d \in Docs : run.watchdog[d] = "none"
        /\ UNCHANGED cl /\ SameWorld
    BY <1>3, ClaimEffect
  <2>2. ~Sealed /\ ~Sealed'
    BY <2>1 DEF Sealed, KeepsWatch
  <2>3. \A v \in Worker : ~Engaged(v)
    BY <2>2 DEF SealInv
  <2>4. ~Marked(w) /\ ~Marked(w)'
    BY <2>1, SameParse DEF BatchInv, BatchOK
  <2>5. \A v \in Worker : ~Engaged(v)'
    BY <2>1, <2>3, <2>4, OthersSame DEF OnlyWorker, Engaged
  <2>6. \A d \in Docs : ~Used(d)
    BY <2>2 DEF SealInv, Used
  <2>7. \A d \in Docs : ~Used(d)'
    BY <2>1, <2>6, UsedSame DEF SameWorld
  <2>8. \A c \in Cleaner : cl'[c].at \notin {"unlink", "attempt"}
    BY <2>1, <2>2 DEF SealInv
  <2> QED BY <2>2, <2>5, <2>7, <2>8 DEF SealInv, Used
<1>4. ASSUME NEW w \in Worker, Arm(w)
      PROVE  SealInv'
  <2>1. /\ OnlyWorker(w) /\ wk[w].at = "arm" /\ KeepsParse(wk'[w], w)
        /\ wk'[w].at = "recoverRead" \/ Advances(wk'[w], w, "schedule")
        /\ run.lease = w /\ run'.lease = w
        /\ run'.watchdog = [run.watchdog EXCEPT ![wk[w].doc] = "armed"]
        /\ run'.scheduled = run.scheduled /\ run'.access = run.access
        /\ UNCHANGED cl /\ SameWorld
    BY <1>4, ArmEffect DEF KeepsLife
  <2>2. Sealed'
    BY <2>1, LocalType, SealedTouched
  <2>3. \A v \in Worker : v # w => ~Engaged(v)
    BY <2>1 DEF SealInv
  <2>4. \A v \in Worker : v # w => ~Engaged(v)'
    BY <2>1, <2>3, OthersSame DEF OnlyWorker
  <2>5. ~Early(w)'
    BY <2>1, LocalType, DocNumbers DEF Early, Advances, LoadingSteps
  <2> QED BY <2>1, <2>2, <2>4, <2>5 DEF SealInv
<1>5. ASSUME NEW w \in Worker,
             \/ EnterStage(w) \/ Read(w) \/ Put(w) \/ Fence(w) \/ Register(w)
             \/ BatchEnds(w) \/ AfterParse(w) \/ Manifest(w) \/ Extract(w) \/ Verify(w)
             \/ Withhold(w) \/ Publish(w) \/ RecoverRead(w) \/ RecoverDelete(w)
             \/ RecoverWrite(w) \/ Fenced(w) \/ Throws(w) \/ Killed(w)
      PROVE  SealInv'
  <2>1. OnlyWorker(w) /\ (Engaged(w)' => Engaged(w)) /\ (Early(w)' => Early(w))
    BY <1>5, EngagedKept
  <2>2. /\ UNCHANGED <<cl, calls, watched>> /\ run'.lease \in {run.lease, Nobody}
        /\ KeepsWatch(run')
    BY <1>5, EnterStageEffect, ReadEffect, PutEffect, FenceEffect, RegisterEffect,
       BatchEndsEffect, AfterParseEffect, ManifestEffect, ExtractEffect, VerifyEffect,
       WithholdEffect, PublishEffect, RecoverReadEffect, RecoverDeleteEffect,
       RecoverWriteEffect, StopEffect DEF SameWorld, KeepsLife, KeepsWatch
  <2>3. Sealed' <=> Sealed
    BY <2>2, SealedSame DEF KeepsWatch
  <2> QED BY <1>1, <2>1, <2>2, <2>3, UsedSame
<1>6. ASSUME NEW w \in Worker, Schedule(w) \/ Record(w)
      PROVE  SealInv'
  <2>1. OnlyWorker(w) /\ (Engaged(w)' => Engaged(w)) /\ (Early(w)' => Early(w))
    BY <1>6, EngagedKept
  <2>2. /\ UNCHANGED cl /\ run'.lease \in {run.lease, Nobody}
        /\ run'.watchdog = run.watchdog /\ Engaged(w)
    BY <1>6, ScheduleEffect, RecordEffect DEF KeepsLife, Engaged
  <2>3. Sealed' <=> Sealed
    BY <2>2, SealedSame
  <2> QED BY <1>1, <2>1, <2>2, <2>3
<1>7. ASSUME NEW w \in Worker, NEW d \in Docs,
             \/ MarkStarted(w, d) \/ Dispatch(w, d) \/ Answered(w, d) \/ Capture(w, d)
             \/ DeleteSource(w, d) \/ RecordAttempt(w, d)
      PROVE  SealInv'
  <2>1. OnlyWorker(w) /\ (Engaged(w)' => Engaged(w)) /\ (Early(w)' => Early(w))
    BY <1>7, EngagedKept
  <2>2. /\ UNCHANGED cl /\ run'.lease \in {run.lease, Nobody} /\ Engaged(w)
    <3>1. UNCHANGED cl /\ wk[w].at = "parse"
      BY <1>7, ParseDocumentEffect DEF AnswersFor
    <3>2. run'.lease = run.lease
      BY <1>7, MarkStartedEffect, DispatchEffect, AnsweredEffect, CaptureEffect,
         DeleteSourceEffect, RecordAttemptEffect DEF KeepsLife
    <3> QED BY <3>1, <3>2 DEF Engaged
  <2>3. Sealed
    BY <2>2 DEF SealInv
  <2>4. Sealed'
    BY <1>7, <2>3, DocumentSealed, SealedSame
  <2> QED BY <1>1, <2>1, <2>2, <2>3, <2>4
<1>8. ASSUME NEW c \in Cleaner,
             \/ Expire(c) \/ Sweep(c) \/ Retry(c) \/ Purge(c) \/ Revoke(c) \/ Confirm(c)
             \/ CleanerDies(c)
      PROVE  SealInv'
  <2>1. UNCHANGED <<wk, calls, watched>> /\ OnlyCleaner(c)
    BY <1>8, CleanerEffect
  <2>2. /\ run'.lease \in {run.lease, Nobody} /\ KeepsWatch(run')
        /\ cl'[c].at \in {"unlink", "attempt"} => cl[c].at \in {"unlink", "attempt"}
    BY <1>8, StartEffect, PurgeEffect, RevokeEffect, ConfirmEffect, CleanerDiesEffect
    DEF KeepsWatch
  <2>3. Sealed' <=> Sealed
    BY <2>2, SealedSame DEF KeepsWatch
  <2>4. \A b \in Cleaner : cl'[b].at \in {"unlink", "attempt"} => cl[b].at \in {"unlink", "attempt"}
    BY <2>1, <2>2 DEF OnlyCleaner
  <2> QED BY <1>2, <2>1, <2>2, <2>3, <2>4, UsedSame
<1>9. ASSUME NEW c \in Cleaner, NEW d \in Docs, Poll(c, d)
      PROVE  SealInv'
  <2>1. /\ UNCHANGED <<run, wk, calls, watched>> /\ OnlyCleaner(c) /\ watched[d] > 0
    BY <1>9, PollEffect DEF SameWorld
  <2>2. Sealed
    BY <2>1 DEF SealInv
  <2>3. Sealed' <=> Sealed
    BY <2>1, SealedSame
  <2> QED BY <1>2, <2>1, <2>2, <2>3 DEF Used
<1>10. ASSUME NEW c \in Cleaner, RecordPoll(c)
       PROVE  SealInv'
  <2>1. /\ UNCHANGED wk /\ SameWorld /\ OnlyCleaner(c) /\ cl[c].at = "attempt"
        /\ cl'[c].at \notin {"unlink", "attempt"}
        /\ KeepsLife(run') /\ run'.scheduled = run.scheduled /\ run'.access = run.access
        /\ \E status \in {"cleanup_pending", "cleanup_confirmed", "cancelled"} :
             run'.watchdog = [run.watchdog EXCEPT ![cl[c].doc] = status]
    BY <1>10, RecordPollEffect
  <2>2. Sealed
    BY <2>1 DEF SealInv
  <2>3. Sealed'
    BY <2>1, CleanerType, SealedTouched
  <2>4. \A d \in Docs : Used(d)' => Used(d)
    BY <2>1 DEF Used, SameWorld
  <2> QED BY <1>2, <2>1, <2>2, <2>3, <2>4 DEF KeepsLife
<1>11. ASSUME \/ LeaseElapses \/ (\E w \in Worker : Heartbeat(w))
              \/ \E d \in Docs : SweepUpload(d)
       PROVE  SealInv'
  <2>1. /\ UNCHANGED <<wk, cl, calls, watched>> /\ run'.lease = run.lease /\ KeepsWatch(run')
    BY <1>11, LeaseElapsesEffect, HeartbeatEffect, SweepUploadEffect DEF SameWorld, KeepsWatch
  <2>2. Sealed' <=> Sealed
    BY <2>1, SealedSame DEF KeepsWatch
  <2> QED BY <1>2, <2>1, <2>2, UsedSame
<1>12. ASSUME NEW d \in Docs, AccessEnds(d)
       PROVE  SealInv'
  <2>1. /\ UNCHANGED <<wk, cl, calls, watched>> /\ KeepsLife(run')
        /\ run'.watchdog = run.watchdog /\ run'.scheduled = run.scheduled
        /\ run.access[d] = "open" /\ run'.access = [run.access EXCEPT ![d] = "over"]
    BY <1>12, AccessEndsEffect
  <2>2. Sealed' <=> Sealed
    BY <2>1, SealedSame
  <2>3. \A e \in Docs : Used(e)' => Used(e)
    BY <2>1, RowType DEF Used
  <2> QED BY <1>2, <2>1, <2>2, <2>3 DEF KeepsLife
<1> QED
  BY Steps, <1>3, <1>4, <1>5, <1>6, <1>7, <1>8, <1>9, <1>10, <1>11, <1>12

-----------------------------------------------------------------------------
(* Watchdog Workflows and paid calls *)

LEMMA WatchesInit ==
  ASSUME Init
  PROVE  WatchInv
BY DEF Init, WatchInv, WatchOK, Engaged, Marked

LEMMA WatchKeeper ==
  ASSUME TypeOK, WatchInv, UNCHANGED watched, run'.scheduled = run.scheduled,
         \A d \in Docs : run'.access[d] # "none" => d \in run.scheduled,
         \A v \in Worker : WatchOK(v)'
  PROVE  WatchInv'
BY DEF WatchInv

LEMMA WatchOthers ==
  ASSUME TypeOK, WatchInv, NEW v \in Worker, wk'[v] = wk[v], UNCHANGED watched
  PROVE  WatchOK(v)'
<1>1. WatchOK(v)
  BY DEF WatchInv
<1> QED BY <1>1, OthersSame DEF WatchOK

LEMMA WatchesKept ==
  ASSUME TypeOK, BatchInv, SealInv, WatchInv, Next
  PROVE  WatchInv'
<1>1. ASSUME UNCHANGED <<wk, watched>>, run'.scheduled = run.scheduled,
             \A d \in Docs : run'.access[d] # "none" => run.access[d] # "none"
      PROVE  WatchInv'
  <2>1. \A v \in Worker : WatchOK(v)'
    BY <1>1, WatchOthers
  <2>2. \A d \in Docs : run'.access[d] # "none" => d \in run.scheduled
    BY <1>1 DEF WatchInv
  <2> QED BY <1>1, <2>1, <2>2, WatchKeeper
<1>2. ASSUME NEW w \in Worker, OnlyWorker(w), UNCHANGED watched,
             run'.scheduled = run.scheduled, run'.access = run.access, WatchOK(w)'
      PROVE  WatchInv'
  <2>1. \A v \in Worker : WatchOK(v)'
    BY <1>2, WatchOthers DEF OnlyWorker
  <2>2. \A d \in Docs : run'.access[d] # "none" => d \in run.scheduled
    BY <1>2 DEF WatchInv
  <2> QED BY <1>2, <2>1, <2>2, WatchKeeper
<1>3. ASSUME NEW w \in Worker,
             \/ Claim(w) \/ Read(w) \/ Put(w) \/ Fence(w) \/ Register(w)
             \/ AfterParse(w) \/ Manifest(w) \/ Extract(w) \/ Verify(w) \/ Withhold(w)
             \/ Publish(w) \/ RecoverRead(w) \/ RecoverDelete(w) \/ RecoverWrite(w)
             \/ Fenced(w) \/ Throws(w) \/ Killed(w)
      PROVE  WatchInv'
  <2>1. /\ OnlyWorker(w) /\ UNCHANGED watched /\ KeepsWatch(run')
        /\ wk'[w].at \notin {"arm", "schedule", "record", "parse"}
    BY <1>3, ClaimEffect, ReadEffect, PutEffect, FenceEffect, RegisterEffect, AfterParseEffect,
       ManifestEffect, ExtractEffect, VerifyEffect, WithholdEffect, PublishEffect,
       RecoverReadEffect, RecoverDeleteEffect, RecoverWriteEffect, StopEffect
    DEF SameWorld, KeepsWatch, Proceeds
  <2> QED BY <1>2, <2>1 DEF WatchOK, KeepsWatch
<1>4. ASSUME NEW w \in Worker, EnterStage(w)
      PROVE  WatchInv'
  <2>1. /\ OnlyWorker(w) /\ UNCHANGED watched /\ KeepsWatch(run') /\ KeepsParse(wk'[w], w)
        /\ wk'[w].at \notin {"schedule", "record", "parse"} /\ wk'[w].doc = 1
        /\ wk'[w].at = "arm" => wk[w].at = "parsing"
    BY <1>4, EnterStageEffect, StagingNames DEF SameWorld, Following
  <2>2. wk'[w].at = "arm" => ~Engaged(w)'
    <3>1. wk'[w].at = "arm" => ~Marked(w)
      BY <2>1 DEF BatchInv, BatchOK, LoadingSteps
    <3> QED BY <2>1, <3>1, SameParse DEF Engaged
  <2> QED BY <1>2, <2>1, <2>2 DEF WatchOK, KeepsWatch
<1>5. ASSUME NEW w \in Worker, Arm(w)
      PROVE  WatchInv'
  <2>1. /\ OnlyWorker(w) /\ wk[w].at = "arm" /\ run.lease = w
        /\ wk'[w].at = "recoverRead" \/ Advances(wk'[w], w, "schedule")
        /\ wk'[w].first = wk[w].first
        /\ run'.scheduled = run.scheduled /\ run'.access = run.access /\ UNCHANGED watched
    BY <1>5, ArmEffect DEF SameWorld
  <2>2. \A d \in Docs : d >= wk[w].first => watched[d] = 0
    <3>1. CASE wk[w].doc = 1
      <4>1. ~Sealed
        BY <2>1, <3>1 DEF SealInv, Early
      <4> QED BY <4>1 DEF SealInv, TypeOK
    <3>2. CASE wk[w].doc > 1
      BY <2>1, <3>2 DEF WatchInv, WatchOK, Engaged
    <3> QED BY <3>1, <3>2, BatchType
  <2>3. wk'[w].at \in {"arm", "schedule", "recoverRead"}
    BY <2>1 DEF Advances
  <2>4. WatchOK(w)'
    BY <2>1, <2>2, <2>3 DEF WatchOK
  <2> QED BY <1>2, <2>1, <2>4
<1>6. ASSUME NEW w \in Worker, Schedule(w)
      PROVE  WatchInv'
  <2>1. /\ OnlyWorker(w) /\ wk[w].at = "schedule" /\ KeepsCursor(wk'[w], w) /\ UNCHANGED run
        /\ \/ /\ \A d \in Docs : watched'[d] = watched[d] + (IF d \in InBatch(w) THEN 1 ELSE 0)
              /\ wk'[w].at \in {"record", "recoverRead"}
           \/ UNCHANGED watched /\ wk'[w].at = "recoverRead"
    BY <1>6, ScheduleEffect
  <2>2. CASE UNCHANGED watched /\ wk'[w].at = "recoverRead"
    BY <1>2, <2>1, <2>2 DEF WatchOK
  <2>3. CASE /\ \A d \in Docs : watched'[d] = watched[d] + (IF d \in InBatch(w) THEN 1 ELSE 0)
             /\ wk'[w].at \in {"record", "recoverRead"}
    <3>1. Engaged(w) /\ \A v \in Worker : v # w => ~Engaged(v)
      BY <2>1 DEF Engaged, SealInv
    <3>2. \A d \in Docs : d >= wk[w].first => watched[d] = 0
      BY <2>1, <3>1 DEF WatchInv, WatchOK
    <3>3. Last(w)' = Last(w) /\ InBatch(w)' = InBatch(w)
      BY <2>1, SameFirst DEF KeepsCursor
    <3>4. /\ \A d \in Docs : watched'[d] \in Nat /\ watched[d] \in Nat /\ watched'[d] >= watched[d]
          /\ \A d \in Docs : watched'[d] <= 1
          /\ \A d \in Docs : d > Last(w) => watched'[d] = 0
          /\ \A d \in InBatch(w) : watched'[d] > 0
      <4>1. \A d \in Docs : watched[d] \in Nat /\ watched[d] <= 1
        BY DEF TypeOK, WatchInv
      <4>2. \A d \in Docs : /\ d \in InBatch(w) <=> wk[w].first <= d /\ d <= Last(w)
                            /\ d > Last(w) => d >= wk[w].first
        BY BatchType, DocNumbers
      <4>3. InBatch(w) \subseteq Docs /\ \A d \in Docs : d \in Nat
        BY BatchType, DocNumbers
      <4>4. \A d \in InBatch(w) : watched[d] = 0
        BY <3>2, <4>2, <4>3, BatchType
      <4>5. \A d \in Docs : d > Last(w) => watched[d] = 0 /\ d \notin InBatch(w)
        BY <3>2, <4>2, <4>3, BatchType
      <4> QED BY <2>3, <4>1, <4>3, <4>4, <4>5
    <3>5. WatchOK(w)'
      BY <2>3, <3>3, <3>4 DEF WatchOK
    <3>6. \A v \in Worker : v # w => WatchOK(v)'
      BY <2>1, <3>1, OthersSame DEF OnlyWorker, WatchOK
    <3>7. \A d \in Docs : /\ d \in run'.scheduled => watched'[d] > 0
                          /\ run'.access[d] # "none" => d \in run'.scheduled
      BY <2>1, <3>4 DEF WatchInv
    <3> QED BY <3>4, <3>5, <3>6, <3>7 DEF WatchInv
  <2> QED BY <2>1, <2>2, <2>3
<1>7. ASSUME NEW w \in Worker, Record(w)
      PROVE  WatchInv'
  <2>1. /\ OnlyWorker(w) /\ wk[w].at = "record" /\ wk'[w].first = wk[w].first
        /\ wk'[w].at \in {"record", "parse", "recoverRead"}
        /\ run'.scheduled = run.scheduled \cup {wk[w].doc} /\ run'.access = run.access
        /\ UNCHANGED watched
    BY <1>7, RecordEffect DEF SameWorld
  <2>2. Engaged(w) /\ WatchOK(w) /\ BatchOK(w)
    BY <2>1 DEF Engaged, WatchInv, BatchInv
  <2>3. watched[wk[w].doc] > 0
    BY <2>1, <2>2, BatchFacts, BatchType, LocalType DEF WatchOK, BatchSteps
  <2>4. Last(w)' = Last(w) /\ InBatch(w)' = InBatch(w)
    BY <2>1, SameFirst
  <2>5. WatchOK(w)'
    BY <2>1, <2>2, <2>4 DEF WatchOK
  <2>6. \A v \in Worker : WatchOK(v)'
    BY <2>1, <2>5, WatchOthers DEF OnlyWorker
  <2> QED BY <2>1, <2>3, <2>6 DEF WatchInv
<1>8. ASSUME NEW w \in Worker, BatchEnds(w)
      PROVE  WatchInv'
  <2>1. /\ OnlyWorker(w) /\ wk[w].at = "parse" /\ UNCHANGED <<run, watched>>
        /\ \/ wk'[w].at = "after"
           \/ wk'[w].at = "arm" /\ wk'[w].first = Last(w) + 1
    BY <1>8, BatchEndsEffect
  <2>2. \A d \in Docs : d > Last(w) => watched[d] = 0
    BY <2>1 DEF WatchInv, WatchOK, Engaged
  <2>3. \A d \in Docs : d >= Last(w) + 1 => watched[d] = 0
    BY <2>2, BatchType, DocNumbers
  <2>4. WatchOK(w)'
    BY <2>1, <2>3 DEF WatchOK
  <2> QED BY <1>2, <2>1, <2>4
<1>9. ASSUME NEW w \in Worker, NEW d \in Docs,
             \/ MarkStarted(w, d) \/ Dispatch(w, d) \/ Answered(w, d) \/ Capture(w, d)
             \/ DeleteSource(w, d) \/ RecordAttempt(w, d)
      PROVE  WatchInv'
  <2>1. /\ OnlyWorker(w) /\ wk[w].at = "parse" /\ wk'[w].at = "parse"
        /\ wk'[w].first = wk[w].first /\ UNCHANGED watched
    BY <1>9, ParseDocumentEffect DEF AnswersFor, KeepsCursor
  <2>2. /\ run'.scheduled = run.scheduled
        /\ \/ run'.access = run.access
           \/ d \in run.scheduled /\ run'.access = [run.access EXCEPT ![d] = "open"]
    BY <1>9, MarkStartedEffect, DispatchEffect, AnsweredEffect, CaptureEffect,
       DeleteSourceEffect, RecordAttemptEffect
  <2>3. Last(w)' = Last(w) /\ InBatch(w)' = InBatch(w)
    BY <2>1, SameFirst
  <2>4. WatchOK(w)'
    <3>1. WatchOK(w) /\ Engaged(w)
      BY <2>1 DEF WatchInv, Engaged
    <3> QED BY <2>1, <2>3, <3>1 DEF WatchOK
  <2>5. \A v \in Worker : WatchOK(v)'
    BY <2>1, <2>4, WatchOthers DEF OnlyWorker
  <2>6. \A e \in Docs : run'.access[e] # "none" => e \in run.scheduled
    BY <2>2, RowType DEF WatchInv
  <2> QED BY <2>1, <2>2, <2>5, <2>6, WatchKeeper
<1>10. ASSUME NEW c \in Cleaner,
              \/ Expire(c) \/ Sweep(c) \/ Retry(c) \/ Purge(c) \/ RecordPoll(c)
              \/ Revoke(c) \/ Confirm(c) \/ CleanerDies(c) \/ \E d \in Docs : Poll(c, d)
       PROVE  WatchInv'
  <2>1. UNCHANGED <<wk, watched>>
    BY <1>10, CleanerEffect
  <2>2. run'.scheduled = run.scheduled /\ run'.access = run.access
    BY <1>10, StartEffect, PurgeEffect, RecordPollEffect, RevokeEffect, ConfirmEffect,
       CleanerDiesEffect, PollEffect DEF KeepsWatch
  <2> QED BY <1>1, <2>1, <2>2
<1>11. ASSUME \/ LeaseElapses \/ (\E w \in Worker : Heartbeat(w))
              \/ \E d \in Docs : SweepUpload(d)
       PROVE  WatchInv'
  BY <1>1, <1>11, LeaseElapsesEffect, HeartbeatEffect, SweepUploadEffect
  DEF SameWorld, KeepsWatch
<1>12. ASSUME NEW d \in Docs, AccessEnds(d)
       PROVE  WatchInv'
  <2>1. /\ UNCHANGED <<wk, watched>> /\ run'.scheduled = run.scheduled
        /\ run.access[d] = "open" /\ run'.access = [run.access EXCEPT ![d] = "over"]
    BY <1>12, AccessEndsEffect
  <2>2. \A e \in Docs : run'.access[e] # "none" => run.access[e] # "none"
    BY <2>1, RowType
  <2> QED BY <1>1, <2>1, <2>2
<1> QED
  BY Steps, <1>3, <1>4, <1>5, <1>6, <1>7, <1>8, <1>9, <1>10, <1>11, <1>12

LEMMA CallsInit ==
  ASSUME Init
  PROVE  CallInv
BY DEF Init, CallInv, CallOK, Parsing, Engaged, Marked, Doomed

LEMMA DivLow ==
  ASSUME NEW x \in Nat, NEW b \in Nat, b >= 1, NEW k \in Nat, x >= k * b
  PROVE  x \div b >= k
OBVIOUS

LEMMA DivHigh ==
  ASSUME NEW x \in Nat, NEW b \in Nat, b >= 1, NEW k \in Nat, x \div b >= k
  PROVE  x >= k * b
OBVIOUS

\* A document of a later batch than one at or after the worker's first.
LEMMA LaterBatch ==
  ASSUME TypeOK, NEW w \in Worker, BatchOK(w), wk[w].at \in BatchSteps,
         NEW d \in Docs, NEW e \in Docs, wk[w].first <= e,
         (e - 1) \div Batch < (d - 1) \div Batch
  PROVE  d > Last(w)
<1>1. PICK k \in Nat : wk[w].first = k * Batch + 1
  BY DEF BatchOK
<1>2. d - 1 \in Nat /\ e - 1 \in Nat /\ Batch \in Nat /\ Batch >= 1 /\ k + 1 \in Nat
  BY DocNumbers
<1>3. e - 1 >= k * Batch
  BY <1>1, <1>2, DocNumbers
<1>4. (e - 1) \div Batch >= k
  BY <1>2, <1>3, DivLow
<1>5. (d - 1) \div Batch >= k + 1
  BY <1>2, <1>4
<1>6. d - 1 >= (k + 1) * Batch
  BY <1>2, <1>5, DivHigh
<1>7. (k + 1) * Batch = k * Batch + Batch
  BY <1>2
<1>8. k * Batch \in Nat
  BY <1>2
<1> QED BY <1>1, <1>2, <1>6, <1>7, <1>8, BatchType, DocNumbers

LEMMA CallKeeper ==
  ASSUME TypeOK, CallInv, UNCHANGED calls,
         \A d \in Docs : run.access[d] # "none" => run'.access[d] # "none",
         \A v \in Worker : CallOK(v)'
  PROVE  CallInv'
BY DEF CallInv

LEMMA DoomedSame ==
  ASSUME TypeOK, NEW w \in Worker, NEW d \in Docs, wk'[w].parse = wk[w].parse
  PROVE  Doomed(w, d)' <=> Doomed(w, d)
BY DEF Doomed

LEMMA CallOthers ==
  ASSUME TypeOK, CallInv, NEW v \in Worker, wk'[v] = wk[v], UNCHANGED calls,
         \A d \in Docs : run.access[d] # "none" => run'.access[d] # "none"
  PROVE  CallOK(v)'
<1>1. CallOK(v)
  BY DEF CallInv
<1> QED BY <1>1, OthersSame, DoomedSame DEF CallOK, Parsing

\* Off the batches a worker only has to remember its failures.
LEMMA CallStops ==
  ASSUME TypeOK, CallInv, NEW w \in Worker, KeepsParse(wk'[w], w), UNCHANGED calls,
         wk'[w].at \notin BatchSteps
  PROVE  CallOK(w)'
<1>1. CallOK(w)
  BY DEF CallInv
<1> QED BY <1>1, DoomedSame DEF CallOK, Parsing, BatchSteps, KeepsParse

LEMMA CallsKept ==
  ASSUME TypeOK, BatchInv, SealInv, CallInv, Next
  PROVE  CallInv'
<1>1. ASSUME UNCHANGED <<wk, calls>>,
             \A d \in Docs : run.access[d] # "none" => run'.access[d] # "none"
      PROVE  CallInv'
  BY <1>1, CallOthers, CallKeeper
<1>2. ASSUME NEW w \in Worker, OnlyWorker(w), UNCHANGED calls,
             \A d \in Docs : run.access[d] # "none" => run'.access[d] # "none", CallOK(w)'
      PROVE  CallInv'
  <2>1. \A v \in Worker : CallOK(v)'
    BY <1>2, CallOthers DEF OnlyWorker
  <2> QED BY <1>2, <2>1, CallKeeper
<1>3. ASSUME NEW w \in Worker,
             \/ Claim(w) \/ Read(w) \/ Put(w) \/ Fence(w) \/ Register(w)
             \/ AfterParse(w) \/ Manifest(w) \/ Extract(w) \/ Verify(w) \/ Withhold(w)
             \/ Publish(w) \/ RecoverRead(w) \/ RecoverDelete(w) \/ RecoverWrite(w)
             \/ Fenced(w) \/ Throws(w) \/ Killed(w)
      PROVE  CallInv'
  <2>1. /\ OnlyWorker(w) /\ UNCHANGED calls /\ KeepsWatch(run') /\ KeepsParse(wk'[w], w)
        /\ wk'[w].at \notin {"arm", "schedule", "record", "parse"}
    BY <1>3, ClaimEffect, ReadEffect, PutEffect, FenceEffect, RegisterEffect, AfterParseEffect,
       ManifestEffect, ExtractEffect, VerifyEffect, WithholdEffect, PublishEffect,
       RecoverReadEffect, RecoverDeleteEffect, RecoverWriteEffect, StopEffect
    DEF SameWorld, KeepsWatch, Proceeds
  <2>2. CallOK(w)'
    BY <2>1, CallStops DEF BatchSteps
  <2> QED BY <1>2, <2>1, <2>2 DEF KeepsWatch
<1>4. ASSUME NEW w \in Worker, EnterStage(w)
      PROVE  CallInv'
  <2>1. /\ OnlyWorker(w) /\ UNCHANGED calls /\ KeepsWatch(run') /\ KeepsParse(wk'[w], w)
        /\ wk'[w].at \notin {"schedule", "record", "parse"} /\ wk'[w].doc = 1
        /\ wk'[w].at = "arm" => wk[w].at = "parsing"
    BY <1>4, EnterStageEffect, StagingNames DEF SameWorld, Following
  <2>2. wk'[w].at = "arm" => ~Engaged(w)'
    <3>1. wk'[w].at = "arm" => ~Marked(w)
      BY <2>1 DEF BatchInv, BatchOK, LoadingSteps
    <3> QED BY <2>1, <3>1, SameParse DEF Engaged
  <2>3. CallOK(w)'
    <3>1. CallOK(w)
      BY DEF CallInv
    <3>2. \A d \in Docs : Doomed(w, d)' <=> Doomed(w, d)
      BY <2>1, DoomedSame DEF KeepsParse
    <3> QED BY <2>1, <2>2, <3>1, <3>2 DEF CallOK, Parsing, BatchSteps
  <2> QED BY <1>2, <2>1, <2>3 DEF KeepsWatch
<1>5. ASSUME NEW w \in Worker, Arm(w)
      PROVE  CallInv'
  <2>1. /\ OnlyWorker(w) /\ wk[w].at = "arm" /\ run.lease = w
        /\ wk'[w].at = "recoverRead" \/ Advances(wk'[w], w, "schedule")
        /\ wk'[w].first = wk[w].first /\ KeepsParse(wk'[w], w)
        /\ run'.access = run.access /\ UNCHANGED calls
    BY <1>5, ArmEffect DEF SameWorld
  <2>2. \A d \in Docs : d > Last(w) => calls[d] = 0
    <3>1. CASE wk[w].doc = 1
      <4>1. ~Sealed
        BY <2>1, <3>1 DEF SealInv, Early
      <4> QED BY <4>1 DEF SealInv, TypeOK
    <3>2. CASE wk[w].doc > 1
      BY <2>1, <3>2 DEF CallInv, CallOK, Engaged, BatchSteps
    <3> QED BY <3>1, <3>2, BatchType
  <2>3. Last(w)' = Last(w) /\ wk'[w].at # "parse"
    BY <2>1, SameFirst DEF Advances
  <2>4. \A d \in Docs : Doomed(w, d)' => calls[d] = 0
    BY <2>1, DoomedSame DEF CallInv, CallOK, KeepsParse
  <2>5. CallOK(w)'
    BY <2>1, <2>2, <2>3, <2>4 DEF CallOK, Parsing
  <2> QED BY <1>2, <2>1, <2>5
<1>6. ASSUME NEW w \in Worker, Schedule(w) \/ Record(w)
      PROVE  CallInv'
  <2>1. /\ OnlyWorker(w) /\ wk[w].at \in {"schedule", "record"} /\ wk'[w].first = wk[w].first
        /\ wk'[w].parse \in {wk[w].parse, Readied(w)}
        /\ wk'[w].at = "parse" => wk'[w].parse = Readied(w)
        /\ run'.access = run.access /\ UNCHANGED calls
    BY <1>6, ScheduleEffect, RecordEffect DEF SameWorld, KeepsCursor, KeepsParse
  <2>2. CallOK(w) /\ Engaged(w) /\ Last(w)' = Last(w)
    BY <2>1, SameFirst DEF CallInv, Engaged
  <2>3. \A e \in Docs : wk'[w].parse[e] \in {"failed", "kept"} => wk'[w].parse[e] = wk[w].parse[e]
    BY <2>1 DEF Readied
  <2>4. \A d \in Docs : Doomed(w, d)' => calls[d] = 0
    BY <2>1, <2>2, <2>3 DEF CallOK, Doomed
  <2>5. \A d \in Docs : wk'[w].at = "parse" => wk'[w].parse[d] # "dispatch"
    <3>1. \A d \in Docs : wk[w].parse[d] \in {"idle", "parsed"}
      BY <2>1, BatchType, DocNumbers DEF BatchInv, BatchOK, BatchSteps
    <3> QED BY <2>1, <3>1 DEF Readied
  <2>6. CallOK(w)'
    BY <2>1, <2>2, <2>4, <2>5 DEF CallOK, Parsing, BatchSteps
  <2> QED BY <1>2, <2>1, <2>6
<1>7. ASSUME NEW w \in Worker, BatchEnds(w)
      PROVE  CallInv'
  <2>1. /\ OnlyWorker(w) /\ wk[w].at = "parse" /\ KeepsParse(wk'[w], w)
        /\ \/ wk'[w].at = "after"
           \/ wk'[w].at = "arm" /\ wk'[w].first = Last(w) + 1 /\ Last(w) < N
        /\ UNCHANGED <<run, calls>>
    BY <1>7, BatchEndsEffect
  <2>2. CASE wk'[w].at = "after"
    BY <1>2, <2>1, <2>2, CallStops DEF BatchSteps
  <2>3. CASE wk'[w].at = "arm" /\ wk'[w].first = Last(w) + 1 /\ Last(w) < N
    <3>1. Last(w)' \in Nat /\ Last(w)' >= Last(w)
      BY <2>3, BatchType, DocNumbers DEF Last
    <3>2. \A d \in Docs : d > Last(w) => calls[d] = 0
      BY <2>1 DEF CallInv, CallOK, Engaged, BatchSteps
    <3>3. \A d \in Docs : d > Last(w)' => calls[d] = 0
      BY <3>1, <3>2, BatchType, DocNumbers
    <3>4. \A d \in Docs : Doomed(w, d)' => calls[d] = 0
      BY <2>1, DoomedSame DEF CallInv, CallOK, KeepsParse
    <3>5. CallOK(w)'
      BY <2>1, <2>3, <3>3, <3>4 DEF CallOK, Parsing
    <3> QED BY <1>2, <2>1, <3>5
  <2> QED BY <2>1, <2>2, <2>3
<1>8. ASSUME NEW w \in Worker, NEW d \in Docs,
             \/ MarkStarted(w, d) \/ Dispatch(w, d) \/ Answered(w, d) \/ Capture(w, d)
             \/ DeleteSource(w, d) \/ RecordAttempt(w, d)
      PROVE  CallInv'
  <2>1. /\ OnlyWorker(w) /\ wk[w].at = "parse" /\ wk'[w].at = "parse"
        /\ wk'[w].first = wk[w].first /\ wk[w].parse[d] \notin {"idle", "parsed"}
        /\ \A e \in Docs : e # d => wk'[w].parse[e] = wk[w].parse[e]
    <3>1. AnswersFor(w, d, ParseStates \ {"idle"}) /\ wk[w].parse[d] \notin {"idle", "parsed"}
      BY <1>8, ParseDocumentEffect
    <3> QED BY <3>1, LocalType DEF AnswersFor, KeepsCursor
  <2>2. CallOK(w) /\ BatchOK(w) /\ Engaged(w) /\ Last(w)' = Last(w)
    BY <2>1, SameFirst DEF CallInv, BatchInv, Engaged
  <2>3. /\ \A e \in Docs : wk'[w].parse[e] \in {"failed", "kept"} => wk[w].first <= e
        /\ d <= Last(w)
    BY <2>1, <2>2, BatchFacts, BatchType, DocNumbers DEF BatchSteps
  <2>4. \A e \in Docs : Doomed(w, e)' => e > Last(w)
    BY <2>1, <2>2, <2>3, LaterBatch DEF Doomed, BatchSteps
  <2>5. \A e \in Docs : e > Last(w) => calls[e] = 0
    BY <2>1, <2>2 DEF CallOK, BatchSteps
  <2>6. CASE ~Dispatch(w, d)
    <3>1. UNCHANGED calls
      BY <1>8, <2>6, MarkStartedEffect, AnsweredEffect, CaptureEffect, DeleteSourceEffect,
         RecordAttemptEffect DEF SameWorld
    <3>2. \/ run'.access = run.access /\ wk'[w].parse[d] # "dispatch"
          \/ run.access[d] = "none" /\ run'.access = [run.access EXCEPT ![d] = "open"]
      <4>1. CASE MarkStarted(w, d)
        <5>1. \/ run'.access = run.access /\ AnswersFor(w, d, {"delete"})
              \/ run.access[d] = "none" /\ run'.access = [run.access EXCEPT ![d] = "open"]
          BY <4>1, MarkStartedAccess
        <5> QED BY <5>1, LocalType DEF AnswersFor
      <4>2. CASE ~MarkStarted(w, d)
        <5>1. run'.access = run.access
          BY <1>8, <2>6, <4>2, AnsweredEffect, CaptureEffect, DeleteSourceEffect,
             RecordAttemptEffect
        <5>2. AnswersFor(w, d, {"capture", "failed", "delete", "attempt", "parsed", "kept"})
          <6>1. \/ AnswersFor(w, d, {"capture"}) \/ AnswersFor(w, d, {"failed"})
                \/ AnswersFor(w, d, {"delete", "failed"}) \/ AnswersFor(w, d, {"attempt"})
                \/ AnswersFor(w, d, {"parsed", "kept", "failed"})
            BY <1>8, <2>6, <4>2, AnsweredEffect, CaptureEffect, DeleteSourceEffect,
               RecordAttemptEffect
          <6> QED BY <6>1 DEF AnswersFor
        <5> QED BY <5>1, <5>2, LocalType DEF AnswersFor
      <4> QED BY <4>1, <4>2
    <3>3. \A e \in Docs : run.access[e] # "none" => run'.access[e] # "none"
      BY <3>2, RowType
    <3>4. wk'[w].parse[d] = "dispatch" => calls[d] = 0 /\ run'.access[d] # "none"
      BY <3>2, RowType DEF CallInv, TypeOK
    <3>5. CallOK(w)'
      BY <2>1, <2>2, <2>4, <2>5, <3>1, <3>3, <3>4 DEF CallOK, Parsing
    <3> QED BY <1>2, <2>1, <3>1, <3>3, <3>5
  <2>7. CASE Dispatch(w, d)
    <3>0. /\ wk[w].parse[d] = "dispatch" /\ AnswersFor(w, d, {"calling"})
          /\ calls' = [calls EXCEPT ![d] = @ + 1] /\ UNCHANGED run
      BY <2>7, DispatchEffect
    <3>1. /\ wk[w].parse[d] = "dispatch" /\ wk'[w].parse[d] = "calling"
          /\ calls' = [calls EXCEPT ![d] = @ + 1] /\ UNCHANGED run
      BY <3>0, LocalType DEF AnswersFor
    <3>2. calls[d] = 0 /\ run.access[d] # "none"
      BY <2>1, <2>2, <3>1 DEF CallOK, Parsing
    <3>3. calls'[d] = 1 /\ \A e \in Docs : e # d => calls'[e] = calls[e]
      BY <3>1, <3>2 DEF TypeOK
    <3>4. \A e \in Docs : e > Last(w) => calls'[e] = 0
      BY <2>3, <2>5, <3>3, BatchType, DocNumbers
    <3>5. CallOK(w)'
      BY <2>1, <2>2, <2>4, <3>1, <3>3, <3>4 DEF CallOK, Parsing
    <3>6. \A v \in Worker : v # w => ~Engaged(v)' /\ wk'[v] = wk[v]
      BY <2>1, <2>2, OthersSame DEF SealInv, OnlyWorker
    <3>7. \A v \in Worker : v # w => CallOK(v)'
      BY <3>6 DEF CallOK, Parsing, Engaged, Marked, Doomed
    <3>8. \A e \in Docs : calls'[e] <= 1 /\ (calls'[e] > 0 => run'.access[e] # "none")
      BY <3>1, <3>2, <3>3 DEF CallInv
    <3> QED BY <3>5, <3>7, <3>8 DEF CallInv
  <2> QED BY <2>6, <2>7
<1>9. ASSUME NEW c \in Cleaner,
             \/ Expire(c) \/ Sweep(c) \/ Retry(c) \/ Purge(c) \/ RecordPoll(c)
             \/ Revoke(c) \/ Confirm(c) \/ CleanerDies(c) \/ \E d \in Docs : Poll(c, d)
      PROVE  CallInv'
  <2>1. UNCHANGED <<wk, calls>>
    BY <1>9, CleanerEffect
  <2>2. run'.access = run.access
    BY <1>9, StartEffect, PurgeEffect, RecordPollEffect, RevokeEffect, ConfirmEffect,
       CleanerDiesEffect, PollEffect DEF KeepsWatch
  <2> QED BY <1>1, <2>1, <2>2
<1>10. ASSUME \/ LeaseElapses \/ (\E w \in Worker : Heartbeat(w))
              \/ \E d \in Docs : SweepUpload(d)
       PROVE  CallInv'
  BY <1>1, <1>10, LeaseElapsesEffect, HeartbeatEffect, SweepUploadEffect
  DEF SameWorld, KeepsWatch
<1>11. ASSUME NEW d \in Docs, AccessEnds(d)
       PROVE  CallInv'
  <2>1. UNCHANGED <<wk, calls>> /\ run'.access = [run.access EXCEPT ![d] = "over"]
    BY <1>11, AccessEndsEffect
  <2>2. \A e \in Docs : run.access[e] # "none" => run'.access[e] # "none"
    BY <2>1, RowType
  <2> QED BY <1>1, <2>1, <2>2
<1> QED
  BY Steps, <1>3, <1>4, <1>5, <1>6, <1>7, <1>8, <1>9, <1>10, <1>11

-----------------------------------------------------------------------------
(* What no step takes back: a withdrawal, an armed watchdog, a begun parse *)

LEMMA TransitionFacts ==
  ASSUME NEW from \in RunStatuses, NEW to \in RunStatuses, NEW clean \in BOOLEAN,
         CanTransition(from, to, clean)
  PROVE  /\ from \in WithdrawnStatuses => to \in WithdrawnStatuses
         /\ to \in LeasedStatuses => from \in LeasedStatuses \cup {"queued"}
         /\ to \in ReleasedStatuses => from \in ReleasedStatuses \/ clean
BY DEF CanTransition, Transitions, WithdrawnStatuses, LeasedStatuses, ReleasedStatuses, RunStatuses

LEMMA StatusGroups ==
  /\ \A status \in LeasedStatuses :
       status \notin WithdrawnStatuses \cup ReleasedStatuses \cup {"queued"}
  /\ \A status \in ReleasedStatuses : status \notin WithdrawnStatuses \cup {"queued"}
  /\ \A status \in WithdrawnStatuses : status # "queued"
  /\ "validating" \in LeasedStatuses
  /\ {"failed", "cleanup_pending", "expired"} = WithdrawnStatuses
BY DEF LeasedStatuses, ReleasedStatuses, WithdrawnStatuses

LEMMA WithdrawnStays ==
  ASSUME TypeOK, Next, run.status \in WithdrawnStatuses
  PROVE  run'.status \in WithdrawnStatuses
<1>1. \A w \in Worker : ~Claim(w) /\ ~Heartbeat(w)
  BY ClaimEffect, HeartbeatEffect, StatusGroups
<1>2. \A w \in Worker : ~EnterStage(w)
  <2>1. ASSUME NEW w \in Worker, EnterStage(w)
        PROVE  FALSE
    <3>1. /\ CanTransition(run.status, run'.status, run.clean = "yes")
          /\ run'.status \in LeasedStatuses
      BY <2>1, EnterStageEffect, StagingNames
    <3>2. run'.status \in RunStatuses /\ run.status \in RunStatuses
      BY <2>1, EnterStageEffect, RowType DEF TypeOK, RunRow
    <3> QED BY <3>1, <3>2, TransitionFacts, StatusGroups
  <2> QED BY <2>1
<1>3. \A w \in Worker : ~Publish(w)
  <2>1. ASSUME NEW w \in Worker, Publish(w)
        PROVE  FALSE
    <3>1. /\ CanTransition(run.status, run'.status, run.clean = "yes")
          /\ run'.status \in ReleasedStatuses
      BY <2>1, PublishEffect
    <3>2. run'.status \in RunStatuses /\ run.status \in RunStatuses
      BY <2>1, PublishEffect, RowType DEF TypeOK, RunRow
    <3> QED BY <3>1, <3>2, TransitionFacts, StatusGroups
  <2> QED BY <2>1
<1>4. ASSUME NEW w \in Worker,
             \/ Read(w) \/ Put(w) \/ Fence(w) \/ Register(w) \/ Arm(w) \/ Schedule(w)
             \/ Record(w) \/ BatchEnds(w) \/ AfterParse(w) \/ Manifest(w) \/ Extract(w)
             \/ Verify(w) \/ Withhold(w) \/ RecoverRead(w) \/ RecoverDelete(w)
             \/ RecoverWrite(w) \/ Fenced(w) \/ Throws(w) \/ Killed(w)
      PROVE  run'.status \in {run.status, "failed", "cleanup_pending"}
  BY <1>4, ReadEffect, PutEffect, FenceEffect, RegisterEffect, ArmEffect, ScheduleEffect,
     RecordEffect, BatchEndsEffect, AfterParseEffect, ManifestEffect, ExtractEffect,
     VerifyEffect, WithholdEffect, RecoverReadEffect, RecoverDeleteEffect,
     RecoverWriteEffect, StopEffect DEF KeepsLife
<1>5. ASSUME NEW w \in Worker, NEW d \in Docs,
             \/ MarkStarted(w, d) \/ Dispatch(w, d) \/ Answered(w, d) \/ Capture(w, d)
             \/ DeleteSource(w, d) \/ RecordAttempt(w, d)
      PROVE  run'.status = run.status
  BY <1>5, MarkStartedEffect, DispatchEffect, AnsweredEffect, CaptureEffect,
     DeleteSourceEffect, RecordAttemptEffect DEF KeepsLife
<1>6. ASSUME NEW c \in Cleaner,
             \/ Expire(c) \/ Sweep(c) \/ Retry(c) \/ Purge(c) \/ RecordPoll(c)
             \/ Revoke(c) \/ Confirm(c) \/ CleanerDies(c) \/ \E d \in Docs : Poll(c, d)
      PROVE  run'.status \in {run.status, "failed", "cleanup_pending", "expired"}
  BY <1>6, StartEffect, PurgeEffect, RecordPollEffect, RevokeEffect, ConfirmEffect,
     CleanerDiesEffect, PollEffect DEF KeepsLife
<1>7. LeaseElapses \/ (\E d \in Docs : AccessEnds(d) \/ SweepUpload(d))
      => run'.status = run.status
  BY LeaseElapsesEffect, AccessEndsEffect, SweepUploadEffect DEF KeepsLife
<1> QED
  BY Steps, <1>1, <1>2, <1>3, <1>4, <1>5, <1>6, <1>7, StatusGroups

\* An armed watchdog is never disarmed.
LEMMA SealedStays ==
  ASSUME TypeOK, Next
  PROVE  run'.watchdog = run.watchdog \/ Sealed'
<1>1. ASSUME NEW w \in Worker,
             \/ Claim(w) \/ Heartbeat(w) \/ EnterStage(w) \/ Read(w) \/ Put(w) \/ Fence(w)
             \/ Register(w) \/ Schedule(w) \/ Record(w) \/ BatchEnds(w)
             \/ Fenced(w) \/ Throws(w) \/ Killed(w)
      PROVE  run'.watchdog = run.watchdog
  BY <1>1, ClaimEffect, HeartbeatEffect, EnterStageEffect, ReadEffect, PutEffect, FenceEffect,
     RegisterEffect, ScheduleEffect, RecordEffect, BatchEndsEffect, StopEffect DEF KeepsWatch
<1>2. ASSUME NEW w \in Worker,
             \/ AfterParse(w) \/ Manifest(w) \/ Extract(w) \/ Verify(w) \/ Withhold(w)
             \/ Publish(w) \/ RecoverRead(w) \/ RecoverDelete(w) \/ RecoverWrite(w)
      PROVE  run'.watchdog = run.watchdog
  BY <1>2, AfterParseEffect, ManifestEffect, ExtractEffect, VerifyEffect, WithholdEffect,
     PublishEffect, RecoverReadEffect, RecoverDeleteEffect, RecoverWriteEffect DEF KeepsWatch
<1>3. ASSUME NEW w \in Worker, Arm(w)
      PROVE  Sealed'
  <2>1. run'.watchdog = [run.watchdog EXCEPT ![wk[w].doc] = "armed"] /\ wk[w].doc \in Docs
    BY <1>3, ArmEffect, LocalType
  <2> QED BY <2>1, SealedTouched
<1>4. ASSUME NEW c \in Cleaner, RecordPoll(c)
      PROVE  Sealed'
  <2>1. \E status \in {"cleanup_pending", "cleanup_confirmed", "cancelled"} :
          run'.watchdog = [run.watchdog EXCEPT ![cl[c].doc] = status]
    BY <1>4, RecordPollEffect
  <2> QED BY <2>1, CleanerType, SealedTouched
<1>5. ASSUME NEW c \in Cleaner,
             \/ Expire(c) \/ Sweep(c) \/ Retry(c) \/ Purge(c) \/ Revoke(c) \/ Confirm(c)
             \/ CleanerDies(c) \/ \E d \in Docs : Poll(c, d)
      PROVE  run'.watchdog = run.watchdog
  BY <1>5, StartEffect, PurgeEffect, RevokeEffect, ConfirmEffect, CleanerDiesEffect, PollEffect
  DEF KeepsWatch
<1>6. LeaseElapses \/ (\E d \in Docs : AccessEnds(d) \/ SweepUpload(d))
      => run'.watchdog = run.watchdog
  BY LeaseElapsesEffect, AccessEndsEffect, SweepUploadEffect DEF KeepsWatch
<1> QED BY Steps, DocumentSealed, <1>1, <1>2, <1>3, <1>4, <1>5, <1>6

\* A worker's own step never unmarks a document.
LEMMA MarkedStays ==
  ASSUME TypeOK, Next, NEW v \in Worker, Marked(v)
  PROVE  Marked(v)'
<1>1. ASSUME NEW w \in Worker, OnlyWorker(w),
             KeepsParse(wk'[w], w) \/ wk'[w].parse = Readied(w)
               \/ \E d \in Docs : AnswersFor(w, d, ParseStates \ {"idle"})
      PROVE  Marked(v)'
  <2>1. CASE v # w
    BY <1>1, <2>1, OthersSame DEF OnlyWorker
  <2>2. CASE v = w /\ KeepsParse(wk'[w], w)
    BY <2>2, SameParse
  <2>3. CASE v = w /\ wk'[w].parse = Readied(w)
    BY <2>3 DEF Marked, Readied
  <2>4. CASE v = w /\ \E d \in Docs : AnswersFor(w, d, ParseStates \ {"idle"})
    BY <2>4, LocalType DEF Marked, AnswersFor
  <2> QED BY <1>1, <2>1, <2>2, <2>3, <2>4
<1>2. UNCHANGED wk => Marked(v)'
  BY OthersSame
<1>3. ASSUME NEW w \in Worker,
             \/ Claim(w) \/ EnterStage(w) \/ Read(w) \/ Put(w) \/ Fence(w) \/ Register(w)
             \/ Arm(w) \/ Schedule(w) \/ BatchEnds(w) \/ AfterParse(w) \/ Manifest(w)
             \/ Extract(w) \/ Verify(w) \/ Withhold(w) \/ Publish(w) \/ RecoverRead(w)
             \/ RecoverDelete(w) \/ RecoverWrite(w) \/ Fenced(w) \/ Throws(w) \/ Killed(w)
      PROVE  OnlyWorker(w) /\ KeepsParse(wk'[w], w)
  <2>1. CASE \/ Claim(w) \/ EnterStage(w) \/ Read(w) \/ Put(w) \/ Fence(w) \/ Register(w)
    BY <2>1, ClaimEffect, EnterStageEffect, ReadEffect, PutEffect, FenceEffect, RegisterEffect
  <2>2. CASE Arm(w) \/ Schedule(w) \/ BatchEnds(w) \/ Fenced(w) \/ Throws(w) \/ Killed(w)
    BY <2>2, ArmEffect, ScheduleEffect, BatchEndsEffect, StopEffect
  <2>3. CASE \/ AfterParse(w) \/ Manifest(w) \/ Extract(w) \/ Verify(w) \/ Withhold(w)
    BY <2>3, AfterParseEffect, ManifestEffect, ExtractEffect, VerifyEffect, WithholdEffect
  <2>4. CASE Publish(w) \/ RecoverRead(w) \/ RecoverDelete(w) \/ RecoverWrite(w)
    BY <2>4, PublishEffect, RecoverReadEffect, RecoverDeleteEffect, RecoverWriteEffect
  <2> QED BY <1>3, <2>1, <2>2, <2>3, <2>4
<1>4. ASSUME NEW w \in Worker, Record(w)
      PROVE  OnlyWorker(w) /\ (KeepsParse(wk'[w], w) \/ wk'[w].parse = Readied(w))
  BY <1>4, RecordEffect DEF KeepsParse
<1>5. ASSUME NEW w \in Worker, NEW d \in Docs,
             \/ MarkStarted(w, d) \/ Dispatch(w, d) \/ Answered(w, d) \/ Capture(w, d)
             \/ DeleteSource(w, d) \/ RecordAttempt(w, d)
      PROVE  OnlyWorker(w) /\ AnswersFor(w, d, ParseStates \ {"idle"})
  BY <1>5, ParseDocumentEffect DEF AnswersFor
<1>6. ASSUME \/ \E c \in Cleaner :
                  \/ Expire(c) \/ Sweep(c) \/ Retry(c) \/ Purge(c) \/ RecordPoll(c)
                  \/ Revoke(c) \/ Confirm(c) \/ CleanerDies(c) \/ \E d \in Docs : Poll(c, d)
             \/ LeaseElapses \/ (\E w \in Worker : Heartbeat(w))
             \/ \E d \in Docs : AccessEnds(d) \/ SweepUpload(d)
      PROVE  UNCHANGED wk
  BY <1>6, CleanerEffect, LeaseElapsesEffect, HeartbeatEffect, AccessEndsEffect,
     SweepUploadEffect
<1> QED BY Steps, <1>1, <1>2, <1>3, <1>4, <1>5, <1>6

-----------------------------------------------------------------------------
(* The lease *)

LEMMA LeaseInit ==
  ASSUME Init
  PROVE  LeaseInv
BY ProcessingAssumption, StatusGroups DEF Init, LeaseInv

\* A step of the worker that holds the lease, or of one that does not.
LEMMA LeaseKeeper ==
  ASSUME TypeOK, LeaseInv, NEW w \in Worker, OnlyWorker(w), wk[w].at \in RunningSteps,
         wk'[w].at # "none", wk'[w].at \in WorkSteps => wk[w].at \in WorkSteps,
         run'.status = run.status, run'.lease = run.lease, run'.leaseTime = run.leaseTime
  PROVE  LeaseInv'
<1>1. run.status # "queued"
  BY StepSets DEF LeaseInv
<1>2. \A v \in Worker : run'.lease = v =>
        wk'[v].at # "none" /\ (wk'[v].at \in WorkSteps => run'.status \in LeasedStatuses)
  BY DEF LeaseInv, OnlyWorker
<1> QED BY <1>1, <1>2 DEF LeaseInv

LEMMA LeaseKept ==
  ASSUME TypeOK, LeaseInv, Next
  PROVE  LeaseInv'
<1>1. ASSUME NEW w \in Worker, Claim(w)
      PROVE  LeaseInv'
  BY <1>1, ClaimEffect, StatusGroups, ProcessingAssumption DEF LeaseInv, OnlyWorker
<1>2. ASSUME NEW w \in Worker, EnterStage(w)
      PROVE  LeaseInv'
  <2>1. /\ OnlyWorker(w) /\ run.lease = w /\ run'.lease = w
        /\ run'.status \in LeasedStatuses /\ wk'[w].at # "none"
    BY <1>2, EnterStageEffect, StagingNames DEF Following
  <2> QED BY <2>1, StatusGroups, ProcessingAssumption DEF LeaseInv, OnlyWorker
<1>3. ASSUME NEW w \in Worker,
             \/ Read(w) \/ Put(w) \/ Fence(w) \/ Register(w) \/ Arm(w) \/ Schedule(w)
             \/ Record(w) \/ BatchEnds(w) \/ AfterParse(w) \/ Manifest(w) \/ Extract(w)
             \/ Verify(w) \/ RecoverRead(w) \/ RecoverDelete(w)
             \/ Fenced(w) \/ Throws(w) \/ Killed(w)
      PROVE  LeaseInv'
  <2>1. /\ OnlyWorker(w) /\ wk'[w].at # "none" /\ wk[w].at \in RunningSteps
        /\ wk'[w].at \in WorkSteps => wk[w].at \in WorkSteps
    <3>1. CASE Read(w) \/ Put(w) \/ Fence(w) \/ Register(w)
      BY <3>1, ReadEffect, PutEffect, FenceEffect, RegisterEffect, StepSets DEF Proceeds
    <3>2. CASE Arm(w) \/ Schedule(w) \/ Record(w) \/ BatchEnds(w)
      BY <3>2, ArmEffect, ScheduleEffect, RecordEffect, BatchEndsEffect, StepSets DEF Advances
    <3>3. CASE AfterParse(w) \/ Manifest(w) \/ Extract(w) \/ Verify(w)
      BY <3>3, AfterParseEffect, ManifestEffect, ExtractEffect, VerifyEffect, StepSets
    <3>4. CASE \/ RecoverRead(w) \/ RecoverDelete(w) \/ Fenced(w) \/ Throws(w) \/ Killed(w)
      BY <3>4, RecoverReadEffect, RecoverDeleteEffect, StopEffect, StepSets DEF Running
    <3> QED BY <1>3, <3>1, <3>2, <3>3, <3>4
  <2>2. /\ run'.status = run.status /\ run'.lease = run.lease
        /\ run'.leaseTime = run.leaseTime
    BY <1>3, ReadEffect, PutEffect, FenceEffect, RegisterEffect, ArmEffect, ScheduleEffect,
       RecordEffect, BatchEndsEffect, AfterParseEffect, ManifestEffect, ExtractEffect,
       VerifyEffect, RecoverReadEffect, RecoverDeleteEffect, StopEffect DEF KeepsLife
  <2> QED BY <2>1, <2>2, LeaseKeeper
<1>4. ASSUME NEW w \in Worker, NEW d \in Docs,
             \/ MarkStarted(w, d) \/ Dispatch(w, d) \/ Answered(w, d) \/ Capture(w, d)
             \/ DeleteSource(w, d) \/ RecordAttempt(w, d)
      PROVE  LeaseInv'
  <2>1. OnlyWorker(w) /\ wk'[w].at = "parse" /\ wk[w].at = "parse"
    BY <1>4, ParseDocumentEffect DEF AnswersFor
  <2>2. KeepsLife(run')
    BY <1>4, MarkStartedEffect, DispatchEffect, AnsweredEffect, CaptureEffect,
       DeleteSourceEffect, RecordAttemptEffect DEF KeepsLife
  <2> QED BY <2>1, <2>2, LeaseKeeper, StepSets DEF KeepsLife
<1>5. ASSUME NEW w \in Worker, Withhold(w)
      PROVE  LeaseInv'
  <2>1. /\ OnlyWorker(w) /\ run.lease = w /\ run'.lease = w
        /\ run'.status = "cleanup_pending" /\ wk'[w].at = "recoverRead"
    BY <1>5, WithholdEffect
  <2> QED BY <2>1, StatusGroups, StepSets, ProcessingAssumption DEF LeaseInv, OnlyWorker
<1>6. ASSUME NEW w \in Worker, Publish(w) \/ RecoverWrite(w)
      PROVE  LeaseInv'
  <2>1. /\ OnlyWorker(w) /\ wk'[w].at \in {"over", "recoverRead"}
        /\ \/ run'.lease = Nobody /\ run'.status \in ReleasedStatuses \cup WithdrawnStatuses
           \/ run' = run /\ wk[w].at = "recoverWrite"
    BY <1>6, PublishEffect, RecoverWriteEffect, StatusGroups
  <2>2. CASE run'.lease = Nobody /\ run'.status \in ReleasedStatuses \cup WithdrawnStatuses
    BY <2>1, <2>2, StatusGroups, ProcessingAssumption DEF LeaseInv
  <2>3. CASE run' = run /\ wk[w].at = "recoverWrite"
    BY <2>1, <2>3, LeaseKeeper, StepSets
  <2> QED BY <2>1, <2>2, <2>3
<1>7. ASSUME NEW c \in Cleaner,
             \/ Expire(c) \/ Sweep(c) \/ Retry(c) \/ Purge(c) \/ RecordPoll(c)
             \/ Revoke(c) \/ Confirm(c) \/ CleanerDies(c) \/ \E d \in Docs : Poll(c, d)
      PROVE  LeaseInv'
  <2>1. UNCHANGED wk
    BY <1>7, CleanerEffect
  <2>2. \/ /\ run'.status = run.status /\ run'.lease = run.lease
           /\ run'.leaseTime = run.leaseTime
        \/ run'.lease = Nobody /\ run'.status \in WithdrawnStatuses
    BY <1>7, StartEffect, PurgeEffect, RecordPollEffect, RevokeEffect, ConfirmEffect,
       CleanerDiesEffect, PollEffect, StatusGroups DEF KeepsLife
  <2> QED BY <2>1, <2>2, StatusGroups, ProcessingAssumption DEF LeaseInv
<1>8. ASSUME \/ LeaseElapses \/ (\E w \in Worker : Heartbeat(w))
             \/ \E d \in Docs : AccessEnds(d) \/ SweepUpload(d)
      PROVE  LeaseInv'
  <2>1. /\ UNCHANGED wk /\ run'.status = run.status /\ run'.lease = run.lease
        /\ run'.leaseTime = run.leaseTime \/ run.leaseTime # "none"
    BY <1>8, LeaseElapsesEffect, HeartbeatEffect, AccessEndsEffect, SweepUploadEffect
    DEF KeepsLife
  <2> QED BY <2>1 DEF LeaseInv
<1> QED BY Steps, <1>1, <1>2, <1>3, <1>4, <1>5, <1>6, <1>7, <1>8

-----------------------------------------------------------------------------
(* Receipts for process memory, and the release gate *)

LEMMA ResourceKinds ==
  /\ \A r \in Resources : r.kind \in {"text", "parsed"} => r.by \in Worker
  /\ \A r \in Sources(Docs) : r.kind \in {"blob", "staged"}
  /\ \A d \in Docs : \A r \in Sources({d}) : r.kind \in {"blob", "staged"}
  /\ \A d \in Docs, w \in Worker :
       /\ Text(d, w).by = w /\ Text(d, w).kind = "text"
       /\ Parsed(d, w).by = w /\ Parsed(d, w).kind = "parsed"
BY DEF Resources, Sources, Blob, Stage, Text, Parsed, Resource

LEMMA ReadersInit ==
  ASSUME Init
  PROVE  ReaderInv
BY StatusGroups DEF Init, ReaderInv, GateOK, ReaderOK, Memory

\* No worker becomes busy but by arming its first watchdog.
LEMMA BusyKept ==
  ASSUME TypeOK, BatchInv, NEW w \in Worker,
         \/ Claim(w) \/ EnterStage(w) \/ Read(w) \/ Put(w) \/ Fence(w) \/ Register(w)
         \/ Schedule(w) \/ Record(w) \/ BatchEnds(w)
         \/ AfterParse(w) \/ Manifest(w) \/ Extract(w) \/ Verify(w) \/ Withhold(w)
         \/ Publish(w) \/ RecoverRead(w) \/ RecoverDelete(w) \/ RecoverWrite(w)
         \/ Fenced(w) \/ Throws(w) \/ Killed(w)
         \/ \E d \in Docs :
              \/ MarkStarted(w, d) \/ Dispatch(w, d) \/ Answered(w, d) \/ Capture(w, d)
              \/ DeleteSource(w, d) \/ RecordAttempt(w, d)
  PROVE  OnlyWorker(w) /\ \A v \in Worker : Busy(v)' => Busy(v)
<1>1. OnlyWorker(w) /\ (Busy(w)' => Busy(w))
  <2>1. CASE Claim(w)
    BY <2>1, ClaimEffect DEF Busy, BatchSteps
  <2>2. CASE EnterStage(w)
    <3>1. /\ OnlyWorker(w) /\ KeepsParse(wk'[w], w) /\ wk'[w].doc = 1
          /\ wk'[w].at \notin {"schedule", "record", "parse"}
          /\ wk'[w].at = "arm" => wk[w].at = "parsing"
      BY <2>2, EnterStageEffect, StagingNames DEF Following
    <3>2. wk[w].at = "parsing" => ~Marked(w)
      BY DEF BatchInv, BatchOK, LoadingSteps
    <3> QED BY <3>1, <3>2, SameParse DEF Busy, Engaged, BatchSteps
  <2>3. CASE Read(w) \/ Put(w) \/ Fence(w) \/ Register(w)
    BY <2>3, ReadEffect, PutEffect, FenceEffect, RegisterEffect DEF Busy, BatchSteps, Proceeds
  <2>4. CASE Schedule(w) \/ Record(w) \/ BatchEnds(w)
    <3>1. OnlyWorker(w) /\ wk[w].at \in {"schedule", "record", "parse"}
      BY <2>4, ScheduleEffect, RecordEffect, BatchEndsEffect
    <3> QED BY <3>1 DEF Busy, Engaged, BatchSteps
  <2>5. CASE AfterParse(w) \/ Manifest(w) \/ Extract(w) \/ Verify(w) \/ Withhold(w)
    BY <2>5, AfterParseEffect, ManifestEffect, ExtractEffect, VerifyEffect, WithholdEffect
    DEF Busy, BatchSteps
  <2>6. CASE Publish(w) \/ RecoverRead(w) \/ RecoverDelete(w) \/ RecoverWrite(w)
    BY <2>6, PublishEffect, RecoverReadEffect, RecoverDeleteEffect, RecoverWriteEffect
    DEF Busy, BatchSteps
  <2>7. CASE Fenced(w) \/ Throws(w) \/ Killed(w)
    BY <2>7, StopEffect DEF Busy, BatchSteps
  <2>8. ASSUME NEW d \in Docs,
               \/ MarkStarted(w, d) \/ Dispatch(w, d) \/ Answered(w, d) \/ Capture(w, d)
               \/ DeleteSource(w, d) \/ RecordAttempt(w, d)
        PROVE  OnlyWorker(w) /\ wk[w].at = "parse"
    BY <2>8, ParseDocumentEffect DEF AnswersFor
  <2>9. OnlyWorker(w) /\ wk[w].at = "parse" => Busy(w)
    BY DEF Busy, Engaged, BatchSteps
  <2> QED BY <2>1, <2>2, <2>3, <2>4, <2>5, <2>6, <2>7, <2>8, <2>9
<1> QED BY <1>1, OthersSame DEF OnlyWorker, Busy

LEMMA BusySame ==
  ASSUME TypeOK, UNCHANGED wk
  PROVE  \A v \in Worker : Busy(v)' => Busy(v)
BY OthersSame DEF Busy

LEMMA GateKeeper ==
  ASSUME TypeOK, Next, GateOK,
         run'.status \in ReleasedStatuses => run'.clean = "yes",
         \A r \in Memory(run'.receipts) : r \in run.receipts \/ (r.by \in Worker /\ Marked(r.by)),
         run'.clean = "yes" /\ run'.status \notin WithdrawnStatuses =>
           /\ run.clean = "yes" /\ run'.expected = run.expected
           /\ run.receipts \subseteq run'.receipts
           /\ \A v \in Worker : Busy(v)' => Busy(v)
  PROVE  GateOK'
<1>1. run'.status \notin WithdrawnStatuses => run.status \notin WithdrawnStatuses
  BY WithdrawnStays
<1>2. ASSUME run'.status \notin WithdrawnStatuses, NEW r \in Memory(run'.receipts)
      PROVE  Marked(r.by)'
  <2>1. r.by \in Worker /\ Marked(r.by)
    BY <1>1, <1>2, RowType, ResourceKinds DEF GateOK, Memory
  <2> QED BY <2>1, MarkedStays
<1>3. Sealed => Sealed'
  BY SealedStays, SealedSame
<1> QED BY <1>1, <1>2, <1>3 DEF GateOK

LEMMA WithdrawnGate ==
  ASSUME run'.status \in WithdrawnStatuses
  PROVE  GateOK'
BY StatusGroups DEF GateOK

LEMMA GateKept ==
  ASSUME TypeOK, BatchInv, SealInv, LeaseInv, ReaderInv, Next
  PROVE  GateOK'
<1> USE DEF ReaderInv
<1>1. ASSUME run'.status \in ReleasedStatuses => run.status \in ReleasedStatuses,
             run'.clean = run.clean, KeepsBooks(run'), \A v \in Worker : Busy(v)' => Busy(v)
      PROVE  GateOK'
  <2>1. run'.status \in ReleasedStatuses => run'.clean = "yes"
    BY <1>1 DEF GateOK
  <2> QED BY <1>1, <2>1, GateKeeper DEF KeepsBooks, Memory
<1>2. ASSUME NEW w \in Worker, Claim(w)
      PROVE  GateOK'
  <2>1. run.clean = run'.clean /\ KeepsBooks(run') /\ run'.status \notin ReleasedStatuses
    BY <1>2, ClaimEffect, StatusGroups
  <2> QED BY <1>1, <1>2, <2>1, BusyKept
<1>3. ASSUME NEW w \in Worker, EnterStage(w)
      PROVE  GateOK'
  <2>1. run.clean = run'.clean /\ KeepsBooks(run') /\ run'.status \notin ReleasedStatuses
    BY <1>3, EnterStageEffect, StagingNames, StatusGroups
  <2> QED BY <1>1, <1>3, <2>1, BusyKept
<1>4. ASSUME NEW w \in Worker,
             \/ Read(w) \/ Put(w) \/ Fence(w) \/ Schedule(w) \/ Record(w) \/ BatchEnds(w)
             \/ Manifest(w) \/ Extract(w) \/ RecoverRead(w) \/ RecoverDelete(w)
             \/ Fenced(w) \/ Throws(w) \/ Killed(w)
      PROVE  GateOK'
  <2>1. run.clean = run'.clean /\ KeepsBooks(run') /\ run'.status = run.status
    BY <1>4, ReadEffect, PutEffect, FenceEffect, ScheduleEffect, RecordEffect, BatchEndsEffect,
       ManifestEffect, ExtractEffect, RecoverReadEffect, RecoverDeleteEffect, StopEffect
    DEF KeepsLife, KeepsBooks
  <2> QED BY <1>1, <1>4, <2>1, BusyKept
<1>5. ASSUME NEW w \in Worker, Register(w)
      PROVE  GateOK'
  <2>1. /\ run'.status = run.status /\ run'.receipts = run.receipts /\ run'.clean = run.clean
        /\ run.lease = w /\ Early(w)
    BY <1>5, RegisterEffect DEF KeepsLife, Early, LoadingSteps
  <2>2. ~Sealed
    BY <2>1 DEF SealInv
  <2>3. run.clean = "yes" => run.status \in WithdrawnStatuses
    BY <2>2 DEF GateOK
  <2>4. run'.status \in ReleasedStatuses => run'.clean = "yes"
    BY <2>1 DEF GateOK
  <2> QED BY <2>1, <2>3, <2>4, GateKeeper DEF Memory
<1>6. ASSUME NEW w \in Worker, Arm(w)
      PROVE  GateOK'
  <2>1. /\ run'.status = run.status /\ KeepsBooks(run') /\ run'.clean = run.clean
        /\ run.lease = w /\ wk[w].at = "arm" /\ OnlyWorker(w)
    BY <1>6, ArmEffect DEF KeepsLife
  <2>2. Early(w) \/ Busy(w)
    BY <2>1, LocalType, DocNumbers DEF Early, Busy, Engaged, BatchSteps
  <2>3. run.clean = "yes" => run.status \in WithdrawnStatuses
    BY <2>1, <2>2 DEF GateOK, SealInv
  <2>4. run'.status \in ReleasedStatuses => run'.clean = "yes"
    BY <2>1 DEF GateOK
  <2> QED BY <2>1, <2>3, <2>4, GateKeeper DEF KeepsBooks, Memory
<1>7. ASSUME NEW w \in Worker, NEW d \in Docs,
             MarkStarted(w, d) \/ Dispatch(w, d) \/ Answered(w, d) \/ DeleteSource(w, d)
      PROVE  GateOK'
  <2>1. run.clean = run'.clean /\ KeepsBooks(run') /\ run'.status = run.status
    BY <1>7, MarkStartedEffect, DispatchEffect, AnsweredEffect, DeleteSourceEffect
    DEF KeepsLife, KeepsBooks
  <2> QED BY <1>1, <1>7, <2>1, BusyKept
<1>8. ASSUME NEW w \in Worker, NEW d \in Docs, Capture(w, d) \/ RecordAttempt(w, d)
      PROVE  GateOK'
  <2>1. /\ run'.status = run.status /\ run'.clean = run.clean
        /\ run'.receipts \in {run.receipts, run.receipts \cup (wk[w].got \cap Sources({d}))}
    BY <1>8, CaptureEffect, RecordAttemptEffect DEF KeepsLife
  <2>2. Busy(w)
    BY <1>8, ParseDocumentEffect DEF AnswersFor, Busy, Engaged, BatchSteps
  <2>3. run.clean = "yes" => run.status \in WithdrawnStatuses
    BY <2>2 DEF GateOK
  <2>4. run'.status \in ReleasedStatuses => run'.clean = "yes"
    BY <2>1 DEF GateOK
  <2>5. \A r \in Memory(run'.receipts) : r \in run.receipts
    BY <2>1, ResourceKinds DEF Memory
  <2> QED BY <2>1, <2>3, <2>4, <2>5, GateKeeper
<1>9. ASSUME NEW w \in Worker, AfterParse(w)
      PROVE  GateOK'
  <2>1. /\ run'.status = run.status /\ run'.clean = run.clean
        /\ run'.receipts = run.receipts \cup wk[w].got /\ run'.expected = run.expected
        /\ wk[w].at = "after"
    BY <1>9, AfterParseEffect DEF KeepsLife
  <2>2. wk[w].got \subseteq Sources(Docs)
    BY <2>1, StepSets DEF ReaderOK
  <2>3. \A r \in Memory(run'.receipts) : r \in run.receipts
    BY <2>1, <2>2, ResourceKinds DEF Memory
  <2>4. run'.status \in ReleasedStatuses => run'.clean = "yes"
    BY <2>1 DEF GateOK
  <2> QED BY <1>9, <2>1, <2>3, <2>4, GateKeeper, BusyKept
<1>10. ASSUME NEW w \in Worker, Verify(w)
       PROVE  GateOK'
  <2>1. /\ OnlyWorker(w) /\ run'.status = run.status /\ run.lease = w
        /\ run'.receipts = run.receipts \cup wk[w].held /\ run'.expected = run.expected
        /\ run'.clean = "yes" => run'.expected \subseteq run'.receipts
        /\ wk[w].at = "verify" /\ KeepsParse(wk'[w], w)
        /\ wk'[w].at \in {"publish", "pending", "recoverRead"}
    BY <1>10, VerifyEffect DEF Gate
  <2>2. Marked(w) /\ Engaged(w) /\ run.status \notin ReleasedStatuses
    BY <2>1, ProcessingAssumption DEF BatchInv, BatchOK, AfterSteps, Engaged, LeaseInv
  <2>3. Sealed /\ \A v \in Worker : v # w => ~Engaged(v)
    BY <2>2 DEF SealInv
  <2>4. Sealed' /\ \A v \in Worker : ~Busy(v)'
    BY <2>1, <2>3, SealedStays, SealedSame, OthersSame DEF OnlyWorker, Busy, BatchSteps
  <2>5. \A r \in Memory(run'.receipts) :
          r.by \in Worker /\ (run.status \notin WithdrawnStatuses => Marked(r.by))
    BY <2>1, <2>2, RowType, ResourceKinds DEF GateOK, ReaderOK, Memory
  <2>6. \A r \in Memory(run'.receipts) : run'.status \notin WithdrawnStatuses => Marked(r.by)'
    BY <2>1, <2>5, MarkedStays
  <2> QED BY <2>1, <2>2, <2>4, <2>6 DEF GateOK
<1>11. ASSUME NEW w \in Worker, Withhold(w)
       PROVE  GateOK'
  BY <1>11, WithholdEffect, WithdrawnGate, StatusGroups
<1>12. ASSUME NEW w \in Worker, Publish(w)
       PROVE  GateOK'
  <2>1. /\ CanTransition(run.status, run'.status, run.clean = "yes")
        /\ run'.status \in ReleasedStatuses /\ run'.clean = run.clean /\ KeepsBooks(run')
    BY <1>12, PublishEffect
  <2>2. run'.status \in RunStatuses /\ run.status \in RunStatuses
    BY <1>12, PublishEffect, RowType DEF TypeOK, RunRow
  <2>3. run'.clean = "yes"
    BY <2>1, <2>2, TransitionFacts DEF GateOK
  <2>4. \A v \in Worker : Busy(v)' => Busy(v)
    BY <1>12, BusyKept
  <2> QED BY <2>1, <2>3, <2>4, GateKeeper DEF KeepsBooks, Memory
<1>13. ASSUME NEW w \in Worker, RecoverWrite(w)
       PROVE  GateOK'
  <2>1. run' = run \/ run'.status \in WithdrawnStatuses
    BY <1>13, RecoverWriteEffect, StatusGroups
  <2>2. \A v \in Worker : Busy(v)' => Busy(v)
    BY <1>13, BusyKept
  <2> QED BY <1>1, <2>1, <2>2, WithdrawnGate DEF KeepsBooks
<1>14. ASSUME NEW c \in Cleaner, Revoke(c) \/ Confirm(c)
       PROVE  GateOK'
  <2>1. run' = run \/ run'.status \in WithdrawnStatuses
    BY <1>14, RevokeEffect, ConfirmEffect, StatusGroups
  <2>2. \A v \in Worker : Busy(v)' => Busy(v)
    BY <1>14, CleanerEffect, BusySame
  <2> QED BY <1>1, <2>1, <2>2, WithdrawnGate DEF KeepsBooks
<1>15. ASSUME NEW c \in Cleaner, RecordPoll(c)
       PROVE  GateOK'
  <2>1. /\ run'.status = run.status /\ run'.clean = run.clean /\ UNCHANGED wk
        /\ run'.receipts = run.receipts \cup cl[c].set /\ run'.expected = run.expected
    BY <1>15, RecordPollEffect DEF KeepsLife
  <2>2. \A r \in Memory(run'.receipts) : r \in run.receipts
    BY <2>1, CleanerType, ResourceKinds DEF Memory
  <2>3. run'.status \in ReleasedStatuses => run'.clean = "yes"
    BY <2>1 DEF GateOK
  <2> QED BY <2>1, <2>2, <2>3, GateKeeper, BusySame
<1>16. ASSUME NEW c \in Cleaner,
              \/ Expire(c) \/ Sweep(c) \/ Retry(c) \/ Purge(c)
              \/ CleanerDies(c) \/ \E d \in Docs : Poll(c, d)
       PROVE  GateOK'
  <2>1. UNCHANGED <<run, wk>>
    BY <1>16, StartEffect, PurgeEffect, CleanerDiesEffect, PollEffect
  <2> QED BY <1>1, <2>1, BusySame DEF KeepsBooks
<1>17. ASSUME \/ LeaseElapses \/ (\E w \in Worker : Heartbeat(w))
              \/ \E d \in Docs : AccessEnds(d) \/ SweepUpload(d)
       PROVE  GateOK'
  <2>1. /\ UNCHANGED wk /\ run'.status = run.status /\ run'.clean = run.clean
        /\ KeepsBooks(run')
    BY <1>17, LeaseElapsesEffect, HeartbeatEffect, AccessEndsEffect, SweepUploadEffect
    DEF KeepsLife, KeepsBooks
  <2> QED BY <1>1, <2>1, BusySame
<1> QED
  BY Steps, <1>2, <1>3, <1>4, <1>5, <1>6, <1>7, <1>8, <1>9, <1>10, <1>11, <1>12, <1>13, <1>14,
     <1>15, <1>16, <1>17

LEMMA ReaderSame ==
  ASSUME NEW w \in Worker, ReaderOK(w), KeepsHands(wk'[w], w),
         wk'[w].at \in {"none"} \cup WorkSteps => wk[w].at \in {"none"} \cup WorkSteps
  PROVE  ReaderOK(w)'
BY DEF ReaderOK, KeepsHands, Memory

\* A worker at work collects receipts for sources.
LEMMA ReaderCollects ==
  ASSUME NEW w \in Worker, ReaderOK(w), wk[w].at \in WorkSteps,
         wk'[w].got \subseteq wk[w].got \cup Sources(Docs),
         \A r \in wk'[w].held : r \in wk[w].held \/ (r.by = w /\ r.kind \in {"text", "parsed"})
  PROVE  ReaderOK(w)'
<1>1. wk'[w].got \subseteq Sources(Docs)
  BY DEF ReaderOK
<1>2. Memory(wk'[w].got) = {}
  BY <1>1, ResourceKinds DEF Memory
<1>3. \A r \in wk'[w].held : r.by = w /\ r.kind \in {"text", "parsed"}
  BY DEF ReaderOK
<1> QED BY <1>1, <1>2, <1>3 DEF ReaderOK

LEMMA ReadersKept ==
  ASSUME TypeOK, ReaderInv, Next
  PROVE  \A w \in Worker : ReaderOK(w)'
<1> DEFINE Readers == \A w \in Worker : ReaderOK(w)
<1>0. Readers
  BY DEF ReaderInv
<1>1. ASSUME NEW w \in Worker, OnlyWorker(w), ReaderOK(w)'
      PROVE  Readers'
  <2>1. \A v \in Worker : v # w => ReaderOK(v)'
    BY <1>0, <1>1, ReaderSame DEF OnlyWorker, KeepsHands
  <2> QED BY <1>1, <2>1
<1>2. ASSUME UNCHANGED wk
      PROVE  Readers'
  BY <1>0, <1>2, ReaderSame DEF KeepsHands
<1>3. ASSUME NEW w \in Worker,
             \/ Claim(w) \/ Read(w) \/ Put(w) \/ Fence(w) \/ Register(w)
             \/ Arm(w) \/ Schedule(w) \/ Record(w)
      PROVE  Readers'
  <2>1. /\ OnlyWorker(w) /\ KeepsHands(wk'[w], w) /\ wk[w].at \in {"none"} \cup WorkSteps
    BY <1>3, ClaimEffect, ReadEffect, PutEffect, FenceEffect, RegisterEffect, ArmEffect,
       ScheduleEffect, RecordEffect, StepSets
  <2> QED BY <1>0, <1>1, <2>1, ReaderSame
<1>4. ASSUME NEW w \in Worker,
             \/ AfterParse(w) \/ Manifest(w) \/ Extract(w) \/ Verify(w) \/ Withhold(w)
             \/ Publish(w) \/ RecoverWrite(w) \/ Fenced(w) \/ Throws(w) \/ Killed(w)
      PROVE  Readers'
  <2>1. CASE AfterParse(w) \/ Manifest(w) \/ Extract(w) \/ Verify(w)
    <3>1. /\ OnlyWorker(w) /\ KeepsHands(wk'[w], w) /\ wk[w].at \in WorkSteps
      BY <2>1, AfterParseEffect, ManifestEffect, ExtractEffect, VerifyEffect, StepSets
    <3> QED BY <1>0, <1>1, <3>1, ReaderSame
  <2>2. CASE \/ Withhold(w) \/ Publish(w) \/ RecoverWrite(w)
             \/ Fenced(w) \/ Throws(w) \/ Killed(w)
    <3>1. /\ OnlyWorker(w) /\ KeepsHands(wk'[w], w)
          /\ wk'[w].at \in {"recoverRead", "over", "dead"}
      BY <2>2, WithholdEffect, PublishEffect, RecoverWriteEffect, StopEffect
    <3>2. wk'[w].at \notin {"none"} \cup WorkSteps
      BY <3>1, StepSets
    <3> QED BY <1>0, <1>1, <3>1, <3>2, ReaderSame
  <2> QED BY <1>4, <2>1, <2>2
<1>5. ASSUME NEW w \in Worker, EnterStage(w)
      PROVE  Readers'
  <2>1. /\ OnlyWorker(w) /\ wk[w].at \in StageSteps /\ wk'[w].got = wk[w].got
        /\ wk'[w].held = wk[w].held \/ wk'[w].held = {Text(d, w) : d \in Docs}
    BY <1>5, EnterStageEffect
  <2>2. ReaderOK(w)'
    BY <1>0, <2>1, StagingNames, StepSets, ResourceKinds, ReaderCollects
  <2> QED BY <1>1, <2>1, <2>2
<1>6. ASSUME NEW w \in Worker, BatchEnds(w)
      PROVE  Readers'
  <2>1. /\ OnlyWorker(w) /\ wk[w].at = "parse"
        /\ \/ KeepsHands(wk'[w], w)
           \/ /\ wk'[w].held = wk[w].held \cup
                   {Parsed(d, w) : d \in {e \in Docs : wk[w].parse[e] \in {"parsed", "kept"}}}
              /\ \E deleted \in SUBSET Sources(Last(w) + 1 .. N) :
                   wk'[w].got = wk[w].got \cup deleted
    BY <1>6, BatchEndsEffect
  <2>2. Sources(Last(w) + 1 .. N) \subseteq Sources(Docs)
    <3>1. Last(w) + 1 .. N \subseteq Docs
      BY BatchType, DocNumbers DEF Docs
    <3> QED BY <3>1, ResourceTypes
  <2>3. ReaderOK(w)'
    <3>1. CASE KeepsHands(wk'[w], w)
      BY <1>0, <2>1, <3>1, StepSets, ReaderSame
    <3>2. CASE ~KeepsHands(wk'[w], w)
      <4>1. \A r \in wk'[w].held : r \in wk[w].held \/ (r.by = w /\ r.kind \in {"text", "parsed"})
        BY <2>1, <3>2, ResourceKinds
      <4>2. wk'[w].got \subseteq wk[w].got \cup Sources(Docs)
        BY <2>1, <2>2, <3>2
      <4>3. wk[w].at \in WorkSteps
        BY <2>1, StepSets
      <4> QED BY <1>0, <4>1, <4>2, <4>3, ReaderCollects
    <3> QED BY <3>1, <3>2
  <2> QED BY <1>1, <2>1, <2>3
<1>7. ASSUME NEW w \in Worker, NEW d \in Docs,
             \/ MarkStarted(w, d) \/ Dispatch(w, d) \/ Answered(w, d) \/ Capture(w, d)
             \/ DeleteSource(w, d) \/ RecordAttempt(w, d)
      PROVE  Readers'
  <2>1. OnlyWorker(w) /\ wk[w].at = "parse" /\ wk'[w].held = wk[w].held
    BY <1>7, ParseDocumentEffect DEF AnswersFor
  <2>2. wk'[w].got \subseteq wk[w].got \cup Sources(Docs)
    <3>1. \/ wk'[w].got = wk[w].got
          \/ \E deleted \in SUBSET Sources({d}) : wk'[w].got = wk[w].got \cup deleted
      <4>1. CASE DeleteSource(w, d)
        BY <4>1, DeleteSourceEffect
      <4>2. CASE ~DeleteSource(w, d)
        BY <1>7, <4>2, MarkStartedEffect, DispatchEffect, AnsweredEffect, CaptureEffect,
           RecordAttemptEffect
      <4> QED BY <4>1, <4>2
    <3>2. Sources({d}) \subseteq Sources(Docs)
      BY ResourceTypes
    <3> QED BY <3>1, <3>2
  <2>3. ReaderOK(w)'
    BY <1>0, <2>1, <2>2, StepSets, ReaderCollects
  <2> QED BY <1>1, <2>1, <2>3
<1>8. ASSUME NEW w \in Worker, RecoverRead(w)
      PROVE  Readers'
  <2>1. /\ OnlyWorker(w) /\ wk'[w].at = "recoverDelete" /\ wk'[w].held = wk[w].held
        /\ wk'[w].got \subseteq Sources(Docs) \cup wk[w].held
    BY <1>8, RecoverReadEffect
  <2>2. ReaderOK(w)'
    BY <1>0, <2>1, StepSets, ResourceKinds DEF ReaderOK, Memory
  <2> QED BY <1>1, <2>1, <2>2
<1>9. ASSUME NEW w \in Worker, RecoverDelete(w)
      PROVE  Readers'
  <2>1. /\ OnlyWorker(w) /\ wk'[w].at = "recoverWrite" /\ wk'[w].held = wk[w].held
        /\ wk'[w].got \subseteq wk[w].got
    BY <1>9, RecoverDeleteEffect DEF Memory
  <2>2. ReaderOK(w)'
    BY <1>0, <2>1, StepSets DEF ReaderOK, Memory
  <2> QED BY <1>1, <2>1, <2>2
<1>10. ASSUME \/ \E c \in Cleaner :
                   \/ Expire(c) \/ Sweep(c) \/ Retry(c) \/ Purge(c) \/ RecordPoll(c)
                   \/ Revoke(c) \/ Confirm(c) \/ CleanerDies(c) \/ \E d \in Docs : Poll(c, d)
              \/ LeaseElapses \/ (\E w \in Worker : Heartbeat(w))
              \/ \E d \in Docs : AccessEnds(d) \/ SweepUpload(d)
       PROVE  UNCHANGED wk
  BY <1>10, CleanerEffect, LeaseElapsesEffect, HeartbeatEffect, AccessEndsEffect,
     SweepUploadEffect
<1> QED
  BY Steps, <1>2, <1>3, <1>4, <1>5, <1>6, <1>7, <1>8, <1>9, <1>10

-----------------------------------------------------------------------------
(* The invariant, and what follows from it *)

LEMMA InvariantKept ==
  ASSUME IInv, [Next]_vars
  PROVE  IInv'
<1>1. CASE Next
  <2>1. TypeOK'
    BY <1>1, TypesKept DEF IInv
  <2> QED
    BY <1>1, <2>1, BatchesKept, SealKept, WatchesKept, CallsKept, LeaseKept, GateKept,
       ReadersKept DEF IInv, ReaderInv
<1>2. CASE UNCHANGED vars
  BY <1>2
  DEF vars, world, IInv, TypeOK, BatchInv, BatchOK, SealInv, WatchInv, WatchOK, CallInv, CallOK,
      LeaseInv, ReaderInv, ReaderOK, GateOK, Busy, Engaged, Early, Marked, Sealed, Doomed,
      Parsing, Last, InBatch, Memory
<1> QED BY <1>1, <1>2

LEMMA Invariant == Spec => []IInv
<1>1. Init => IInv
  BY TypesInit, BatchesInit, SealInit, WatchesInit, CallsInit, LeaseInit, ReadersInit DEF IInv
<1>2. IInv /\ [Next]_vars => IInv'
  BY InvariantKept
<1> QED BY <1>1, <1>2, PTL DEF Spec

\* No document is paid for twice or watched twice, and none is paid for unwatched,
\* whatever workers outlive their lease and whatever acknowledgement is lost.
THEOREM PaidOnce == Spec => []PaidOnceAndWatched
<1>1. IInv => PaidOnceAndWatched
  BY DEF IInv, TypeOK, CallInv, WatchInv, PaidOnceAndWatched, PaidAndWatchedOnce, PaidIsWatched
<1> QED BY <1>1, Invariant, PTL

\* In every round what is paid for is watched, and once a document of a batch failed
\* no document of a later batch is paid for: Promise.allSettled ends the analysis.
THEOREM FailureStops == Spec => []RoundsAreSound
<1>1. IInv => FailureStopsPaying
  BY DEF IInv, TypeOK, CallInv, CallOK, Doomed, FailureStopsPaying
<1>2. IInv => PaidIsWatched
  BY DEF IInv, TypeOK, WatchInv, PaidIsWatched
<1>3. IInv => RoundsAreSound
  BY <1>1, <1>2 DEF RoundsAreSound
<1> QED BY <1>3, Invariant, PTL

\* A result is shown only of a run whose page texts were read by one worker.
THEOREM OneReader == Spec => []ReleasedRunHasOneReader
<1>1. IInv => ReleasedRunHasOneReader
  <2> SUFFICES ASSUME IInv, run.status \in ReleasedStatuses,
                      NEW r \in Memory(run.expected), NEW q \in Memory(run.expected)
               PROVE  r.by = q.by
    BY DEF ReleasedRunHasOneReader
  <2>1. run.expected \subseteq run.receipts /\ run.status \notin WithdrawnStatuses
    BY StatusGroups DEF IInv, ReaderInv, GateOK
  <2>2. /\ r.by \in Worker /\ q.by \in Worker
        /\ Marked(r.by) /\ Marked(q.by)
    BY <2>1, RowType, ResourceKinds DEF IInv, ReaderInv, GateOK, Memory
  <2> QED BY <2>2 DEF IInv, SealInv, Engaged
<1> QED BY <1>1, Invariant, PTL

\* A run that failed, waits for its cleanup or expired never shows a result again,
\* whoever writes its row next.
THEOREM WithdrawnIsFinal == Spec => WithdrawnStaysDark
<1>1. TypeOK /\ [Next]_vars =>
        [(run.status \in WithdrawnStatuses => run'.status \in WithdrawnStatuses)]_vars
  BY WithdrawnStays DEF vars
<1> QED BY <1>1, TypesCorrect, PTL DEF Spec, WithdrawnStaysDark

-----------------------------------------------------------------------------
(***************************************************************************)
(* Third part.                                                             *)
(*                                                                         *)
(* What becomes of the sources of a run when a worker whose lease has      *)
(* elapsed has stopped or is in a paid call: no deletion takes a staging   *)
(* object from under the parser, the model never runs beside a source, and *)
(* a run that ended has none left.                                         *)
(*                                                                         *)
(* First, for each thing a step may bring about, the steps that do; then   *)
(* the invariant, whose clauses rest on one another; then the theorems.    *)
(***************************************************************************)

\* Nothing is left of what the resource names.
BlobGone(r) == \A d \in Docs : r = Blob(d) => d \notin raw
StageGone(r) == \A d \in Docs : r = Stage(d) => d \notin staged
Gone(r) == BlobGone(r) /\ StageGone(r)

Working(w) == wk[w].at \in WorkSteps
EndStatuses == ReleasedStatuses \cup {"failed", "expired"}

\* Where a worker receipts only what is gone.
GoneSteps == WorkSteps \cup {"recoverWrite"}

\* Where the memory a worker holds cannot have been receipted.
HoldSteps == {"none"} \cup (WorkSteps \ {"publish", "pending"})

-----------------------------------------------------------------------------
(* What brings what about *)

LEMMA ResourceNames ==
  /\ \A d, e \in Docs : (Stage(d) = Stage(e) <=> d = e) /\ (Blob(d) = Blob(e) <=> d = e)
  /\ \A d, e \in Docs : Stage(d) # Blob(e)
  /\ \A d \in Docs : Stage(d).kind = "staged" /\ Blob(d).kind = "blob"
  /\ \A d \in Docs, ds \in SUBSET Docs : Stage(d) \in Sources(ds) => d \in ds
  /\ \A d \in Docs : Stage(d) \in Sources(Docs) /\ Stage(d) \in Sources({d})
  /\ \A d \in Docs : d \in Uploads => Blob(d) \in Sources(Docs)
BY DEF Stage, Blob, Resource, Sources

LEMMA RawShrinks ==
  ASSUME TypeOK, Next
  PROVE  raw' \subseteq raw
<1>1. ASSUME NEW w \in Worker,
             \/ Claim(w) \/ Heartbeat(w) \/ EnterStage(w) \/ Read(w) \/ Put(w) \/ Fence(w)
             \/ Register(w) \/ Arm(w) \/ Schedule(w) \/ Record(w) \/ BatchEnds(w)
             \/ Fenced(w) \/ Throws(w) \/ Killed(w)
      PROVE  raw' \subseteq raw
  BY <1>1, ClaimEffect, HeartbeatEffect, EnterStageEffect, ReadEffect, PutEffect, FenceEffect,
     RegisterEffect, ArmEffect, ScheduleEffect, RecordEffect, BatchEndsEffect, StopEffect
  DEF SameWorld
<1>2. ASSUME NEW w \in Worker,
             \/ AfterParse(w) \/ Manifest(w) \/ Extract(w) \/ Verify(w) \/ Withhold(w)
             \/ Publish(w) \/ RecoverRead(w) \/ RecoverDelete(w) \/ RecoverWrite(w)
      PROVE  raw' \subseteq raw
  BY <1>2, AfterParseEffect, ManifestEffect, ExtractEffect, VerifyEffect, WithholdEffect,
     PublishEffect, RecoverReadEffect, RecoverDeleteEffect, RecoverWriteEffect DEF SameWorld
<1>3. ASSUME NEW w \in Worker, NEW d \in Docs,
             \/ MarkStarted(w, d) \/ Dispatch(w, d) \/ Answered(w, d) \/ Capture(w, d)
             \/ DeleteSource(w, d) \/ RecordAttempt(w, d)
      PROVE  raw' \subseteq raw
  BY <1>3, MarkStartedEffect, DispatchEffect, AnsweredEffect, CaptureEffect,
     DeleteSourceEffect, RecordAttemptEffect DEF SameWorld
<1>4. ASSUME NEW c \in Cleaner,
             \/ Expire(c) \/ Sweep(c) \/ Retry(c) \/ Purge(c) \/ RecordPoll(c)
             \/ Revoke(c) \/ Confirm(c) \/ CleanerDies(c) \/ \E d \in Docs : Poll(c, d)
      PROVE  raw' \subseteq raw
  BY <1>4, StartEffect, PurgeEffect, RecordPollEffect, RevokeEffect, ConfirmEffect,
     CleanerDiesEffect, PollEffect DEF SameWorld
<1>5. LeaseElapses \/ (\E d \in Docs : AccessEnds(d) \/ SweepUpload(d)) => raw' \subseteq raw
  BY LeaseElapsesEffect, AccessEndsEffect, SweepUploadEffect DEF SameWorld
<1> QED BY Steps, <1>1, <1>2, <1>3, <1>4, <1>5

\* A staging object is only put by a worker that loads, and only taken by one of the
\* four deletions of the code.
LEMMA StagedMoves ==
  ASSUME TypeOK, Next, NEW d \in Docs
  PROVE  /\ d \in staged' => d \in staged \/ \E w \in Worker : Put(w)
         /\ d \in staged /\ d \notin staged' =>
              \/ \E w \in Worker :
                   \/ DeleteSource(w, d)
                   \/ BatchEnds(w) /\ wk'[w].at = "after" /\ d > Last(w)
                   \/ RecoverDelete(w) /\ Stage(d) \in wk[w].got
              \/ \E c \in Cleaner : Purge(c) /\ Stage(d) \in cl[c].set
<1> DEFINE Goes == d \in staged /\ d \notin staged'
<1>1. ASSUME NEW w \in Worker,
             \/ Claim(w) \/ Heartbeat(w) \/ EnterStage(w) \/ Read(w) \/ Fence(w)
             \/ Register(w) \/ Arm(w) \/ Schedule(w) \/ Record(w)
             \/ Fenced(w) \/ Throws(w) \/ Killed(w)
      PROVE  UNCHANGED staged
  BY <1>1, ClaimEffect, HeartbeatEffect, EnterStageEffect, ReadEffect, FenceEffect,
     RegisterEffect, ArmEffect, ScheduleEffect, RecordEffect, StopEffect DEF SameWorld
<1>2. ASSUME NEW w \in Worker,
             \/ AfterParse(w) \/ Manifest(w) \/ Extract(w) \/ Verify(w) \/ Withhold(w)
             \/ Publish(w) \/ RecoverRead(w) \/ RecoverWrite(w)
      PROVE  UNCHANGED staged
  BY <1>2, AfterParseEffect, ManifestEffect, ExtractEffect, VerifyEffect, WithholdEffect,
     PublishEffect, RecoverReadEffect, RecoverWriteEffect DEF SameWorld
<1>3. ASSUME NEW w \in Worker, NEW e \in Docs,
             \/ MarkStarted(w, e) \/ Dispatch(w, e) \/ Answered(w, e) \/ Capture(w, e)
             \/ RecordAttempt(w, e)
      PROVE  UNCHANGED staged
  BY <1>3, MarkStartedEffect, DispatchEffect, AnsweredEffect, CaptureEffect,
     RecordAttemptEffect DEF SameWorld
<1>4. ASSUME NEW w \in Worker, Put(w)
      PROVE  ~Goes
  BY <1>4, PutEffect
<1>5. ASSUME NEW w \in Worker, BatchEnds(w)
      PROVE  (d \in staged' => d \in staged) /\ (Goes => wk'[w].at = "after" /\ d > Last(w))
  <2>1. \/ UNCHANGED staged
        \/ /\ wk'[w].at = "after"
           /\ \E deleted \in SUBSET Sources(Last(w) + 1 .. N) :
                staged' = staged \ {e \in Docs : Stage(e) \in deleted}
    BY <1>5, BatchEndsEffect
  <2>2. Last(w) + 1 .. N \subseteq Docs
    BY BatchType, DocNumbers DEF Docs
  <2>3. Stage(d) \in Sources(Last(w) + 1 .. N) => d > Last(w)
    BY <2>2, ResourceNames, BatchType, DocNumbers
  <2> QED BY <2>1, <2>3
<1>6. ASSUME NEW w \in Worker, NEW e \in Docs, DeleteSource(w, e)
      PROVE  (d \in staged' => d \in staged) /\ (Goes => d = e)
  <2>1. \E deleted \in SUBSET Sources({e}) : staged' = staged \ {x \in Docs : Stage(x) \in deleted}
    BY <1>6, DeleteSourceEffect
  <2>2. Stage(d) \in Sources({e}) => d = e
    BY ResourceNames
  <2> QED BY <2>1, <2>2
<1>7. ASSUME NEW w \in Worker, RecoverDelete(w)
      PROVE  (d \in staged' => d \in staged) /\ (Goes => Stage(d) \in wk[w].got)
  BY <1>7, RecoverDeleteEffect
<1>8. ASSUME NEW c \in Cleaner, Purge(c)
      PROVE  (d \in staged' => d \in staged) /\ (Goes => Stage(d) \in cl[c].set)
  BY <1>8, PurgeEffect
<1>9. ASSUME NEW c \in Cleaner,
             \/ Expire(c) \/ Sweep(c) \/ Retry(c) \/ RecordPoll(c)
             \/ Revoke(c) \/ Confirm(c) \/ CleanerDies(c) \/ \E e \in Docs : Poll(c, e)
      PROVE  UNCHANGED staged
  BY <1>9, StartEffect, RecordPollEffect, RevokeEffect, ConfirmEffect,
     CleanerDiesEffect, PollEffect DEF SameWorld
<1>10. LeaseElapses \/ (\E e \in Docs : AccessEnds(e) \/ SweepUpload(e)) => UNCHANGED staged
  BY LeaseElapsesEffect, AccessEndsEffect, SweepUploadEffect DEF SameWorld
<1> QED BY Steps, <1>1, <1>2, <1>3, <1>4, <1>5, <1>6, <1>7, <1>8, <1>9, <1>10

\* Only the paid POST starts a download, and only it is counted as a call.
LEMMA CallsMove ==
  ASSUME TypeOK, Next, NEW d \in Docs
  PROVE  /\ d \in fetching' => d \in fetching \/ \E w \in Worker : Dispatch(w, d)
         /\ calls[d] > 0 => calls'[d] > 0
<1>1. ASSUME NEW w \in Worker,
             \/ Claim(w) \/ Heartbeat(w) \/ EnterStage(w) \/ Read(w) \/ Put(w) \/ Fence(w)
             \/ Register(w) \/ Arm(w) \/ Schedule(w) \/ Record(w) \/ BatchEnds(w)
             \/ Fenced(w) \/ Throws(w) \/ Killed(w)
      PROVE  UNCHANGED <<fetching, calls>>
  BY <1>1, ClaimEffect, HeartbeatEffect, EnterStageEffect, ReadEffect, PutEffect, FenceEffect,
     RegisterEffect, ArmEffect, ScheduleEffect, RecordEffect, BatchEndsEffect, StopEffect
  DEF SameWorld
<1>2. ASSUME NEW w \in Worker,
             \/ AfterParse(w) \/ Manifest(w) \/ Extract(w) \/ Verify(w) \/ Withhold(w)
             \/ Publish(w) \/ RecoverRead(w) \/ RecoverDelete(w) \/ RecoverWrite(w)
      PROVE  UNCHANGED <<fetching, calls>>
  BY <1>2, AfterParseEffect, ManifestEffect, ExtractEffect, VerifyEffect, WithholdEffect,
     PublishEffect, RecoverReadEffect, RecoverDeleteEffect, RecoverWriteEffect DEF SameWorld
<1>3. ASSUME NEW w \in Worker, NEW e \in Docs,
             \/ MarkStarted(w, e) \/ Capture(w, e) \/ DeleteSource(w, e) \/ RecordAttempt(w, e)
      PROVE  UNCHANGED <<fetching, calls>>
  BY <1>3, MarkStartedEffect, CaptureEffect, DeleteSourceEffect, RecordAttemptEffect
  DEF SameWorld
<1>4. ASSUME NEW w \in Worker, NEW e \in Docs, Answered(w, e)
      PROVE  fetching' \subseteq fetching /\ UNCHANGED calls
  BY <1>4, AnsweredEffect
<1>5. ASSUME NEW w \in Worker, NEW e \in Docs, Dispatch(w, e)
      PROVE  fetching' = fetching \cup {e} /\ calls' = [calls EXCEPT ![e] = @ + 1]
  BY <1>5, DispatchEffect
<1>6. ASSUME NEW c \in Cleaner,
             \/ Expire(c) \/ Sweep(c) \/ Retry(c) \/ Purge(c) \/ RecordPoll(c)
             \/ Revoke(c) \/ Confirm(c) \/ CleanerDies(c) \/ \E e \in Docs : Poll(c, e)
      PROVE  UNCHANGED <<fetching, calls>>
  BY <1>6, CleanerEffect
<1>7. LeaseElapses \/ (\E e \in Docs : AccessEnds(e) \/ SweepUpload(e))
      => fetching' \subseteq fetching /\ UNCHANGED calls
  BY LeaseElapsesEffect, AccessEndsEffect, SweepUploadEffect DEF SameWorld
<1>8. calls[d] \in Nat
  BY DEF TypeOK
<1>9. ASSUME NEW e \in Docs, calls' = [calls EXCEPT ![e] = @ + 1]
      PROVE  calls[d] > 0 => calls'[d] > 0
  BY <1>8, <1>9 DEF TypeOK
<1> QED BY Steps, <1>1, <1>2, <1>3, <1>4, <1>5, <1>6, <1>7, <1>9

\* The row's status and lease are changed by nine actions only.
LEMMA LifeMoves ==
  ASSUME TypeOK, Next
  PROVE  \/ /\ run'.status = run.status /\ run'.lease = run.lease
            /\ run'.leaseTime = run.leaseTime
         \/ \E w \in Worker :
              \/ Claim(w) \/ EnterStage(w) \/ Heartbeat(w) \/ Withhold(w) \/ Publish(w)
              \/ RecoverWrite(w) /\ run.lease = w
         \/ \E c \in Cleaner : Revoke(c) \/ Confirm(c)
         \/ LeaseElapses
<1> DEFINE Same == /\ run'.status = run.status /\ run'.lease = run.lease
                   /\ run'.leaseTime = run.leaseTime
<1>1. ASSUME NEW w \in Worker,
             \/ Read(w) \/ Put(w) \/ Fence(w) \/ Register(w) \/ Arm(w) \/ Schedule(w)
             \/ Record(w) \/ BatchEnds(w)
      PROVE  Same
  BY <1>1, ReadEffect, PutEffect, FenceEffect, RegisterEffect, ArmEffect, ScheduleEffect,
     RecordEffect, BatchEndsEffect DEF KeepsLife
<1>2. ASSUME NEW w \in Worker,
             \/ AfterParse(w) \/ Manifest(w) \/ Extract(w) \/ Verify(w)
             \/ RecoverRead(w) \/ RecoverDelete(w) \/ (RecoverWrite(w) /\ run.lease # w)
             \/ Fenced(w) \/ Throws(w) \/ Killed(w)
      PROVE  Same
  BY <1>2, AfterParseEffect, ManifestEffect, ExtractEffect, VerifyEffect, RecoverReadEffect,
     RecoverDeleteEffect, RecoverWriteEffect, StopEffect DEF KeepsLife
<1>3. ASSUME NEW w \in Worker, NEW d \in Docs,
             \/ MarkStarted(w, d) \/ Dispatch(w, d) \/ Answered(w, d) \/ Capture(w, d)
             \/ DeleteSource(w, d) \/ RecordAttempt(w, d)
      PROVE  Same
  BY <1>3, MarkStartedEffect, DispatchEffect, AnsweredEffect, CaptureEffect,
     DeleteSourceEffect, RecordAttemptEffect DEF KeepsLife
<1>4. ASSUME NEW c \in Cleaner,
             \/ Expire(c) \/ Sweep(c) \/ Retry(c) \/ Purge(c) \/ RecordPoll(c)
             \/ CleanerDies(c) \/ \E d \in Docs : Poll(c, d)
      PROVE  Same
  BY <1>4, StartEffect, PurgeEffect, RecordPollEffect, CleanerDiesEffect, PollEffect
  DEF KeepsLife
<1>5. (\E d \in Docs : AccessEnds(d) \/ SweepUpload(d)) => Same
  BY AccessEndsEffect, SweepUploadEffect DEF KeepsLife
<1> QED BY Steps, <1>1, <1>2, <1>3, <1>4, <1>5

\* Only a worker changes its own state.
LEMMA OneMoves ==
  ASSUME TypeOK, Next, NEW v \in Worker, wk'[v] # wk[v]
  PROVE  \/ Claim(v) \/ EnterStage(v) \/ Read(v) \/ Put(v) \/ Fence(v)
         \/ Register(v) \/ Arm(v) \/ Schedule(v) \/ Record(v) \/ BatchEnds(v)
         \/ AfterParse(v) \/ Manifest(v) \/ Extract(v) \/ Verify(v) \/ Withhold(v)
         \/ Publish(v) \/ RecoverRead(v) \/ RecoverDelete(v) \/ RecoverWrite(v)
         \/ Fenced(v) \/ Throws(v) \/ Killed(v)
         \/ \E d \in Docs :
              \/ MarkStarted(v, d) \/ Dispatch(v, d) \/ Answered(v, d) \/ Capture(v, d)
              \/ DeleteSource(v, d) \/ RecordAttempt(v, d)
<1>1. ASSUME NEW w \in Worker, Claim(w) \/ Arm(w) \/ Heartbeat(w)
      PROVE  (w # v => wk'[v] = wk[v]) /\ (Heartbeat(w) => wk'[v] = wk[v])
  <2>1. Heartbeat(w) => wk' = wk
    BY HeartbeatEffect
  <2>2. Claim(w) => OnlyWorker(w)
    BY ClaimEffect
  <2>3. Arm(w) => OnlyWorker(w)
    BY ArmEffect
  <2> QED BY <1>1, <2>1, <2>2, <2>3 DEF OnlyWorker
<1>2. ASSUME NEW w \in Worker,
             \/ EnterStage(w) \/ Read(w) \/ Put(w) \/ Fence(w) \/ Register(w)
             \/ Schedule(w) \/ Record(w) \/ BatchEnds(w)
             \/ AfterParse(w) \/ Manifest(w) \/ Extract(w) \/ Verify(w) \/ Withhold(w)
             \/ Publish(w) \/ RecoverRead(w) \/ RecoverDelete(w) \/ RecoverWrite(w)
             \/ Fenced(w) \/ Throws(w) \/ Killed(w)
             \/ \E d \in Docs :
                  \/ MarkStarted(w, d) \/ Dispatch(w, d) \/ Answered(w, d) \/ Capture(w, d)
                  \/ DeleteSource(w, d) \/ RecordAttempt(w, d)
      PROVE  w # v => wk'[v] = wk[v]
  BY <1>2, EngagedKept DEF OnlyWorker
<1>3. ASSUME NEW c \in Cleaner,
             \/ Expire(c) \/ Sweep(c) \/ Retry(c) \/ Purge(c) \/ RecordPoll(c)
             \/ Revoke(c) \/ Confirm(c) \/ CleanerDies(c) \/ \E d \in Docs : Poll(c, d)
      PROVE  wk'[v] = wk[v]
  BY <1>3, CleanerEffect
<1>4. LeaseElapses \/ (\E d \in Docs : AccessEnds(d) \/ SweepUpload(d)) => wk'[v] = wk[v]
  BY LeaseElapsesEffect, AccessEndsEffect, SweepUploadEffect
<1> QED BY Steps, <1>1, <1>2, <1>3, <1>4

\* Where a worker that stands somewhere came from.
LEMMA WorkerTurn ==
  ASSUME TypeOK, Next, NEW v \in Worker
  PROVE  /\ wk'[v].at = "none" => wk[v].at = "none"
         /\ Working(v)' => Working(v) \/ Claim(v)
         /\ wk'[v].at \in RecoverySteps => Running(v)
         /\ wk'[v].at \in HoldSteps => wk[v].at \in HoldSteps
         /\ wk'[v].at \in {"extracting", "model"} =>
              wk[v].at \in {"extracting", "model"} \/ Manifest(v)
         /\ wk'[v].at = "recoverWrite" => wk[v].at = "recoverWrite" \/ RecoverDelete(v)
<1> DEFINE OK == /\ wk'[v].at = "none" => wk[v].at = "none"
                 /\ wk'[v].at \in WorkSteps => wk[v].at \in WorkSteps \/ Claim(v)
                 /\ wk'[v].at \in RecoverySteps => wk[v].at \in RunningSteps
                 /\ wk'[v].at \in HoldSteps => wk[v].at \in HoldSteps
                 /\ wk'[v].at \in {"extracting", "model"} =>
                      wk[v].at \in {"extracting", "model"} \/ Manifest(v)
                 /\ wk'[v].at = "recoverWrite" =>
                      wk[v].at = "recoverWrite" \/ RecoverDelete(v)
<1> SUFFICES OK
  BY DEF Working, Running
<1>1. CASE wk'[v] = wk[v]
  BY <1>1, StepSets DEF RecoverySteps
<1>2. CASE Claim(v) \/ Read(v) \/ Put(v) \/ Fence(v) \/ Register(v)
  <2>1. wk[v].at \in {"none", "read", "put", "fence", "register"}
    BY <1>2, ClaimEffect, ReadEffect, PutEffect, FenceEffect, RegisterEffect
  <2>2. wk'[v].at \in {"staging", "read", "put", "fence", "indexing", "parsing", "recoverRead"}
    BY <1>2, ClaimEffect, ReadEffect, PutEffect, FenceEffect, RegisterEffect DEF Proceeds
  <2>3. wk[v].at = "none" => Claim(v) /\ wk'[v].at = "staging"
    BY <1>2, ClaimEffect, ReadEffect, PutEffect, FenceEffect, RegisterEffect
  <2> QED BY <2>1, <2>2, <2>3, StepSets DEF RecoverySteps, HoldSteps
<1>3. CASE EnterStage(v)
  <2>1. wk[v].at \in StageSteps /\ wk'[v].at \in {"recoverRead", Following(wk[v].at)}
    BY <1>3, EnterStageEffect
  <2>2. /\ wk'[v].at \in {"recoverRead", "read", "register", "arm", "manifest", "model",
                          "verifying", "verify"}
        /\ wk'[v].at = "model" => wk[v].at = "extracting"
    BY <2>1, StagingNames DEF Following
  <2> QED BY <2>1, <2>2, StepSets, StagingNames DEF RecoverySteps, HoldSteps
<1>4. CASE Arm(v) \/ Schedule(v) \/ Record(v) \/ BatchEnds(v)
  <2>1. /\ wk[v].at \in {"arm", "schedule", "record", "parse"}
        /\ wk'[v].at \in {"arm", "schedule", "record", "parse", "after", "recoverRead"}
    <3>1. Arm(v) => /\ wk[v].at = "arm"
                    /\ wk'[v].at \in {"arm", "schedule", "recoverRead"}
      BY ArmEffect DEF Advances
    <3>2. Schedule(v) => wk[v].at = "schedule" /\ wk'[v].at \in {"record", "recoverRead"}
      BY ScheduleEffect
    <3>3. Record(v) => /\ wk[v].at = "record"
                       /\ wk'[v].at \in {"record", "parse", "recoverRead"}
      BY RecordEffect
    <3>4. BatchEnds(v) => wk[v].at = "parse" /\ wk'[v].at \in {"arm", "after"}
      BY BatchEndsEffect
    <3> QED BY <1>4, <3>1, <3>2, <3>3, <3>4
  <2> QED BY <2>1, StepSets DEF RecoverySteps, HoldSteps
<1>5. CASE AfterParse(v) \/ Manifest(v) \/ Extract(v) \/ Verify(v) \/ Withhold(v) \/ Publish(v)
  <2>1. /\ wk[v].at \in {"after", "manifest", "model", "verify", "pending", "publish"}
        /\ wk'[v].at \in {"purging", "extracting", "reconciling", "publish", "pending", "over",
                          "recoverRead"}
        /\ wk'[v].at = "extracting" => Manifest(v)
        /\ wk'[v].at \in {"purging", "extracting", "reconciling"} =>
             wk[v].at \in {"after", "manifest", "model"}
    BY <1>5, AfterParseEffect, ManifestEffect, ExtractEffect, VerifyEffect, WithholdEffect,
       PublishEffect
  <2> QED BY <2>1, StepSets DEF RecoverySteps, HoldSteps
<1>6. CASE RecoverRead(v) \/ RecoverDelete(v) \/ RecoverWrite(v)
  <2>1. /\ wk[v].at \in RecoverySteps
        /\ \/ wk'[v].at = "recoverDelete" \/ (wk'[v].at = "recoverWrite" /\ RecoverDelete(v))
           \/ wk'[v].at = "over"
    BY <1>6, RecoverReadEffect, RecoverDeleteEffect, RecoverWriteEffect DEF RecoverySteps
  <2> QED BY <2>1, StepSets DEF RecoverySteps, HoldSteps
<1>7. CASE Fenced(v) \/ Throws(v) \/ Killed(v)
  <2>1. wk[v].at \in RunningSteps /\ wk'[v].at \in {"recoverRead", "dead"}
    BY <1>7, StopEffect DEF Running
  <2> QED BY <2>1, StepSets DEF RecoverySteps, HoldSteps
<1>8. CASE \E d \in Docs : \/ MarkStarted(v, d) \/ Dispatch(v, d) \/ Answered(v, d)
                           \/ Capture(v, d) \/ DeleteSource(v, d) \/ RecordAttempt(v, d)
  <2>1. wk'[v].at = "parse" /\ wk[v].at = "parse"
    BY <1>8, ParseDocumentEffect DEF AnswersFor
  <2> QED BY <2>1, StepSets DEF RecoverySteps, HoldSteps
<1> HIDE DEF OK
<1> QED BY OneMoves, <1>1, <1>2, <1>3, <1>4, <1>5, <1>6, <1>7, <1>8

\* A worker is only early because it was, or because it has just claimed the run.
LEMMA EarlyTurn ==
  ASSUME TypeOK, Next, NEW v \in Worker, Early(v)'
  PROVE  Early(v) \/ Claim(v)
<1>1. CASE wk'[v] = wk[v]
  BY <1>1 DEF Early
<1>2. CASE Arm(v)
  <2>1. /\ wk[v].at = "arm"
        /\ \/ wk'[v].at \in {"recoverRead", "schedule"}
           \/ wk'[v].at = "arm" /\ wk'[v].doc = wk[v].doc + 1
    BY <1>2, ArmEffect DEF Advances
  <2>2. wk[v].doc \in Nat /\ wk[v].doc >= 1
    BY BatchType
  <2> QED BY <2>1, <2>2 DEF Early, LoadingSteps
<1> QED BY OneMoves, EngagedKept, <1>1, <1>2

\* Nothing arms the first watchdog but the worker that arms its batch.
LEMMA SealedComes ==
  ASSUME TypeOK, SealInv, Next, Sealed'
  PROVE  Sealed \/ \E w \in Worker : Arm(w)
<1> SUFFICES ASSUME ~Sealed, \A w \in Worker : ~Arm(w)
             PROVE  run'.watchdog = run.watchdog
  BY SealedSame
<1>1. \A w \in Worker : wk[w].at # "parse"
  BY DEF SealInv, Engaged
<1>2. \A w \in Worker, d \in Docs :
        ~(\/ MarkStarted(w, d) \/ Dispatch(w, d) \/ Answered(w, d) \/ Capture(w, d)
          \/ DeleteSource(w, d) \/ RecordAttempt(w, d))
  BY <1>1, ParseDocumentEffect DEF AnswersFor
<1>3. \A c \in Cleaner : ~RecordPoll(c)
  BY RecordPollEffect DEF SealInv
<1>4. ASSUME NEW w \in Worker,
             \/ Claim(w) \/ Heartbeat(w) \/ EnterStage(w) \/ Read(w) \/ Put(w) \/ Fence(w)
             \/ Register(w) \/ Schedule(w) \/ Record(w) \/ BatchEnds(w)
             \/ Fenced(w) \/ Throws(w) \/ Killed(w)
      PROVE  run'.watchdog = run.watchdog
  BY <1>4, ClaimEffect, HeartbeatEffect, EnterStageEffect, ReadEffect, PutEffect, FenceEffect,
     RegisterEffect, ScheduleEffect, RecordEffect, BatchEndsEffect, StopEffect
  DEF KeepsWatch
<1>5. ASSUME NEW w \in Worker,
             \/ AfterParse(w) \/ Manifest(w) \/ Extract(w) \/ Verify(w) \/ Withhold(w)
             \/ Publish(w) \/ RecoverRead(w) \/ RecoverDelete(w) \/ RecoverWrite(w)
      PROVE  run'.watchdog = run.watchdog
  BY <1>5, AfterParseEffect, ManifestEffect, ExtractEffect, VerifyEffect, WithholdEffect,
     PublishEffect, RecoverReadEffect, RecoverDeleteEffect, RecoverWriteEffect DEF KeepsWatch
<1>6. ASSUME NEW c \in Cleaner,
             \/ Expire(c) \/ Sweep(c) \/ Retry(c) \/ Purge(c)
             \/ Revoke(c) \/ Confirm(c) \/ CleanerDies(c) \/ \E d \in Docs : Poll(c, d)
      PROVE  run'.watchdog = run.watchdog
  BY <1>6, StartEffect, PurgeEffect, RevokeEffect, ConfirmEffect, CleanerDiesEffect,
     PollEffect DEF KeepsWatch
<1>7. LeaseElapses \/ (\E d \in Docs : AccessEnds(d) \/ SweepUpload(d))
      => run'.watchdog = run.watchdog
  BY LeaseElapsesEffect, AccessEndsEffect, SweepUploadEffect DEF KeepsWatch
<1> QED BY Steps, <1>2, <1>3, <1>4, <1>5, <1>6, <1>7

-----------------------------------------------------------------------------
(* A worker is alone with its run *)

\* A worker that loads has a live lease; one whose lease has elapsed and that goes
\* on was in a paid call, so that the run cannot be claimed again.
LeaseOK(w) ==
  /\ Early(w) => run.leaseTime = "live"
  /\ Running(w) => /\ run.lease \in {w, Nobody}
                   /\ run.leaseTime = "elapsed" => Sealed

\* A second worker claims only when the first one has stopped; none is loading
\* any more when a watchdog is armed; and an expired run has no worker.
AloneInv ==
  /\ \A w \in Worker : LeaseOK(w)
  /\ \A v, w \in Worker : Running(v) /\ Running(w) => v = w
  /\ \A w \in Worker : Early(w) => ~Sealed
  /\ run.status = "expired" => run.leaseTime = "none" /\ run.lease = Nobody

\* A paid call is made only by a worker that armed a watchdog.
LEMMA PaidIsSealed ==
  ASSUME TypeOK, BatchInv, SealInv, NEW w \in Worker, AwaitsProvider(w)
  PROVE  Sealed
<1>1. Engaged(w)
  BY DEF AwaitsProvider, Engaged, BatchInv, BatchOK, AfterSteps
<1> QED BY <1>1 DEF SealInv

LEMMA AloneInit ==
  ASSUME Init
  PROVE  AloneInv
BY ProcessingAssumption, StepSets
DEF Init, AloneInv, LeaseOK, Working, Running, Early, LoadingSteps

\* Without zombies, a worker that has sealed nothing keeps the lease from elapsing.
LEMMA AloneKept ==
  ASSUME ~Zombies, TypeOK, BatchInv, SealInv, LeaseInv, AloneInv, Next
  PROVE  AloneInv'
<1>1. \A v \in Worker : Working(v) => Running(v)
  BY StepSets DEF Working, Running
<1>2. \A v \in Worker : Running(v)' => Running(v) \/ Claim(v)
  BY WorkerTurn, <1>1, StepSets DEF Running, Working, RecoverySteps
<1>3. \A w \in Worker : Claim(w) => AloneInv'
  <2> SUFFICES ASSUME NEW w \in Worker, Claim(w)
               PROVE  AloneInv'
    OBVIOUS
  <2>1. \A v \in Worker : ~Running(v)
    <3>1. CASE run.status = "queued"
      BY <3>1, StepSets DEF LeaseInv, Running
    <3>2. CASE run.leaseTime = "elapsed"
      <4>1. ~Sealed
        BY ClaimEffect DEF Sealed
      <4> QED BY <3>2, <4>1 DEF AloneInv, LeaseOK
    <3> QED BY <3>1, <3>2, ClaimEffect
  <2>2. \A v \in Worker : v # w => ~Running(v)'
    BY <2>1, ClaimEffect DEF OnlyWorker, Running
  <2>3. \A v \in Worker : v # w => ~Early(v)'
    BY <2>2, StepSets DEF Running, Early, LoadingSteps
  <2>4. /\ run'.leaseTime = "live" /\ run'.lease = w /\ run'.status # "expired"
        /\ ~Sealed'
    BY ClaimEffect DEF KeepsWatch, Sealed
  <2>5. \A v \in Worker : LeaseOK(v)'
    BY <2>2, <2>3, <2>4 DEF LeaseOK
  <2> QED BY <2>2, <2>3, <2>4, <2>5 DEF AloneInv
<1>4. ASSUME \A w \in Worker : ~Claim(w)
      PROVE  AloneInv'
  <2>1. \A v \in Worker : /\ Running(v)' => Running(v)
                          /\ Working(v)' => Working(v)
                          /\ Early(v)' => Early(v)
    BY <1>2, <1>4, WorkerTurn, EarlyTurn
  <2>2. \A v, w \in Worker : Running(v)' /\ Running(w)' => v = w
    BY <2>1 DEF AloneInv
  <2>3. ASSUME NEW w \in Worker, Early(w)'
        PROVE  ~Sealed'
    <3>1. Early(w) /\ ~Sealed /\ Running(w)
      BY <2>1, <2>3, StepSets DEF AloneInv, Early, LoadingSteps, Running
    <3>2. ASSUME NEW v \in Worker, Arm(v)
          PROVE  FALSE
      <4>1. v = w
        BY <3>1, <3>2, ArmEffect, StepSets DEF AloneInv, Running
      <4>2. /\ wk[w].at = "arm"
            /\ \/ wk'[w].at \in {"recoverRead", "schedule"}
               \/ wk'[w].at = "arm" /\ wk'[w].doc = wk[w].doc + 1
        BY <3>2, <4>1, ArmEffect DEF Advances
      <4>3. wk[w].doc \in Nat /\ wk[w].doc >= 1
        BY BatchType
      <4> QED BY <2>3, <4>2, <4>3 DEF Early, LoadingSteps
    <3> QED BY <3>1, <3>2, SealedComes
  <2>4. ASSUME NEW w \in Worker, Running(w)'
        PROVE  run'.lease \in {w, Nobody} /\ (run'.leaseTime = "elapsed" => Sealed')
    <3>1. /\ Running(w) /\ run.lease \in {w, Nobody}
          /\ run.leaseTime = "elapsed" => Sealed
      BY <2>1, <2>4 DEF AloneInv, LeaseOK
    <3>2. LeaseElapses => run'.lease = run.lease /\ Sealed
      BY <3>1, LeaseElapsesEffect, PaidIsSealed
    <3>3. ASSUME NEW v \in Worker,
                 \/ EnterStage(v) \/ Heartbeat(v) \/ Withhold(v) \/ Publish(v)
                 \/ RecoverWrite(v) /\ run.lease = v
          PROVE  run'.leaseTime \in {run.leaseTime, "live", "none"}
                 /\ run'.lease \in {run.lease, Nobody}
      BY <3>3, EnterStageEffect, HeartbeatEffect, WithholdEffect, PublishEffect,
         RecoverWriteEffect
    <3>4. ASSUME NEW c \in Cleaner, Revoke(c) \/ Confirm(c)
          PROVE  run'.leaseTime \in {run.leaseTime, "none"}
                 /\ run'.lease \in {run.lease, Nobody}
      BY <3>4, RevokeEffect, ConfirmEffect
    <3>5. run'.lease \in {w, Nobody} /\ (run'.leaseTime = "elapsed" => Sealed)
      BY <1>4, <3>1, <3>2, <3>3, <3>4, LifeMoves
    <3> QED BY <3>5, SealedStays, SealedSame
  <2>5. ASSUME NEW w \in Worker, Early(w)'
        PROVE  run'.leaseTime = "live"
    <3>1. Early(w) /\ Running(w) /\ run.leaseTime = "live" /\ ~Sealed
      BY <2>1, <2>5, StepSets DEF AloneInv, LeaseOK, Early, LoadingSteps, Running
    <3>2. ~LeaseElapses
      BY <3>1, LeaseElapsesEffect, PaidIsSealed
    <3>3. ASSUME NEW v \in Worker, EnterStage(v) \/ Heartbeat(v) \/ Withhold(v)
          PROVE  run'.leaseTime = "live"
      BY <3>1, <3>3, EnterStageEffect, HeartbeatEffect, WithholdEffect
    <3>4. ASSUME NEW v \in Worker, Publish(v) \/ RecoverWrite(v)
          PROVE  FALSE
      <4>1. Running(v) /\ wk'[v].at \in {"over", "recoverRead"}
        BY <3>4, PublishEffect, RecoverWriteEffect, StepSets DEF Running
      <4>2. v = w
        BY <3>1, <4>1 DEF AloneInv
      <4> QED BY <2>5, <4>1, <4>2 DEF Early, LoadingSteps
    <3>5. ASSUME NEW c \in Cleaner, Revoke(c) \/ Confirm(c)
          PROVE  run'.leaseTime = "live"
      BY <3>1, <3>5, RevokeEffect, ConfirmEffect DEF Quiet
    <3> QED BY <1>4, <3>1, <3>2, <3>3, <3>4, <3>5, LifeMoves
  <2>6. ASSUME run'.status = "expired"
        PROVE  run'.leaseTime = "none" /\ run'.lease = Nobody
    <3>1. \A v \in Worker : ~(\/ EnterStage(v) \/ Withhold(v) \/ Publish(v)
                              \/ RecoverWrite(v) /\ run.lease = v)
      BY <2>6, EnterStageEffect, StagingNames, WithholdEffect, PublishEffect,
         RecoverWriteEffect, StatusGroups
    <3>2. \A v \in Worker : ~Heartbeat(v)
      BY <2>6, HeartbeatEffect, StatusGroups
    <3>3. \A c \in Cleaner : Revoke(c) \/ Confirm(c) =>
            \/ run' = run
            \/ run'.leaseTime = "none" /\ run'.lease = Nobody
      BY <2>6, RevokeEffect, ConfirmEffect
    <3>4. ~LeaseElapses
      BY <2>6, LeaseElapsesEffect DEF AloneInv
    <3> QED BY <1>4, <2>6, <3>1, <3>2, <3>3, <3>4, LifeMoves DEF AloneInv
  <2>7. \A w \in Worker : LeaseOK(w)'
    BY <2>4, <2>5 DEF LeaseOK
  <2> QED BY <2>2, <2>3, <2>6, <2>7 DEF AloneInv
<1> QED BY <1>3, <1>4

-----------------------------------------------------------------------------
(* What is receipted is gone *)

\* A worker receipts what it saw removed, and an early one has removed nothing.
HandsOK(w) ==
  /\ wk[w].at \in GoneSteps => \A r \in wk[w].got : Gone(r)
  /\ Early(w) \/ wk[w].at = "none" => wk[w].got = {}

\* So does a cleaner, except that a worker that was revoked only now may put back
\* a staging object, for which no such attempt is confirmed.
SetOK(c) ==
  /\ cl[c].at = "attempt" => \A r \in cl[c].set : Gone(r)
  /\ cl[c].at = "confirm" =>
       \A r \in cl[c].set : BlobGone(r) /\ (cl[c].quiet = "yes" => StageGone(r))
  /\ cl[c].at \in {"purge", "confirm"} =>
       /\ run.status \in WithdrawnStatuses /\ run.lease = Nobody
       /\ cl[c].quiet = "yes" => run.leaseTime # "live"
       /\ cl[c].quiet # "yes" /\ run.leaseTime = "none" => staged = {}

BooksOK ==
  /\ \A r \in run.receipts : BlobGone(r) /\ (run.lease # Nobody => StageGone(r))
  /\ run.status \notin WithdrawnStatuses =>
       \A d \in Docs : Stage(d) \in run.receipts => Sealed
  /\ run.status # "expired" => Sources(Docs) \subseteq run.expected

\* At the end, and where the model is called, no source is left.
EndOK ==
  /\ run.status \in EndStatuses => staged = {} /\ raw = {} /\ \A w \in Worker : ~Early(w)
  /\ \A w \in Worker : wk[w].at \in {"extracting", "model"} => staged = {} /\ raw = {}
  /\ \A w \in Worker : Running(w) /\ run.leaseTime = "none" => staged = {}

SourceInv ==
  /\ BooksOK /\ EndOK
  /\ \A w \in Worker : HandsOK(w)
  /\ \A c \in Cleaner : SetOK(c)

LEMMA SourcesInit ==
  ASSUME Init
  PROVE  SourceInv
<1>1. BooksOK
  BY DEF Init, BooksOK
<1>2. EndOK
  BY StepSets, StatusGroups, StatusNames DEF Init, EndOK, EndStatuses, Running,
     ReleasedStatuses
<1>3. \A w \in Worker : HandsOK(w)
  BY DEF Init, HandsOK
<1>4. \A c \in Cleaner : SetOK(c)
  BY DEF Init, SetOK
<1> QED BY <1>1, <1>2, <1>3, <1>4 DEF SourceInv

\* What is gone comes back only by a worker that stages it.
LEMMA GoneStays ==
  ASSUME TypeOK, Next, NEW r
  PROVE  /\ BlobGone(r) => BlobGone(r)'
         /\ StageGone(r) /\ (\A w \in Worker : ~Put(w)) => StageGone(r)'
         /\ Gone(r) /\ (\A w \in Worker : ~Put(w)) => Gone(r)'
         /\ staged = {} /\ (\A w \in Worker : ~Put(w)) => staged' = {}
         /\ raw = {} => raw' = {}
<1>1. raw' \subseteq raw
  BY RawShrinks
<1>2. (\A w \in Worker : ~Put(w)) => \A d \in Docs : d \in staged' => d \in staged
  BY StagedMoves
<1>3. staged' \subseteq Docs
  BY TypesKept DEF TypeOK
<1> QED BY <1>1, <1>2, <1>3 DEF Gone, BlobGone, StageGone

\* The worker that stages is alone, has armed nothing and removed nothing.
LEMMA PutAlone ==
  ASSUME TypeOK, AloneInv, SourceInv, NEW w \in Worker, Put(w)
  PROVE  /\ Working(w) /\ Early(w) /\ ~Sealed /\ run.leaseTime = "live"
         /\ run.lease \in {w, Nobody} /\ wk[w].got = {} /\ wk[w].at = "put"
         /\ \A v \in Worker : Running(v) => v = w
<1>1. wk[w].at = "put"
  BY PutEffect
<1>2. Working(w) /\ Early(w) /\ Running(w)
  BY <1>1, StepSets DEF Working, Early, LoadingSteps, Running
<1> QED BY <1>1, <1>2 DEF AloneInv, LeaseOK, SourceInv, HandsOK

LEMMA NothingLeft ==
  ASSUME TypeOK, \A r \in Sources(Docs) : Gone(r)
  PROVE  staged = {} /\ raw = {}
<1>1. \A d \in Docs : d \notin staged
  BY ResourceNames DEF Gone, StageGone
<1>2. \A d \in Docs : d \in Uploads => d \notin raw
  BY ResourceNames DEF Gone, BlobGone
<1> QED BY <1>1, <1>2, ProcessingAssumption DEF TypeOK

\* The three writes that end a run find nothing left.
LEMMA PublishEmpties ==
  ASSUME TypeOK, LeaseInv, ReaderInv, AloneInv, SourceInv, NEW w \in Worker, Publish(w)
  PROVE  staged = {} /\ raw = {}
<1>1. /\ run.lease = w /\ wk[w].at = "publish" /\ run'.status \in ReleasedStatuses
      /\ CanTransition(run.status, run'.status, run.clean = "yes")
  BY PublishEffect
<1>2. run.status \in LeasedStatuses
  BY <1>1, StepSets DEF LeaseInv
<1>3. run.status \in RunStatuses /\ run'.status \in RunStatuses
  BY PublishEffect, RowType DEF TypeOK, RunRow
<1>4. run.clean = "yes" /\ run.status \notin WithdrawnStatuses
  BY <1>1, <1>2, <1>3, TransitionFacts, StatusGroups
<1>5. Sources(Docs) \subseteq run.receipts
  <2>1. run.expected \subseteq run.receipts
    BY <1>4 DEF ReaderInv, GateOK
  <2>2. run.status # "expired"
    BY <1>4, StatusGroups
  <2> QED BY <2>1, <2>2 DEF SourceInv, BooksOK
<1>6. run.lease # Nobody
  BY <1>1, ProcessingAssumption
<1>7. \A r \in Sources(Docs) : Gone(r)
  BY <1>5, <1>6 DEF SourceInv, BooksOK, Gone
<1> QED BY <1>7, NothingLeft

LEMMA RecoverEmpties ==
  ASSUME TypeOK, AloneInv, SourceInv, NEW w \in Worker, RecoverWrite(w), run.lease = w,
         run'.status # "cleanup_pending"
  PROVE  staged = {} /\ raw = {}
<1>1. /\ wk[w].at = "recoverWrite" /\ Gate(run') /\ run'.expected = run.expected
      /\ run'.receipts = run.receipts \cup wk[w].got
  BY RecoverWriteEffect
<1>2. run.lease # Nobody
  BY ProcessingAssumption
<1>3. run.status # "expired"
  BY <1>2 DEF AloneInv
<1>4. Sources(Docs) \subseteq run.receipts \cup wk[w].got
  BY <1>1, <1>3 DEF SourceInv, BooksOK, Gate
<1>5. \A r \in run.receipts : Gone(r)
  BY <1>2 DEF SourceInv, BooksOK, Gone
<1>6. \A r \in wk[w].got : Gone(r)
  BY <1>1 DEF SourceInv, HandsOK, GoneSteps
<1> QED BY <1>4, <1>5, <1>6, NothingLeft

LEMMA ConfirmEmpties ==
  ASSUME TypeOK, AloneInv, SourceInv, NEW c \in Cleaner, Confirm(c), run' # run,
         run'.status # "cleanup_pending"
  PROVE  staged = {} /\ raw = {} /\ \A w \in Worker : ~Early(w)
<1>1. /\ cl[c].at = "confirm" /\ run.status # "expired" /\ Quiet(c)
      /\ \A r \in run.expected : \/ r \in Memory(run.expected)
                                 \/ r \in cl[c].set
                                 \/ r \in run.receipts /\ r.kind # "staged"
  BY ConfirmEffect
<1>2. \A w \in Worker : ~Early(w)
  BY <1>1 DEF Quiet, AloneInv, LeaseOK
<1>3. \A r \in Sources(Docs) : r \in cl[c].set \/ (r \in run.receipts /\ r.kind # "staged")
  BY <1>1, ResourceKinds DEF SourceInv, BooksOK, Memory
<1>4. \A r \in Sources(Docs) : BlobGone(r)
  BY <1>1, <1>3 DEF SourceInv, SetOK, BooksOK
<1>5. CASE cl[c].quiet = "yes"
  <2>1. \A r \in Sources(Docs) : StageGone(r)
    <3>1. \A r \in cl[c].set : StageGone(r)
      BY <1>1, <1>5 DEF SourceInv, SetOK
    <3>2. \A r : r.kind # "staged" => StageGone(r)
      BY ResourceNames DEF StageGone
    <3> QED BY <1>3, <3>1, <3>2
  <2> QED BY <1>2, <1>4, <2>1, NothingLeft DEF Gone
<1>6. CASE cl[c].quiet # "yes"
  <2>1. staged = {}
    BY <1>1, <1>6 DEF Quiet, SourceInv, SetOK
  <2>2. \A r \in Sources(Docs) : Gone(r)
    BY <1>4, <2>1 DEF Gone, StageGone
  <2> QED BY <1>2, <2>2, NothingLeft
<1> QED BY <1>5, <1>6

\* Three deletions, and the read of what is left to delete, change what a worker
\* has in its hands to receipt.
LEMMA GotMoves ==
  ASSUME TypeOK, Next, NEW v \in Worker, wk'[v].got # wk[v].got
  PROVE  \/ BatchEnds(v) \/ RecoverRead(v) \/ RecoverDelete(v)
         \/ \E d \in Docs : DeleteSource(v, d)
<1>1. CASE wk'[v] = wk[v]
  BY <1>1
<1>2. CASE \/ Claim(v) \/ EnterStage(v) \/ Read(v) \/ Put(v) \/ Fence(v) \/ Register(v)
           \/ Arm(v) \/ Schedule(v) \/ Record(v)
  <2>1. ~(Claim(v) \/ EnterStage(v) \/ Read(v))
    BY ClaimEffect, EnterStageEffect, ReadEffect DEF KeepsHands
  <2>2. ~(Put(v) \/ Fence(v) \/ Register(v))
    BY PutEffect, FenceEffect, RegisterEffect DEF KeepsHands
  <2>3. ~(Arm(v) \/ Schedule(v))
    BY ArmEffect, ScheduleEffect DEF KeepsHands
  <2>4. ~Record(v)
    BY RecordEffect DEF KeepsHands
  <2> QED BY <1>2, <2>1, <2>2, <2>3, <2>4
<1>3. CASE \/ AfterParse(v) \/ Manifest(v) \/ Extract(v) \/ Verify(v) \/ Withhold(v)
           \/ Publish(v) \/ RecoverWrite(v) \/ Fenced(v) \/ Throws(v) \/ Killed(v)
  <2>1. ~(AfterParse(v) \/ Manifest(v) \/ Extract(v))
    BY AfterParseEffect, ManifestEffect, ExtractEffect DEF KeepsHands
  <2>2. ~(Verify(v) \/ Withhold(v) \/ Publish(v))
    BY VerifyEffect, WithholdEffect, PublishEffect DEF KeepsHands
  <2>3. ~(RecoverWrite(v) \/ Fenced(v) \/ Throws(v) \/ Killed(v))
    BY RecoverWriteEffect, StopEffect DEF KeepsHands
  <2> QED BY <1>3, <2>1, <2>2, <2>3
<1>4. CASE \E d \in Docs : \/ MarkStarted(v, d) \/ Dispatch(v, d) \/ Answered(v, d)
                           \/ Capture(v, d) \/ RecordAttempt(v, d)
  BY <1>4, MarkStartedEffect, DispatchEffect, AnsweredEffect, CaptureEffect,
     RecordAttemptEffect
<1> QED BY OneMoves, <1>1, <1>2, <1>3, <1>4

LEMMA HandsKept ==
  ASSUME TypeOK, BatchInv, AloneInv, SourceInv, Next, NEW w \in Worker
  PROVE  HandsOK(w)'
<1>1. Early(w)' \/ wk'[w].at = "none" => wk'[w].got = {}
  <2> SUFFICES ASSUME Early(w)' \/ wk'[w].at = "none"
               PROVE  wk'[w].got = {}
    OBVIOUS
  <2>1. wk[w].got = {}
    BY WorkerTurn, EarlyTurn, ClaimEffect DEF SourceInv, HandsOK
  <2>2. ASSUME NEW d \in Docs, DeleteSource(w, d)
        PROVE  FALSE
    BY <2>2, DeleteSourceEffect DEF AnswersFor, Early, LoadingSteps
  <2>3. ~RecoverRead(w) /\ ~RecoverDelete(w)
    BY RecoverReadEffect, RecoverDeleteEffect DEF Early, LoadingSteps
  <2>4. ~BatchEnds(w)
    <3>1. ASSUME BatchEnds(w)
          PROVE  /\ wk'[w].at \in {"arm", "after"}
                 /\ wk'[w].at = "arm" => wk'[w].doc = Last(w) + 1
      BY <3>1, BatchEndsEffect
    <3>2. Last(w) \in Nat /\ Last(w) + 1 # 1
      BY BatchType
    <3> QED BY <3>1, <3>2 DEF Early, LoadingSteps
  <2> QED BY <2>1, <2>2, <2>3, <2>4, GotMoves
<1>2. ASSUME wk'[w].at \in GoneSteps, NEW r \in wk'[w].got
      PROVE  Gone(r)'
  <2>1. CASE r \in wk[w].got /\ ~RecoverDelete(w)
    <3>1. wk[w].at \in GoneSteps \/ Claim(w)
      BY <1>2, <2>1, WorkerTurn DEF GoneSteps, Working
    <3>2. ~Claim(w)
      BY <2>1, ClaimEffect DEF SourceInv, HandsOK
    <3>3. Gone(r) /\ Running(w)
      BY <2>1, <3>1, <3>2, StepSets DEF SourceInv, HandsOK, GoneSteps, Running
    <3>4. \A v \in Worker : ~Put(v)
      BY <2>1, <3>3, PutAlone
    <3> QED BY <3>3, <3>4, GoneStays
  <2>2. CASE RecoverDelete(w)
    <3>1. PICK deleted \in SUBSET (wk[w].got \ Memory(wk[w].got)) :
               /\ wk'[w].got = deleted \cup Memory(wk[w].got)
               /\ staged' = staged \ {d \in Docs : Stage(d) \in deleted}
               /\ raw' = raw \ {d \in Docs : Blob(d) \in deleted}
      BY <2>2, RecoverDeleteEffect
    <3>2. CASE r \in deleted
      BY <3>1, <3>2 DEF Gone, BlobGone, StageGone, Stage, Blob, Resource
    <3>3. CASE r \in Memory(wk[w].got)
      <4>1. \A d \in Docs : r # Stage(d) /\ r # Blob(d)
        BY <3>3, ResourceNames DEF Memory
      <4> QED BY <4>1 DEF Gone, BlobGone, StageGone, Stage, Blob, Resource
    <3> QED BY <1>2, <3>1, <3>2, <3>3
  <2>3. CASE r \notin wk[w].got /\ ~RecoverDelete(w)
    <3>1. ~RecoverRead(w)
      BY <1>2, RecoverReadEffect, StepSets DEF GoneSteps
    <3>2. CASE BatchEnds(w)
      <4>1. PICK deleted \in SUBSET Sources(Last(w) + 1 .. N) :
                 /\ wk'[w].got = wk[w].got \cup deleted
                 /\ staged' = staged \ {d \in Docs : Stage(d) \in deleted}
                 /\ raw' = raw \ {d \in Docs : Blob(d) \in deleted}
        BY <1>2, <2>3, <3>2, BatchEndsEffect DEF KeepsHands
      <4>2. r \in deleted
        BY <1>2, <2>3, <4>1
      <4> QED BY <4>1, <4>2 DEF Gone, BlobGone, StageGone, Stage, Blob, Resource
    <3>3. ASSUME NEW d \in Docs, DeleteSource(w, d)
          PROVE  Gone(r)'
      <4>1. PICK deleted \in SUBSET Sources({d}) :
                 /\ wk'[w].got = wk[w].got \cup deleted
                 /\ staged' = staged \ {e \in Docs : Stage(e) \in deleted}
                 /\ raw' = raw \ {e \in Docs : Blob(e) \in deleted}
        BY <3>3, DeleteSourceEffect
      <4>2. r \in deleted
        BY <1>2, <2>3, <4>1
      <4> QED BY <4>1, <4>2 DEF Gone, BlobGone, StageGone, Stage, Blob, Resource
    <3> QED BY <1>2, <2>3, <3>1, <3>2, <3>3, GotMoves
  <2> QED BY <2>1, <2>2, <2>3
<1> QED BY <1>1, <1>2 DEF HandsOK

\* Where a cleaner that removes or confirms came from.
LEMMA CleanerTurn ==
  ASSUME TypeOK, Next, NEW c \in Cleaner
  PROVE  \/ cl'[c] = cl[c]
         \/ cl'[c].at \in {"idle", "revoke", "revokeIf"}
         \/ \E d \in Docs : Poll(c, d) /\ cl'[c].at = "unlink"
         \/ Purge(c)
         \/ Revoke(c) /\ cl'[c].at = "purge"
<1> DEFINE OK == \/ cl'[c] = cl[c]
                 \/ cl'[c].at \in {"idle", "revoke", "revokeIf"}
                 \/ \E d \in Docs : Poll(c, d) /\ cl'[c].at = "unlink"
                 \/ Purge(c)
                 \/ Revoke(c) /\ cl'[c].at = "purge"
<1>1. ASSUME NEW w \in Worker,
             \/ Claim(w) \/ Heartbeat(w) \/ EnterStage(w) \/ Read(w) \/ Put(w) \/ Fence(w)
             \/ Register(w) \/ Arm(w) \/ Schedule(w) \/ Record(w) \/ BatchEnds(w)
             \/ Fenced(w) \/ Throws(w) \/ Killed(w)
      PROVE  UNCHANGED cl
  BY <1>1, ClaimEffect, HeartbeatEffect, EnterStageEffect, ReadEffect, PutEffect, FenceEffect,
     RegisterEffect, ArmEffect, ScheduleEffect, RecordEffect, BatchEndsEffect, StopEffect
<1>2. ASSUME NEW w \in Worker,
             \/ AfterParse(w) \/ Manifest(w) \/ Extract(w) \/ Verify(w) \/ Withhold(w)
             \/ Publish(w) \/ RecoverRead(w) \/ RecoverDelete(w) \/ RecoverWrite(w)
      PROVE  UNCHANGED cl
  BY <1>2, AfterParseEffect, ManifestEffect, ExtractEffect, VerifyEffect, WithholdEffect,
     PublishEffect, RecoverReadEffect, RecoverDeleteEffect, RecoverWriteEffect
<1>3. ASSUME NEW w \in Worker, NEW d \in Docs,
             \/ MarkStarted(w, d) \/ Dispatch(w, d) \/ Answered(w, d) \/ Capture(w, d)
             \/ DeleteSource(w, d) \/ RecordAttempt(w, d)
      PROVE  UNCHANGED cl
  BY <1>3, ParseDocumentEffect
<1>4. ASSUME NEW b \in Cleaner,
             \/ Expire(b) \/ Sweep(b) \/ Retry(b) \/ Purge(b) \/ RecordPoll(b)
             \/ Revoke(b) \/ Confirm(b) \/ CleanerDies(b) \/ \E d \in Docs : Poll(b, d)
      PROVE  OK
  <2>1. CASE b # c
    BY <1>4, <2>1, CleanerEffect DEF OnlyCleaner
  <2>2. CASE b = c
    BY <1>4, <2>2, StartEffect, RecordPollEffect, RevokeEffect, ConfirmEffect,
       CleanerDiesEffect, PollEffect
  <2> QED BY <2>1, <2>2
<1>5. LeaseElapses \/ (\E d \in Docs : AccessEnds(d) \/ SweepUpload(d)) => UNCHANGED cl
  BY LeaseElapsesEffect, AccessEndsEffect, SweepUploadEffect
<1> QED BY Steps, <1>1, <1>2, <1>3, <1>4, <1>5

LEMMA SetKept ==
  ASSUME ~Zombies, TypeOK, SealInv, LeaseInv, ReaderInv, AloneInv, SourceInv, Next,
         NEW c \in Cleaner
  PROVE  SetOK(c)'
<1>1. \A w \in Worker : Put(w) => ~Sealed /\ run.leaseTime = "live"
  BY PutAlone
<1>2. ASSUME cl'[c].at = "attempt", NEW r \in cl'[c].set
      PROVE  Gone(r)'
  <2>1. CASE Purge(c)
    BY <1>2, <2>1, PurgeEffect DEF Gone, BlobGone, StageGone, Stage, Blob, Resource
  <2>2. CASE cl'[c] = cl[c]
    <3>1. Gone(r) /\ Sealed
      BY <1>2, <2>2 DEF SourceInv, SetOK, SealInv
    <3> QED BY <1>1, <3>1, GoneStays
  <2> QED BY <1>2, <2>1, <2>2, CleanerTurn
<1>3. ASSUME cl'[c].at = "confirm", NEW r \in cl'[c].set
      PROVE  BlobGone(r)' /\ (cl'[c].quiet = "yes" => StageGone(r)')
  <2>1. CASE Purge(c)
    BY <1>3, <2>1, PurgeEffect DEF BlobGone, StageGone, Stage, Blob, Resource
  <2>2. CASE cl'[c] = cl[c]
    <3>1. /\ BlobGone(r)
          /\ cl'[c].quiet = "yes" => StageGone(r) /\ run.leaseTime # "live"
      BY <1>3, <2>2 DEF SourceInv, SetOK
    <3> QED BY <1>1, <3>1, GoneStays
  <2> QED BY <1>3, <2>1, <2>2, CleanerTurn
<1>4. ASSUME cl'[c].at \in {"purge", "confirm"}
      PROVE  /\ run'.status \in WithdrawnStatuses /\ run'.lease = Nobody
             /\ cl'[c].quiet = "yes" => run'.leaseTime # "live"
             /\ cl'[c].quiet # "yes" /\ run'.leaseTime = "none" => staged' = {}
  <2>1. CASE Revoke(c) /\ cl'[c].at = "purge"
    <3>1. /\ run'.status = "cleanup_pending" /\ run'.lease = Nobody
          /\ run'.leaseTime = run.leaseTime
          /\ cl'[c].quiet = "yes" <=> run.leaseTime # "live"
      BY <2>1, RevokeEffect
    <3> QED BY <3>1, StatusGroups
  <2>2. CASE ~Revoke(c)
    <3>1. cl[c].at \in {"purge", "confirm"} /\ cl'[c].quiet = cl[c].quiet
      BY <1>4, <2>2, CleanerTurn, PurgeEffect
    <3>2. /\ run.status \in WithdrawnStatuses /\ run.lease = Nobody
          /\ cl[c].quiet = "yes" => run.leaseTime # "live"
          /\ cl[c].quiet # "yes" /\ run.leaseTime = "none" => staged = {}
      BY <3>1 DEF SourceInv, SetOK
    <3>3. run'.status \in WithdrawnStatuses
      BY <3>2, WithdrawnStays
    <3>4. \A w \in Worker : ~Claim(w) /\ ~Heartbeat(w)
      BY <3>2, ClaimEffect, HeartbeatEffect, StatusGroups
    <3>5. \A w \in Worker : run.lease # w
      BY <3>2, ProcessingAssumption
    <3>6. \A w \in Worker : ~EnterStage(w) /\ ~Withhold(w) /\ ~Publish(w)
      BY <3>5, EnterStageEffect, WithholdEffect, PublishEffect
    <3>7. run.leaseTime = "none" => \A w \in Worker : ~Put(w)
      BY <1>1
    <3>8. run.leaseTime = "none" => ~LeaseElapses
      BY LeaseElapsesEffect
    <3>9. CASE run'.lease = run.lease /\ run'.leaseTime = run.leaseTime
      BY <3>1, <3>2, <3>3, <3>7, <3>9, GoneStays
    <3>10. CASE \E b \in Cleaner : Revoke(b)
      BY <3>1, <3>2, <3>3, <3>7, <3>10, RevokeEffect, GoneStays
    <3>11. ASSUME NEW b \in Cleaner, Confirm(b), run' # run
           PROVE  /\ run'.lease = Nobody
                  /\ \/ run'.leaseTime = run.leaseTime
                     \/ run'.leaseTime = "none" /\ run'.status # "cleanup_pending"
      BY <3>11, ConfirmEffect
    <3>12. CASE \E b \in Cleaner : Confirm(b)
      <4>1. \A w \in Worker : ~Put(w)
        BY <3>12, ConfirmEffect, PutEffect
      <4> QED BY <3>1, <3>2, <3>3, <3>11, <3>12, <4>1, ConfirmEmpties, GoneStays
    <3>13. CASE LeaseElapses
      <4>1. run'.lease = run.lease /\ run'.leaseTime = "elapsed"
        BY <3>13, LeaseElapsesEffect
      <4> QED BY <3>1, <3>2, <3>3, <4>1
    <3> QED BY LifeMoves, <3>4, <3>5, <3>6, <3>9, <3>10, <3>12, <3>13
  <2>3. CASE Revoke(c) /\ cl'[c].at # "purge"
    BY <1>4, <2>3, RevokeEffect
  <2> QED BY <2>1, <2>2, <2>3
<1> QED BY <1>2, <1>3, <1>4 DEF SetOK

\* Six writes add receipts.
LEMMA ReceiptMoves ==
  ASSUME TypeOK, Next, run'.receipts # run.receipts
  PROVE  \/ \E w \in Worker : AfterParse(w) \/ Verify(w) \/ RecoverWrite(w)
         \/ \E w \in Worker, d \in Docs : RecordAttempt(w, d)
         \/ \E c \in Cleaner : RecordPoll(c) \/ Confirm(c)
<1>1. ASSUME NEW w \in Worker,
             \/ Claim(w) \/ Heartbeat(w) \/ EnterStage(w) \/ Read(w) \/ Put(w) \/ Fence(w)
             \/ Register(w) \/ Arm(w) \/ Schedule(w) \/ Record(w) \/ BatchEnds(w)
             \/ Fenced(w) \/ Throws(w) \/ Killed(w)
      PROVE  run'.receipts = run.receipts
  BY <1>1, ClaimEffect, HeartbeatEffect, EnterStageEffect, ReadEffect, PutEffect, FenceEffect,
     RegisterEffect, ArmEffect, ScheduleEffect, RecordEffect, BatchEndsEffect, StopEffect
  DEF KeepsBooks
<1>2. ASSUME NEW w \in Worker,
             \/ Manifest(w) \/ Extract(w) \/ Withhold(w) \/ Publish(w)
             \/ RecoverRead(w) \/ RecoverDelete(w)
      PROVE  run'.receipts = run.receipts
  BY <1>2, ManifestEffect, ExtractEffect, WithholdEffect, PublishEffect, RecoverReadEffect,
     RecoverDeleteEffect DEF KeepsBooks
<1>3. ASSUME NEW w \in Worker, NEW d \in Docs,
             \/ MarkStarted(w, d) \/ Dispatch(w, d) \/ Answered(w, d) \/ Capture(w, d)
             \/ DeleteSource(w, d)
      PROVE  run'.receipts = run.receipts
  BY <1>3, MarkStartedEffect, DispatchEffect, AnsweredEffect, CaptureEffect,
     DeleteSourceEffect DEF KeepsBooks
<1>4. ASSUME NEW c \in Cleaner,
             \/ Expire(c) \/ Sweep(c) \/ Retry(c) \/ Purge(c)
             \/ Revoke(c) \/ CleanerDies(c) \/ \E d \in Docs : Poll(c, d)
      PROVE  run'.receipts = run.receipts
  BY <1>4, StartEffect, PurgeEffect, RevokeEffect, CleanerDiesEffect, PollEffect
  DEF KeepsBooks
<1>5. LeaseElapses \/ (\E d \in Docs : AccessEnds(d) \/ SweepUpload(d))
       => run'.receipts = run.receipts
  BY LeaseElapsesEffect, AccessEndsEffect, SweepUploadEffect DEF KeepsBooks
<1> QED BY Steps, <1>1, <1>2, <1>3, <1>4, <1>5

\* Whoever receipts a source has it in hand, and says so under the lease of a run
\* that is sealed, or of one that is withdrawn.
LEMMA ReceiptsCome ==
  ASSUME TypeOK, BatchInv, SealInv, ReaderInv, Next, NEW r \in run'.receipts,
         r \notin run.receipts, r.kind \in {"blob", "staged"}
  PROVE  \/ \E w \in Worker : /\ run.lease = w /\ r \in wk[w].got /\ wk[w].at \in GoneSteps
                              /\ \/ Sealed
                                 \/ run'.lease = Nobody /\ run'.status \in WithdrawnStatuses
         \/ \E c \in Cleaner : /\ cl[c].at = "attempt" /\ r \in cl[c].set /\ Sealed
         \/ \E c \in Cleaner : /\ cl[c].at = "confirm" /\ r \in cl[c].set
                               /\ run'.lease = Nobody /\ run'.status \in WithdrawnStatuses
<1> DEFINE OK ==
         \/ \E w \in Worker : /\ run.lease = w /\ r \in wk[w].got /\ wk[w].at \in GoneSteps
                              /\ \/ Sealed
                                 \/ run'.lease = Nobody /\ run'.status \in WithdrawnStatuses
         \/ \E c \in Cleaner : /\ cl[c].at = "attempt" /\ r \in cl[c].set /\ Sealed
         \/ \E c \in Cleaner : /\ cl[c].at = "confirm" /\ r \in cl[c].set
                               /\ run'.lease = Nobody /\ run'.status \in WithdrawnStatuses
<1> USE StepSets DEF GoneSteps
<1>1. ASSUME NEW w \in Worker, NEW d \in Docs, RecordAttempt(w, d)
      PROVE  OK
  <2>1. /\ wk[w].at = "parse"
        /\ run' = run \/ (/\ run.lease = w
                          /\ run'.receipts = run.receipts \cup (wk[w].got \cap Sources({d})))
    BY <1>1, RecordAttemptEffect DEF AnswersFor
  <2>2. Sealed
    BY <2>1 DEF SealInv, Engaged
  <2> QED BY <2>1, <2>2
<1>2. ASSUME NEW w \in Worker, AfterParse(w)
      PROVE  OK
  <2>1. /\ wk[w].at = "after" /\ run.lease = w
        /\ run'.receipts = run.receipts \cup wk[w].got
    BY <1>2, AfterParseEffect
  <2>2. Sealed
    BY <2>1 DEF BatchInv, BatchOK, AfterSteps, SealInv, Engaged
  <2> QED BY <2>1, <2>2
<1>3. ASSUME NEW w \in Worker, Verify(w)
      PROVE  FALSE
  <2>1. r \in wk[w].held
    BY <1>3, VerifyEffect
  <2> QED BY <2>1 DEF ReaderInv, ReaderOK
<1>4. ASSUME NEW w \in Worker, RecoverWrite(w)
      PROVE  OK
  <2>1. /\ wk[w].at = "recoverWrite"
        /\ \/ run' = run
           \/ /\ run.lease = w /\ run'.lease = Nobody
              /\ run'.receipts = run.receipts \cup wk[w].got
              /\ run'.status \in {"failed", "cleanup_pending"}
    BY <1>4, RecoverWriteEffect
  <2> QED BY <2>1, StatusGroups
<1>5. ASSUME NEW c \in Cleaner, RecordPoll(c)
      PROVE  OK
  <2>1. cl[c].at = "attempt" /\ run'.receipts = run.receipts \cup cl[c].set
    BY <1>5, RecordPollEffect
  <2> QED BY <2>1 DEF SealInv
<1>6. ASSUME NEW c \in Cleaner, Confirm(c)
      PROVE  OK
  <2>1. r \notin Memory(run.expected)
    BY DEF Memory
  <2>2. /\ cl[c].at = "confirm"
        /\ \/ run' = run
           \/ /\ run'.lease = Nobody
              /\ run'.status \in {"failed", "cleanup_pending", "expired"}
              /\ run'.receipts \in {{}, run.receipts \cup cl[c].set,
                                    run.receipts \cup cl[c].set \cup Memory(run.expected)}
    BY <1>6, ConfirmEffect
  <2> QED BY <2>1, <2>2, StatusGroups
<1> HIDE DEF OK
<1>7. OK
  BY ReceiptMoves, <1>1, <1>2, <1>3, <1>4, <1>5, <1>6
<1> QED BY <1>7 DEF OK

\* Two writes of a worker add to what is expected, and a confirmed expiry scrubs it.
LEMMA ExpectedMoves ==
  ASSUME TypeOK, Next, run'.expected # run.expected
  PROVE  \/ \E w \in Worker : Register(w)
         \/ \E w \in Worker, d \in Docs : Capture(w, d)
         \/ \E c \in Cleaner : Confirm(c) /\ run'.expected = {}
<1>1. ASSUME NEW w \in Worker,
             \/ Claim(w) \/ Heartbeat(w) \/ EnterStage(w) \/ Read(w) \/ Put(w) \/ Fence(w)
             \/ Arm(w) \/ Schedule(w) \/ Record(w) \/ BatchEnds(w)
             \/ Fenced(w) \/ Throws(w) \/ Killed(w)
      PROVE  run'.expected = run.expected
  BY <1>1, ClaimEffect, HeartbeatEffect, EnterStageEffect, ReadEffect, PutEffect, FenceEffect,
     ArmEffect, ScheduleEffect, RecordEffect, BatchEndsEffect, StopEffect
  DEF KeepsBooks
<1>2. ASSUME NEW w \in Worker,
             \/ AfterParse(w) \/ Manifest(w) \/ Extract(w) \/ Verify(w) \/ Withhold(w)
             \/ Publish(w) \/ RecoverRead(w) \/ RecoverDelete(w) \/ RecoverWrite(w)
      PROVE  run'.expected = run.expected
  BY <1>2, AfterParseEffect, ManifestEffect, ExtractEffect, VerifyEffect, WithholdEffect,
     PublishEffect, RecoverReadEffect, RecoverDeleteEffect, RecoverWriteEffect DEF KeepsBooks
<1>3. ASSUME NEW w \in Worker, NEW d \in Docs,
             \/ MarkStarted(w, d) \/ Dispatch(w, d) \/ Answered(w, d)
             \/ DeleteSource(w, d) \/ RecordAttempt(w, d)
      PROVE  run'.expected = run.expected
  BY <1>3, MarkStartedEffect, DispatchEffect, AnsweredEffect,
     DeleteSourceEffect, RecordAttemptEffect DEF KeepsBooks
<1>4. ASSUME NEW c \in Cleaner,
             \/ Expire(c) \/ Sweep(c) \/ Retry(c) \/ Purge(c) \/ RecordPoll(c)
             \/ Revoke(c) \/ CleanerDies(c) \/ \E d \in Docs : Poll(c, d)
      PROVE  run'.expected = run.expected
  BY <1>4, StartEffect, PurgeEffect, RecordPollEffect, RevokeEffect,
     CleanerDiesEffect, PollEffect DEF KeepsBooks
<1>5. LeaseElapses \/ (\E d \in Docs : AccessEnds(d) \/ SweepUpload(d))
      => run'.expected = run.expected
  BY LeaseElapsesEffect, AccessEndsEffect, SweepUploadEffect DEF KeepsBooks
<1>6. \A c \in Cleaner : Confirm(c) => run'.expected \in {run.expected, {}}
  BY ConfirmEffect
<1> QED BY Steps, <1>1, <1>2, <1>3, <1>4, <1>5, <1>6

\* A resource once expected stays so, until the row is scrubbed.
LEMMA ExpectedStays ==
  ASSUME TypeOK, AloneInv, Next
  PROVE  run'.status # "expired" => run.status # "expired" /\ run.expected \subseteq run'.expected
<1>1. \A w \in Worker : run.status = "expired" => run.lease # w
  BY ProcessingAssumption DEF AloneInv
<1>2. run.status = "expired" => run'.status = "expired"
  <2> SUFFICES ASSUME run.status = "expired"
               PROVE  run'.status = "expired"
    OBVIOUS
  <2>1. \A w \in Worker : ~(\/ Claim(w) \/ EnterStage(w) \/ Withhold(w) \/ Publish(w)
                            \/ Heartbeat(w) \/ (RecoverWrite(w) /\ run.lease = w))
    BY <1>1, ClaimEffect, HeartbeatEffect, EnterStageEffect, WithholdEffect, PublishEffect,
       StatusGroups
  <2>2. \A c \in Cleaner : Revoke(c) \/ Confirm(c) => run' = run
    BY RevokeEffect, ConfirmEffect
  <2>3. LeaseElapses => run'.status = run.status
    BY LeaseElapsesEffect
  <2> QED BY <2>1, <2>2, <2>3, LifeMoves
<1>3. \A w \in Worker : Register(w) => run.expected \subseteq run'.expected
  BY RegisterEffect
<1>4. \A w \in Worker, d \in Docs : Capture(w, d) => run.expected \subseteq run'.expected
  BY CaptureEffect
<1>5. \A c \in Cleaner : Confirm(c) =>
        run'.status = "expired" \/ run.expected = run'.expected
  BY ConfirmEffect
<1> QED BY <1>2, <1>3, <1>4, <1>5, ExpectedMoves

LEMMA BooksKept ==
  ASSUME TypeOK, BatchInv, SealInv, LeaseInv, ReaderInv, AloneInv, SourceInv, Next
  PROVE  BooksOK'
<1>1. ASSUME NEW r \in run'.receipts, r.kind \notin {"blob", "staged"}
      PROVE  Gone(r)'
  BY <1>1, ResourceNames DEF Gone, BlobGone, StageGone, Stage, Blob, Resource
<1>2. ASSUME NEW r \in run'.receipts, r.kind \in {"blob", "staged"}
      PROVE  BlobGone(r)' /\ (run'.lease # Nobody => StageGone(r)')
  <2>1. BlobGone(r)
    BY <1>2, ReceiptsCome DEF SourceInv, BooksOK, HandsOK, SetOK, Gone
  <2>2. ASSUME run'.lease # Nobody
        PROVE  StageGone(r)'
    <3>1. CASE r \in run.receipts /\ run.lease # Nobody
      <4>1. StageGone(r)
        BY <3>1 DEF SourceInv, BooksOK
      <4>2. ASSUME NEW w \in Worker, Put(w)
            PROVE  \A d \in Docs : r # Stage(d)
        <5>1. run.lease = w /\ ~Sealed /\ Working(w)
          BY <3>1, <4>2, PutAlone
        <5>2. run.status \notin WithdrawnStatuses
          BY <5>1, StatusGroups DEF LeaseInv, Working
        <5> QED BY <3>1, <5>1, <5>2 DEF SourceInv, BooksOK
      <4>3. CASE \E w \in Worker : Put(w)
        BY <4>2, <4>3 DEF StageGone, Stage, Resource
      <4> QED BY <4>1, <4>3, GoneStays
    <3>2. CASE r \in run.receipts /\ run.lease = Nobody
      <4>1. PICK w \in Worker : Claim(w)
        <5>1. run'.lease # run.lease
          BY <2>2, <3>2
        <5>2. ASSUME NEW w \in Worker, \/ EnterStage(w) \/ Heartbeat(w) \/ Withhold(w)
                                       \/ Publish(w) \/ (RecoverWrite(w) /\ run.lease = w)
              PROVE  run'.lease \in {run.lease, Nobody}
          BY <5>2, EnterStageEffect, HeartbeatEffect, WithholdEffect, PublishEffect,
             RecoverWriteEffect
        <5>3. ASSUME NEW c \in Cleaner, Revoke(c) \/ Confirm(c)
              PROVE  run'.lease \in {run.lease, Nobody}
          BY <5>3, RevokeEffect, ConfirmEffect
        <5>4. LeaseElapses => run'.lease = run.lease
          BY LeaseElapsesEffect
        <5> QED BY <2>2, <5>1, <5>2, <5>3, <5>4, LifeMoves
      <4>2. ~Sealed /\ run.status \notin WithdrawnStatuses
        BY <4>1, ClaimEffect, StatusGroups DEF Sealed
      <4>3. \A d \in Docs : r # Stage(d)
        BY <3>2, <4>2 DEF SourceInv, BooksOK
      <4> QED BY <4>3 DEF StageGone, Stage, Resource
    <3>3. CASE r \notin run.receipts
      <4>1. StageGone(r) /\ \A v \in Worker : ~Put(v)
        <5>1. CASE \E w \in Worker : /\ run.lease = w /\ r \in wk[w].got
                                     /\ wk[w].at \in GoneSteps
          <6>1. PICK w \in Worker : r \in wk[w].got /\ wk[w].at \in GoneSteps
            BY <5>1
          <6>2. Gone(r) /\ Running(w)
            BY <6>1, StepSets DEF SourceInv, HandsOK, GoneSteps, Running
          <6> QED BY <6>1, <6>2, PutAlone DEF Gone
        <5>2. CASE \E c \in Cleaner : cl[c].at = "attempt" /\ r \in cl[c].set /\ Sealed
          BY <5>2, PutAlone DEF SourceInv, SetOK, Gone
        <5> QED BY <1>2, <2>2, <3>3, <5>1, <5>2, ReceiptsCome
      <4> QED BY <4>1, GoneStays
    <3> QED BY <3>1, <3>2, <3>3
  <2> QED BY <2>1, <2>2, GoneStays
<1>3. ASSUME run'.status \notin WithdrawnStatuses, NEW d \in Docs, Stage(d) \in run'.receipts
      PROVE  Sealed'
  <2>1. Sealed
    <3>1. CASE Stage(d) \in run.receipts
      BY <1>3, <3>1, WithdrawnStays DEF SourceInv, BooksOK
    <3>2. CASE Stage(d) \notin run.receipts
      BY <1>3, <3>2, ReceiptsCome, ResourceNames
    <3> QED BY <3>1, <3>2
  <2> QED BY <2>1, SealedStays, SealedSame
<1>4. run'.status # "expired" => Sources(Docs) \subseteq run'.expected
  BY ExpectedStays DEF SourceInv, BooksOK
<1>5. Sources(Docs)' = Sources(Docs) /\ \A d \in Docs : Stage(d)' = Stage(d)
  BY DEF Sources, Stage, Blob, Resource
<1>6. \A r \in run'.receipts : BlobGone(r)' /\ (run'.lease # Nobody => StageGone(r)')
  BY <1>1, <1>2 DEF Gone
<1> QED BY <1>3, <1>4, <1>6 DEF BooksOK

LEMMA EndKept ==
  ASSUME ~Zombies, TypeOK, BatchInv, LeaseInv, ReaderInv, AloneInv, SourceInv, Next
  PROVE  EndOK'
<1>1. \A w \in Worker : Put(w) => /\ Early(w) /\ run.leaseTime = "live"
                                  /\ wk[w].at = "put" /\ \A v \in Worker : Running(v) => v = w
  BY PutAlone
<1>2. ASSUME run'.status \in EndStatuses
      PROVE  staged' = {} /\ raw' = {} /\ \A w \in Worker : ~Early(w)'
  <2>1. CASE run.status \in EndStatuses
    <3>1. staged = {} /\ raw = {} /\ \A w \in Worker : ~Early(w)
      BY <2>1 DEF SourceInv, EndOK
    <3>2. \A w \in Worker : ~Claim(w)
      BY <2>1, ClaimEffect, StatusGroups DEF EndStatuses
    <3> QED BY <1>1, <3>1, <3>2, GoneStays, EarlyTurn
  <2>2. CASE run.status \notin EndStatuses
    <3>1. \A w \in Worker : ~(Claim(w) \/ EnterStage(w) \/ Heartbeat(w) \/ Withhold(w))
      <4>1. \A status \in LeasedStatuses \cup {"cleanup_pending"} : status \notin EndStatuses
        BY StatusGroups, StatusNames
        DEF EndStatuses, LeasedStatuses, ReleasedStatuses
      <4> QED BY <1>2, <2>2, <4>1, ClaimEffect, EnterStageEffect, HeartbeatEffect,
                 WithholdEffect, StagingNames, StatusGroups
    <3>2. ASSUME NEW w \in Worker, Publish(w) \/ (RecoverWrite(w) /\ run.lease = w)
          PROVE  staged' = {} /\ raw' = {} /\ \A v \in Worker : ~Early(v)'
      <4>1. run'.status # "cleanup_pending"
        BY <1>2, StatusGroups DEF EndStatuses, ReleasedStatuses
      <4>2. staged = {} /\ raw = {}
        BY <3>2, <4>1, PublishEmpties, RecoverEmpties
      <4>3. /\ Running(w) /\ wk'[w].at \in {"over", "recoverRead"}
            /\ wk[w].at \in {"publish", "recoverWrite"}
        BY <3>2, PublishEffect, RecoverWriteEffect, StepSets DEF Running
      <4>4. \A v \in Worker : ~Put(v)
        BY <1>1, <4>3
      <4>5. ASSUME NEW v \in Worker, Early(v)'
            PROVE  FALSE
        <5>1. v # w
          BY <4>3, <4>5 DEF Early, LoadingSteps
        <5>2. Early(v) /\ Running(v)
          BY <3>1, <4>5, EarlyTurn, StepSets DEF Early, LoadingSteps, Running
        <5> QED BY <4>3, <5>1, <5>2 DEF AloneInv
      <4> QED BY <4>2, <4>4, <4>5, GoneStays
    <3>3. ASSUME NEW c \in Cleaner, Revoke(c) \/ Confirm(c)
          PROVE  staged' = {} /\ raw' = {} /\ \A v \in Worker : ~Early(v)'
      <4>1. Confirm(c) /\ run' # run /\ run'.status # "cleanup_pending"
        BY <1>2, <2>2, <3>3, RevokeEffect, StatusGroups DEF EndStatuses, ReleasedStatuses
      <4>2. staged = {} /\ raw = {} /\ \A v \in Worker : ~Early(v)
        BY <4>1, ConfirmEmpties
      <4> QED BY <1>1, <3>1, <4>2, GoneStays, EarlyTurn
    <3> QED BY <1>2, <2>2, <3>1, <3>2, <3>3, LifeMoves, LeaseElapsesEffect
  <2> QED BY <2>1, <2>2
<1>3. ASSUME NEW w \in Worker, wk'[w].at \in {"extracting", "model"}
      PROVE  staged' = {} /\ raw' = {}
  <2>1. Running(w) /\ wk[w].at # "put" /\ staged = {} /\ raw = {}
    <3>1. CASE wk[w].at \in {"extracting", "model"}
      BY <3>1, StepSets DEF SourceInv, EndOK, Running
    <3>2. CASE Manifest(w)
      <4>1. Sources(Docs) \subseteq run.receipts /\ run.lease = w /\ wk[w].at = "manifest"
        BY <1>3, <3>2, ManifestEffect
      <4>2. \A r \in Sources(Docs) : Gone(r)
        BY <4>1, ProcessingAssumption DEF SourceInv, BooksOK, Gone
      <4> QED BY <4>1, <4>2, NothingLeft, StepSets DEF Running
    <3> QED BY <1>3, <3>1, <3>2, WorkerTurn
  <2>2. \A v \in Worker : ~Put(v)
    BY <1>1, <2>1
  <2> QED BY <2>1, <2>2, GoneStays
<1>4. ASSUME NEW w \in Worker, Running(w)', run'.leaseTime = "none"
      PROVE  staged' = {}
  <2>1. Running(w)
    <3>1. ~Claim(w)
      BY <1>4, ClaimEffect
    <3> QED BY <1>4, <3>1, WorkerTurn, StepSets DEF Running, Working, RecoverySteps
  <2>2. CASE run.leaseTime = "none"
    <3>1. staged = {}
      BY <2>1, <2>2 DEF SourceInv, EndOK
    <3> QED BY <1>1, <2>2, <3>1, GoneStays
  <2>3. CASE run.leaseTime # "none"
    <3>1. \A v \in Worker : ~(Claim(v) \/ EnterStage(v) \/ Heartbeat(v) \/ Withhold(v))
      BY <1>4, <2>3, ClaimEffect, EnterStageEffect, HeartbeatEffect, WithholdEffect
    <3>2. ASSUME NEW v \in Worker, Publish(v)
          PROVE  staged' = {}
      BY <1>2, <3>2, PublishEffect DEF EndStatuses
    <3>3. ASSUME NEW v \in Worker, RecoverWrite(v)
          PROVE  FALSE
      <4>1. v = w
        BY <2>1, <3>3, RecoverWriteEffect, StepSets DEF AloneInv, Running
      <4> QED BY <1>4, <3>3, <4>1, RecoverWriteEffect, StepSets DEF Running
    <3>4. ASSUME NEW c \in Cleaner, Revoke(c) \/ Confirm(c)
          PROVE  staged' = {}
      BY <1>2, <1>4, <2>3, <3>4, RevokeEffect, ConfirmEffect DEF EndStatuses
    <3>5. ~LeaseElapses
      BY <1>4, LeaseElapsesEffect
    <3> QED BY <1>4, <2>3, <3>1, <3>2, <3>3, <3>4, <3>5, LifeMoves
  <2> QED BY <2>2, <2>3
<1> QED BY <1>2, <1>3, <1>4 DEF EndOK

-----------------------------------------------------------------------------
(* What the parser downloads is staged *)

\* The signed access of a document opens once and ends once.
LEMMA AccessMoves ==
  ASSUME TypeOK, Next, NEW d \in Docs, run'.access[d] # run.access[d]
  PROVE  \/ run.access[d] = "none" /\ run'.access[d] = "open" /\ \E w \in Worker : MarkStarted(w, d)
         \/ run.access[d] = "open" /\ run'.access[d] = "over" /\ AccessEnds(d)
<1> DEFINE OK ==
         \/ run.access[d] = "none" /\ run'.access[d] = "open" /\ \E w \in Worker : MarkStarted(w, d)
         \/ run.access[d] = "open" /\ run'.access[d] = "over" /\ AccessEnds(d)
<1>1. ASSUME NEW w \in Worker,
             \/ Claim(w) \/ Heartbeat(w) \/ EnterStage(w) \/ Read(w) \/ Put(w) \/ Fence(w)
             \/ Register(w) \/ Arm(w) \/ Schedule(w) \/ Record(w) \/ BatchEnds(w)
             \/ Fenced(w) \/ Throws(w) \/ Killed(w)
      PROVE  run'.access = run.access
  BY <1>1, ClaimEffect, HeartbeatEffect, EnterStageEffect, ReadEffect, PutEffect, FenceEffect,
     RegisterEffect, ArmEffect, ScheduleEffect, RecordEffect, BatchEndsEffect, StopEffect
  DEF KeepsWatch
<1>2. ASSUME NEW w \in Worker,
             \/ AfterParse(w) \/ Manifest(w) \/ Extract(w) \/ Verify(w) \/ Withhold(w)
             \/ Publish(w) \/ RecoverRead(w) \/ RecoverDelete(w) \/ RecoverWrite(w)
      PROVE  run'.access = run.access
  BY <1>2, AfterParseEffect, ManifestEffect, ExtractEffect, VerifyEffect, WithholdEffect,
     PublishEffect, RecoverReadEffect, RecoverDeleteEffect, RecoverWriteEffect DEF KeepsWatch
<1>3. ASSUME NEW w \in Worker, NEW e \in Docs,
             \/ Dispatch(w, e) \/ Answered(w, e) \/ Capture(w, e)
             \/ DeleteSource(w, e) \/ RecordAttempt(w, e)
      PROVE  run'.access = run.access
  BY <1>3, DispatchEffect, AnsweredEffect, CaptureEffect, DeleteSourceEffect,
     RecordAttemptEffect
<1>4. ASSUME NEW w \in Worker, NEW e \in Docs, MarkStarted(w, e)
      PROVE  OK
  <2>1. /\ run.access[e] = "none"
        /\ run' = run \/ run'.access = [run.access EXCEPT ![e] = "open"]
    BY <1>4, MarkStartedEffect
  <2> QED BY <1>4, <2>1, RowType
<1>5. ASSUME NEW c \in Cleaner,
             \/ Expire(c) \/ Sweep(c) \/ Retry(c) \/ Purge(c) \/ RecordPoll(c)
             \/ Revoke(c) \/ Confirm(c) \/ CleanerDies(c) \/ \E e \in Docs : Poll(c, e)
      PROVE  run'.access = run.access
  BY <1>5, StartEffect, PurgeEffect, RecordPollEffect, RevokeEffect, ConfirmEffect,
     CleanerDiesEffect, PollEffect DEF KeepsWatch
<1>6. LeaseElapses \/ (\E e \in Docs : SweepUpload(e)) => run'.access = run.access
  BY LeaseElapsesEffect, SweepUploadEffect DEF KeepsWatch
<1>7. ASSUME NEW e \in Docs, AccessEnds(e)
      PROVE  OK
  <2>1. run.access[e] = "open" /\ run'.access = [run.access EXCEPT ![e] = "over"]
    BY <1>7, AccessEndsEffect
  <2> QED BY <1>7, <2>1, RowType
<1> HIDE DEF OK
<1>8. OK
  BY Steps, <1>1, <1>2, <1>3, <1>4, <1>5, <1>6, <1>7
<1> QED BY <1>8 DEF OK

\* An outcome is captured by the worker whose call brought it.
LEMMA CapturedMoves ==
  ASSUME TypeOK, Next, NEW d \in Docs, d \in run'.captured, d \notin run.captured
  PROVE  \E w \in Worker : Capture(w, d)
<1>1. ASSUME NEW w \in Worker,
             \/ Claim(w) \/ Heartbeat(w) \/ EnterStage(w) \/ Read(w) \/ Put(w) \/ Fence(w)
             \/ Register(w) \/ Arm(w) \/ Schedule(w) \/ Record(w) \/ BatchEnds(w)
             \/ Fenced(w) \/ Throws(w) \/ Killed(w)
      PROVE  run'.captured = run.captured
  BY <1>1, ClaimEffect, HeartbeatEffect, EnterStageEffect, ReadEffect, PutEffect, FenceEffect,
     RegisterEffect, ArmEffect, ScheduleEffect, RecordEffect, BatchEndsEffect, StopEffect
  DEF KeepsWatch
<1>2. ASSUME NEW w \in Worker,
             \/ AfterParse(w) \/ Manifest(w) \/ Extract(w) \/ Verify(w) \/ Withhold(w)
             \/ Publish(w) \/ RecoverRead(w) \/ RecoverDelete(w) \/ RecoverWrite(w)
      PROVE  run'.captured = run.captured
  BY <1>2, AfterParseEffect, ManifestEffect, ExtractEffect, VerifyEffect, WithholdEffect,
     PublishEffect, RecoverReadEffect, RecoverDeleteEffect, RecoverWriteEffect DEF KeepsWatch
<1>3. ASSUME NEW w \in Worker, NEW e \in Docs,
             \/ MarkStarted(w, e) \/ Dispatch(w, e) \/ Answered(w, e)
             \/ DeleteSource(w, e) \/ RecordAttempt(w, e)
      PROVE  run'.captured = run.captured
  BY <1>3, MarkStartedEffect, DispatchEffect, AnsweredEffect, DeleteSourceEffect,
     RecordAttemptEffect
<1>4. ASSUME NEW w \in Worker, NEW e \in Docs, Capture(w, e)
      PROVE  e = d
  <2>1. run' = run \/ run'.captured = run.captured \cup {e}
    BY <1>4, CaptureEffect
  <2> QED BY <2>1
<1>5. ASSUME NEW c \in Cleaner,
             \/ Expire(c) \/ Sweep(c) \/ Retry(c) \/ Purge(c) \/ RecordPoll(c)
             \/ Revoke(c) \/ Confirm(c) \/ CleanerDies(c) \/ \E e \in Docs : Poll(c, e)
      PROVE  run'.captured = run.captured
  BY <1>5, StartEffect, PurgeEffect, RecordPollEffect, RevokeEffect, ConfirmEffect,
     CleanerDiesEffect, PollEffect DEF KeepsWatch
<1>6. LeaseElapses \/ (\E e \in Docs : AccessEnds(e) \/ SweepUpload(e))
      => run'.captured = run.captured
  BY LeaseElapsesEffect, AccessEndsEffect, SweepUploadEffect DEF KeepsWatch
<1> QED BY Steps, <1>1, <1>2, <1>3, <1>4, <1>5, <1>6

\* One document moves at a time, except that the batch becomes ready at once.
LEMMA ParseTurn ==
  ASSUME TypeOK, Next, NEW v \in Worker, NEW d \in Docs, wk'[v].parse[d] # wk[v].parse[d]
  PROVE  \/ Record(v) /\ d \in InBatch(v) /\ wk'[v].parse[d] = "ready"
         \/ MarkStarted(v, d) /\ wk'[v].parse[d] = "dispatch" /\ run.lease = v
         \/ MarkStarted(v, d) /\ wk'[v].parse[d] = "delete"
         \/ Dispatch(v, d) /\ wk'[v].parse[d] = "calling"
         \/ Answered(v, d) /\ wk'[v].parse[d] = "capture" /\ fetching' = fetching \ {d}
         \/ Capture(v, d) /\ wk'[v].parse[d] = "delete"
         \/ wk[v].parse[d] # "idle" /\ wk'[v].parse[d] \in {"attempt", "parsed", "kept", "failed"}
<1> DEFINE OK ==
         \/ Record(v) /\ d \in InBatch(v) /\ wk'[v].parse[d] = "ready"
         \/ MarkStarted(v, d) /\ wk'[v].parse[d] = "dispatch" /\ run.lease = v
         \/ MarkStarted(v, d) /\ wk'[v].parse[d] = "delete"
         \/ Dispatch(v, d) /\ wk'[v].parse[d] = "calling"
         \/ Answered(v, d) /\ wk'[v].parse[d] = "capture" /\ fetching' = fetching \ {d}
         \/ Capture(v, d) /\ wk'[v].parse[d] = "delete"
         \/ wk[v].parse[d] # "idle" /\ wk'[v].parse[d] \in {"attempt", "parsed", "kept", "failed"}
<1> SUFFICES OK
  OBVIOUS
<1>1. ~(\/ Claim(v) \/ EnterStage(v) \/ Read(v) \/ Put(v) \/ Fence(v) \/ Register(v)
        \/ Arm(v) \/ Schedule(v) \/ BatchEnds(v))
  <2>1. ~(Claim(v) \/ EnterStage(v) \/ Read(v))
    BY ClaimEffect, EnterStageEffect, ReadEffect DEF KeepsParse
  <2>2. ~(Put(v) \/ Fence(v) \/ Register(v))
    BY PutEffect, FenceEffect, RegisterEffect DEF KeepsParse
  <2>3. ~Arm(v)
    BY ArmEffect DEF KeepsParse
  <2>4. ~(Schedule(v) \/ BatchEnds(v))
    BY ScheduleEffect, BatchEndsEffect DEF KeepsParse
  <2> QED BY <2>1, <2>2, <2>3, <2>4
<1>2. ~(\/ AfterParse(v) \/ Manifest(v) \/ Extract(v) \/ Verify(v) \/ Withhold(v)
        \/ Publish(v) \/ RecoverRead(v) \/ RecoverDelete(v) \/ RecoverWrite(v)
        \/ Fenced(v) \/ Throws(v) \/ Killed(v))
  BY AfterParseEffect, ManifestEffect, ExtractEffect, VerifyEffect, WithholdEffect,
     PublishEffect, RecoverReadEffect, RecoverDeleteEffect, RecoverWriteEffect, StopEffect
  DEF KeepsParse
<1>3. CASE Record(v)
  <2>1. wk'[v].parse = Readied(v)
    BY <1>3, RecordEffect
  <2> QED BY <1>3, <2>1 DEF Readied
<1>4. ASSUME NEW e \in Docs, NEW states, AnswersFor(v, e, states)
      PROVE  e = d /\ wk'[v].parse[d] \in states
  BY <1>4, LocalType DEF AnswersFor
<1>5. ASSUME NEW e \in Docs, MarkStarted(v, e)
      PROVE  OK
  <2>1. \/ run.lease = v /\ AnswersFor(v, e, {"dispatch", "delete"})
        \/ AnswersFor(v, e, {"delete"})
    BY <1>5, MarkStartedEffect
  <2> QED BY <1>4, <1>5, <2>1
<1>6. ASSUME NEW e \in Docs, Dispatch(v, e)
      PROVE  OK
  <2>1. AnswersFor(v, e, {"calling"})
    BY <1>6, DispatchEffect
  <2> QED BY <1>4, <1>6, <2>1
<1>7. ASSUME NEW e \in Docs, Answered(v, e)
      PROVE  OK
  <2>1. /\ wk[v].parse[e] = "calling"
        /\ \/ AnswersFor(v, e, {"capture"}) /\ fetching' = fetching \ {e}
           \/ AnswersFor(v, e, {"failed"})
    BY <1>7, AnsweredEffect
  <2> QED BY <1>4, <1>7, <2>1
<1>8. ASSUME NEW e \in Docs, Capture(v, e)
      PROVE  OK
  <2>1. /\ wk[v].parse[e] = "capture"
        /\ AnswersFor(v, e, {"delete", "failed"}) \/ AnswersFor(v, e, {"failed"})
    BY <1>8, CaptureEffect
  <2> QED BY <1>4, <1>8, <2>1
<1>9. ASSUME NEW e \in Docs, DeleteSource(v, e) \/ RecordAttempt(v, e)
      PROVE  OK
  <2>1. /\ wk[v].parse[e] # "idle"
        /\ AnswersFor(v, e, {"attempt"}) \/ AnswersFor(v, e, {"parsed", "kept", "failed"})
    BY <1>9, DeleteSourceEffect, RecordAttemptEffect
  <2> QED BY <1>4, <2>1
<1> HIDE DEF OK
<1> QED BY OneMoves, <1>1, <1>2, <1>3, <1>5, <1>6, <1>7, <1>8, <1>9

\* The worker has loaded the document and not yet finished with its batches.
Loaded(w, d) ==
  \/ wk[w].at \in {"read", "put"} /\ d < wk[w].doc
  \/ wk[w].at = "fence" /\ d <= wk[w].doc
  \/ wk[w].at \in {"indexing", "register", "parsing"} \cup BatchSteps

\* A staging object is there for every document that a worker has loaded, before it
\* looks for the next one.
LEMMA LoadedTurn ==
  ASSUME TypeOK, Next, NEW w \in Worker, NEW d \in Docs, Loaded(w, d)'
  PROVE  /\ wk'[w].at \in WorkSteps
         /\ \/ Loaded(w, d)
            \/ d \in staged' /\ (Read(w) \/ Put(w))
<1> DEFINE OK == Loaded(w, d) \/ (d \in staged' /\ (Read(w) \/ Put(w)))
<1>1. wk'[w].at \in WorkSteps
  BY StepSets DEF Loaded, BatchSteps
<1> SUFFICES OK
  BY <1>1
<1>2. wk[w].doc \in Nat /\ d \in Nat /\ d >= 1 /\ d <= N /\ N \in Nat
  BY BatchType, DocNumbers
<1>3. CASE wk'[w] = wk[w]
  BY <1>3 DEF Loaded
<1>4. CASE Read(w)
  <2>1. /\ wk[w].at = "read" /\ UNCHANGED staged
        /\ \/ wk'[w].at = "recoverRead"
           \/ wk'[w].at = "put" /\ wk'[w].doc = wk[w].doc
           \/ wk[w].doc \in staged /\ wk'[w].at = "fence" /\ wk'[w].doc = wk[w].doc
           \/ /\ wk[w].doc \in staged
              /\ \/ wk[w].doc < N /\ wk'[w].at = "read" /\ wk'[w].doc = wk[w].doc + 1
                 \/ wk[w].doc = N /\ wk'[w].at = "indexing"
    BY <1>4, ReadEffect DEF SameWorld, Proceeds
  <2> QED BY <1>2, <1>4, <2>1 DEF Loaded, BatchSteps
<1>5. CASE Put(w)
  <2>1. /\ wk[w].at = "put" /\ staged' = staged \cup {wk[w].doc}
        /\ \/ wk'[w].at = "fence" /\ wk'[w].doc = wk[w].doc
           \/ wk[w].doc < N /\ wk'[w].at = "read" /\ wk'[w].doc = wk[w].doc + 1
           \/ wk[w].doc = N /\ wk'[w].at = "indexing"
    BY <1>5, PutEffect DEF Proceeds
  <2> QED BY <1>2, <1>5, <2>1 DEF Loaded, BatchSteps
<1>6. CASE Fence(w)
  <2>1. /\ wk[w].at = "fence"
        /\ \/ wk[w].doc < N /\ wk'[w].at = "read" /\ wk'[w].doc = wk[w].doc + 1
           \/ wk[w].doc = N /\ wk'[w].at = "indexing"
    BY <1>6, FenceEffect DEF Proceeds
  <2> QED BY <1>2, <2>1 DEF Loaded, BatchSteps
<1>7. CASE EnterStage(w)
  <2>1. /\ wk[w].at \in StageSteps /\ wk'[w].doc = 1
        /\ wk'[w].at \in {"recoverRead", Following(wk[w].at)}
    BY <1>7, EnterStageEffect
  <2>2. /\ wk'[w].at = "arm" => wk[w].at = "parsing"
        /\ wk'[w].at = "register" => wk[w].at = "indexing"
        /\ wk'[w].at \in {"recoverRead", "read", "register", "arm", "manifest", "model",
                          "verifying", "verify"}
    BY <2>1, StagingNames DEF Following
  <2> QED BY <1>2, <2>1, <2>2 DEF Loaded, BatchSteps
<1>8. CASE Claim(w) \/ Register(w)
  <2>1. /\ wk'[w].at \in {"staging", "parsing", "recoverRead"}
        /\ wk'[w].at = "parsing" => wk[w].at = "register"
    BY <1>8, ClaimEffect, RegisterEffect
  <2> QED BY <2>1 DEF Loaded, BatchSteps
<1>9. CASE Arm(w) \/ Schedule(w) \/ Record(w) \/ BatchEnds(w)
  BY <1>9, ArmEffect, ScheduleEffect, RecordEffect, BatchEndsEffect DEF Loaded, BatchSteps
<1>10. ~(AfterParse(w) \/ Manifest(w) \/ Extract(w) \/ Verify(w) \/ Withhold(w) \/ Publish(w))
  BY AfterParseEffect, ManifestEffect, ExtractEffect, VerifyEffect, WithholdEffect,
     PublishEffect DEF Loaded, BatchSteps
<1>11. ~(\/ RecoverRead(w) \/ RecoverDelete(w) \/ RecoverWrite(w) \/ Fenced(w) \/ Throws(w)
         \/ Killed(w))
  BY RecoverReadEffect, RecoverDeleteEffect, RecoverWriteEffect, StopEffect
  DEF Loaded, BatchSteps
<1>12. CASE \E e \in Docs : \/ MarkStarted(w, e) \/ Dispatch(w, e) \/ Answered(w, e)
                            \/ Capture(w, e) \/ DeleteSource(w, e) \/ RecordAttempt(w, e)
  BY <1>12, ParseDocumentEffect DEF AnswersFor, Loaded, BatchSteps
<1> HIDE DEF OK
<1> QED BY OneMoves, <1>3, <1>4, <1>5, <1>6, <1>7, <1>8, <1>9, <1>10, <1>11, <1>12

\* Where a worker in a batch, or at its last deletion, came from.
LEMMA BatchTurn ==
  ASSUME TypeOK, Next, NEW v \in Worker
  PROVE  /\ wk'[v].at = "parse" => wk[v].at = "parse" \/ Record(v)
         /\ wk'[v].at = "record" => /\ wk[v].at = "record" \/ Schedule(v)
                                    /\ wk'[v].first = wk[v].first
         /\ wk'[v].at = "recoverDelete" => wk'[v] = wk[v] \/ RecoverRead(v)
<1> DEFINE OK == /\ wk'[v].at = "parse" => wk[v].at = "parse" \/ Record(v)
                 /\ wk'[v].at = "record" => /\ wk[v].at = "record" \/ Schedule(v)
                                            /\ wk'[v].first = wk[v].first
                 /\ wk'[v].at = "recoverDelete" => wk'[v] = wk[v] \/ RecoverRead(v)
<1> SUFFICES OK
  OBVIOUS
<1>1. CASE wk'[v] = wk[v]
  BY <1>1
<1>2. CASE Claim(v) \/ Read(v) \/ Put(v) \/ Fence(v) \/ Register(v)
  BY <1>2, ClaimEffect, ReadEffect, PutEffect, FenceEffect, RegisterEffect DEF Proceeds
<1>3. CASE EnterStage(v)
  <2>1. wk[v].at \in StageSteps /\ wk'[v].at \in {"recoverRead", Following(wk[v].at)}
    BY <1>3, EnterStageEffect
  <2> QED BY <2>1, StagingNames DEF Following
<1>4. CASE Arm(v) \/ Schedule(v) \/ Record(v) \/ BatchEnds(v)
  BY <1>4, ArmEffect, ScheduleEffect, RecordEffect, BatchEndsEffect DEF Advances, KeepsCursor
<1>5. CASE AfterParse(v) \/ Manifest(v) \/ Extract(v) \/ Verify(v) \/ Withhold(v) \/ Publish(v)
  BY <1>5, AfterParseEffect, ManifestEffect, ExtractEffect, VerifyEffect, WithholdEffect,
     PublishEffect
<1>6. CASE \/ RecoverRead(v) \/ RecoverDelete(v) \/ RecoverWrite(v) \/ Fenced(v) \/ Throws(v)
           \/ Killed(v)
  BY <1>6, RecoverReadEffect, RecoverDeleteEffect, RecoverWriteEffect, StopEffect
<1>7. CASE \E d \in Docs : \/ MarkStarted(v, d) \/ Dispatch(v, d) \/ Answered(v, d)
                           \/ Capture(v, d) \/ DeleteSource(v, d) \/ RecordAttempt(v, d)
  <2>1. wk'[v].at = "parse" /\ wk[v].at = "parse"
    BY <1>7, ParseDocumentEffect DEF AnswersFor
  <2> QED BY <2>1
<1> HIDE DEF OK
<1> QED BY OneMoves, <1>1, <1>2, <1>3, <1>4, <1>5, <1>6, <1>7

\* What brings a document to each point of its call.
LEMMA ParsingTurn ==
  ASSUME TypeOK, BatchInv, Next, NEW v \in Worker, NEW d \in Docs,
         NEW state \in {"dispatch", "calling", "capture", "delete"}, Parsing(v, d, state)'
  PROVE  \/ Parsing(v, d, state)
         \/ state = "dispatch" /\ MarkStarted(v, d) /\ run.lease = v
         \/ state = "calling" /\ Dispatch(v, d)
         \/ state = "capture" /\ Answered(v, d) /\ fetching' = fetching \ {d}
         \/ state = "delete" /\ (MarkStarted(v, d) \/ Capture(v, d))
<1>1. wk'[v].at = "parse" /\ wk'[v].parse[d] = state
  BY DEF Parsing
<1>2. CASE wk'[v].parse[d] # wk[v].parse[d]
  BY <1>1, <1>2, ParseTurn
<1>3. CASE wk'[v].parse[d] = wk[v].parse[d] /\ wk[v].at = "parse"
  BY <1>1, <1>3 DEF Parsing
<1>4. CASE wk'[v].parse[d] = wk[v].parse[d] /\ wk[v].at # "parse"
  <2>1. wk[v].at = "record"
    BY <1>1, <1>4, BatchTurn, RecordEffect
  <2>2. wk[v].parse[d] \in {"parsed", "idle"}
    <3>1. /\ d < wk[v].first => wk[v].parse[d] = "parsed"
          /\ d >= wk[v].first => wk[v].parse[d] = "idle"
      BY <2>1 DEF BatchInv, BatchOK, BatchSteps
    <3> QED BY <3>1, BatchType, DocNumbers
  <2> QED BY <1>1, <1>4, <2>2
<1> QED BY <1>2, <1>3, <1>4

\* The parser only reads what is staged, paid for and openly signed; a captured
\* outcome means that it reads no more.
FetchOK(d) ==
  /\ d \in fetching => d \in staged /\ calls[d] > 0 /\ run.access[d] = "open"
  /\ d \in run.captured => d \notin fetching /\ calls[d] > 0
  /\ run.access[d] = "over" => \A w \in Worker : Running(w) => wk[w].parse[d] = "idle"

\* Where a worker stands with a document says whether it is staged or being read.
ParseOK(w, d) ==
  /\ wk[w].at = "record" /\ d \in InBatch(w) => run.access[d] = "none"
  /\ run.lease = w /\ Loaded(w, d) /\ run.access[d] = "none"
       /\ wk[w].parse[d] \in {"idle", "ready"} => d \in staged
  /\ Parsing(w, d, "dispatch") => d \in staged
  /\ Parsing(w, d, "calling") => calls[d] > 0
  /\ Parsing(w, d, "capture") => d \notin fetching /\ calls[d] > 0
  /\ Parsing(w, d, "delete") => d \notin fetching
  /\ wk[w].at = "recoverDelete" /\ Stage(d) \in wk[w].got => d \notin fetching

\* Nobody reads the source of the document, nor ever will.
Settled(d) ==
  /\ d \notin fetching
  /\ \A w \in Worker : ~Parsing(w, d, "dispatch")
  /\ run.access[d] # "none" \/ run.status \in WithdrawnStatuses

FetchInv ==
  /\ \A d \in Docs : FetchOK(d)
  /\ \A w \in Worker, d \in Docs : ParseOK(w, d)
  /\ \A c \in Cleaner, d \in Docs :
       cl[c].at \in {"unlink", "purge"} /\ Stage(d) \in cl[c].set => Settled(d)

LEMMA FetchInit ==
  ASSUME Init
  PROVE  FetchInv
<1>1. \A w \in Worker, d \in Docs : ~Loaded(w, d)
  BY DEF Init, Loaded, BatchSteps
<1>2. \A d \in Docs : FetchOK(d)
  BY DEF Init, FetchOK
<1>3. \A w \in Worker, d \in Docs : ParseOK(w, d)
  BY <1>1 DEF Init, ParseOK, Parsing
<1>4. \A c \in Cleaner : cl[c].at = "idle"
  BY DEF Init
<1> QED BY <1>2, <1>3, <1>4 DEF FetchInv

\* A source whose call is captured, or whose access is over, is settled.
LEMMA CapturedSettles ==
  ASSUME TypeOK, CallInv, FetchInv, NEW d \in Docs,
         d \in run.captured \/ run.access[d] = "over"
  PROVE  Settled(d)
<1>1. d \notin fetching /\ (d \in run.captured => calls[d] > 0)
  BY DEF FetchInv, FetchOK
<1>2. calls[d] > 0 => run.access[d] # "none"
  BY DEF CallInv
<1>3. ASSUME NEW w \in Worker, Parsing(w, d, "dispatch")
      PROVE  FALSE
  <2>1. Running(w) /\ wk[w].parse[d] = "dispatch"
    BY <1>3, StepSets DEF Parsing, Running
  <2>2. calls[d] = 0
    BY <1>3 DEF CallInv, CallOK
  <2>3. run.access[d] # "over"
    BY <2>1 DEF FetchInv, FetchOK
  <2> QED BY <1>1, <2>2, <2>3
<1> QED BY <1>1, <1>2, <1>3 DEF Settled

\* A document that is settled for a cleaner stays so.
LEMMA SettledStays ==
  ASSUME TypeOK, BatchInv, LeaseInv, Next, NEW d \in Docs, Settled(d)
  PROVE  Settled(d)'
<1>1. d \notin fetching'
  <2>1. \A w \in Worker : ~Dispatch(w, d)
    BY DEF Settled, Dispatch
  <2> QED BY <2>1, CallsMove DEF Settled
<1>2. run'.access[d] # "none" \/ run'.status \in WithdrawnStatuses
  BY AccessMoves, WithdrawnStays DEF Settled
<1>3. ASSUME NEW w \in Worker, Parsing(w, d, "dispatch")'
      PROVE  FALSE
  <2>1. MarkStarted(w, d) /\ run.lease = w
    BY <1>3, ParsingTurn DEF Settled
  <2>2. run.access[d] = "none"
    BY <2>1, MarkStartedEffect
  <2>3. wk[w].at = "parse"
    BY <2>1, ParseDocumentEffect DEF AnswersFor
  <2>4. run.status \in LeasedStatuses
    BY <2>1, <2>3, StepSets DEF LeaseInv
  <2> QED BY <2>2, <2>4, StatusGroups DEF Settled
<1> QED BY <1>1, <1>2, <1>3 DEF Settled

\* A staging object that the parser reads is not the target of any deletion.
LEMMA FetchesKept ==
  ASSUME TypeOK, BatchInv, CallInv, AloneInv, FetchInv, Next, NEW d \in Docs
  PROVE  FetchOK(d)'
<1>1. \A v, w \in Worker : Running(v) /\ Running(w) => v = w
  BY DEF AloneInv
<1>2. ASSUME d \in fetching'
      PROVE  d \in staged' /\ calls'[d] > 0 /\ run'.access[d] = "open"
  <2>1. CASE d \in fetching
    <3>1. d \in staged /\ calls[d] > 0 /\ run.access[d] = "open"
      BY <2>1 DEF FetchInv, FetchOK
    <3>2. calls'[d] > 0
      BY <3>1, CallsMove
    <3>3. run'.access[d] = "open"
      BY <1>2, <3>1, AccessMoves, AccessEndsEffect
    <3>4. ASSUME NEW w \in Worker
          PROVE  ~DeleteSource(w, d)
      BY <2>1 DEF DeleteSource, FetchInv, ParseOK
    <3>5. ASSUME NEW w \in Worker, BatchEnds(w)
          PROVE  ~(d > Last(w))
      <4>1. wk[w].at = "parse"
        BY <3>5, BatchEndsEffect
      <4> QED BY <3>1, <4>1 DEF CallInv, CallOK, Engaged, BatchSteps
    <3>6. ASSUME NEW w \in Worker, RecoverDelete(w)
          PROVE  Stage(d) \notin wk[w].got
      BY <2>1, <3>6, RecoverDeleteEffect DEF FetchInv, ParseOK
    <3>7. ASSUME NEW c \in Cleaner, Purge(c)
          PROVE  Stage(d) \notin cl[c].set
      BY <2>1, <3>7, PurgeEffect DEF FetchInv, Settled
    <3> QED BY <3>1, <3>2, <3>3, <3>4, <3>5, <3>6, <3>7, StagedMoves
  <2>2. CASE d \notin fetching
    <3>1. PICK w \in Worker : Dispatch(w, d)
      BY <1>2, <2>2, CallsMove
    <3>2. Parsing(w, d, "dispatch")
      BY <3>1 DEF Dispatch
    <3>3. d \in staged /\ run.access[d] # "none" /\ calls[d] = 0
      BY <3>2 DEF FetchInv, ParseOK, CallInv, CallOK
    <3>4. run.access[d] = "open"
      <4>1. Running(w) /\ wk[w].parse[d] = "dispatch"
        BY <3>2, StepSets DEF Parsing, Running
      <4>2. run.access[d] # "over"
        BY <4>1 DEF FetchInv, FetchOK
      <4> QED BY <3>3, <4>2, RowType
    <3>5. /\ UNCHANGED <<run, staged>>
          /\ calls' = [calls EXCEPT ![d] = @ + 1]
      BY <3>1, DispatchEffect
    <3>6. calls'[d] = 1
      BY <3>3, <3>5 DEF TypeOK
    <3> QED BY <3>3, <3>4, <3>5, <3>6
  <2> QED BY <2>1, <2>2
<1>3. ASSUME d \in run'.captured
      PROVE  d \notin fetching' /\ calls'[d] > 0
  <2>1. d \notin fetching /\ calls[d] > 0
    <3>1. CASE d \in run.captured
      BY <3>1 DEF FetchInv, FetchOK
    <3>2. ASSUME NEW w \in Worker, Capture(w, d)
          PROVE  d \notin fetching /\ calls[d] > 0
      BY <3>2 DEF Capture, FetchInv, ParseOK
    <3> QED BY <1>3, <3>1, <3>2, CapturedMoves
  <2>2. \A w \in Worker : ~Dispatch(w, d)
    BY <2>1 DEF Dispatch, CallInv, CallOK
  <2> QED BY <2>1, <2>2, CallsMove
<1>4. ASSUME run'.access[d] = "over", NEW w \in Worker, Running(w)'
      PROVE  wk'[w].parse[d] = "idle"
  <2>1. ASSUME Claim(w)
        PROVE  wk'[w].parse[d] = "idle"
    <3>1. wk[w].at = "none" /\ wk'[w].parse = wk[w].parse
      BY <2>1, ClaimEffect DEF KeepsParse
    <3> QED BY <3>1 DEF BatchInv, BatchOK, Marked
  <2>2. ASSUME ~Claim(w)
        PROVE  wk'[w].parse[d] = "idle"
    <3>1. Running(w)
      BY <1>4, <2>2, WorkerTurn, StepSets DEF Running, Working, RecoverySteps
    <3>2. CASE run.access[d] = "over"
      <4>1. wk[w].parse[d] = "idle"
        BY <3>1, <3>2 DEF FetchInv, FetchOK
      <4>2. ~Record(w) \/ d \notin InBatch(w)
        BY <3>2, RecordEffect DEF FetchInv, ParseOK
      <4>3. ~MarkStarted(w, d)
        BY <3>2, MarkStartedEffect
      <4>4. ~Dispatch(w, d) /\ ~Answered(w, d) /\ ~Capture(w, d)
        BY <4>1 DEF Dispatch, Answered, Capture, Parsing
      <4> QED BY <4>1, <4>2, <4>3, <4>4, ParseTurn
    <3>3. CASE run.access[d] # "over"
      <4>1. AccessEnds(d)
        BY <1>4, <3>3, AccessMoves
      <4>2. wk' = wk /\ \A v \in Worker : Running(v) => wk[v].parse[d] = "idle"
        BY <4>1, AccessEndsEffect
      <4>3. wk[w].parse[d] = "idle"
        BY <3>1, <4>2
      <4> QED BY <4>2, <4>3
    <3> QED BY <3>2, <3>3
  <2> QED BY <2>1, <2>2
<1> QED BY <1>2, <1>3, <1>4 DEF FetchOK

LEMMA ParsesKept ==
  ASSUME TypeOK, BatchInv, WatchInv, CallInv, LeaseInv, AloneInv, SourceInv, FetchInv, Next,
         NEW w \in Worker, NEW d \in Docs
  PROVE  ParseOK(w, d)'
<1>1. \A v \in Worker : Running(v) /\ Running(w) => v = w
  BY DEF AloneInv
<1>2. ASSUME NEW v \in Worker, \E state \in ParseStates : Parsing(v, d, state)
      PROVE  Running(v) /\ wk[v].at = "parse"
  BY <1>2, StepSets DEF Parsing, Running
<1>3. ASSUME wk'[w].at = "record", d \in InBatch(w)'
      PROVE  run'.access[d] = "none"
  <2>1. /\ wk[w].at = "record" \/ Schedule(w)
        /\ d \in InBatch(w)
    BY <1>3, BatchTurn, SameFirst
  <2>2. run.access[d] = "none" /\ Running(w) /\ wk[w].at # "parse"
    <3>1. CASE wk[w].at = "record"
      BY <2>1, <3>1, StepSets DEF FetchInv, ParseOK, Running
    <3>2. CASE Schedule(w)
      <4>1. wk[w].at = "schedule"
        BY <3>2, ScheduleEffect
      <4>2. watched[d] = 0
        BY <2>1, <4>1, BatchType DEF WatchInv, WatchOK, Engaged
      <4> QED BY <4>1, <4>2, StepSets DEF WatchInv, Running
    <3> QED BY <2>1, <3>1, <3>2
  <2>3. ASSUME NEW v \in Worker, MarkStarted(v, d)
        PROVE  FALSE
    <3>1. wk[v].at = "parse" /\ Running(v)
      BY <2>3, StepSets DEF MarkStarted, Parsing, Running
    <3> QED BY <1>1, <2>2, <3>1
  <2> QED BY <2>2, <2>3, AccessMoves
<1>4. ASSUME run'.lease = w, Loaded(w, d)', run'.access[d] = "none",
             wk'[w].parse[d] \in {"idle", "ready"}
      PROVE  d \in staged'
  <2>1. run.access[d] = "none"
    BY <1>4, AccessMoves
  <2>2. CASE d \notin staged'
    <3>1. Loaded(w, d)
      BY <1>4, <2>2, LoadedTurn
    <3>2. Working(w) /\ Running(w) /\ ~Claim(w)
      BY <3>1, ClaimEffect, StepSets DEF Loaded, BatchSteps, Working, Running
    <3>3. run.lease = w
      <4>1. ASSUME NEW v \in Worker, \/ EnterStage(v) \/ Heartbeat(v) \/ Withhold(v)
                                     \/ Publish(v) \/ (RecoverWrite(v) /\ run.lease = v)
            PROVE  run'.lease \in {run.lease, Nobody}
        BY <4>1, EnterStageEffect, HeartbeatEffect, WithholdEffect, PublishEffect,
           RecoverWriteEffect
      <4>2. ASSUME NEW c \in Cleaner, Revoke(c) \/ Confirm(c)
            PROVE  run'.lease \in {run.lease, Nobody}
        BY <4>2, RevokeEffect, ConfirmEffect
      <4>3. ASSUME NEW v \in Worker, Claim(v)
            PROVE  run'.lease = v /\ v # w
        BY <3>2, <4>3, ClaimEffect
      <4> QED BY <1>4, <4>1, <4>2, <4>3, LifeMoves, LeaseElapsesEffect, ProcessingAssumption
    <3>4. wk[w].parse[d] \in {"idle", "ready"}
      <4>1. CASE wk'[w].parse[d] = wk[w].parse[d]
        BY <1>4, <4>1
      <4>2. CASE wk'[w].parse[d] # wk[w].parse[d]
        <5>1. Record(w) /\ d \in InBatch(w)
          BY <1>4, <4>2, ParseTurn
        <5>2. wk[w].at = "record" /\ d >= wk[w].first
          BY <5>1, RecordEffect, BatchType
        <5> QED BY <5>2 DEF BatchInv, BatchOK
      <4> QED BY <4>1, <4>2
    <3>5. d \in staged
      BY <2>1, <3>1, <3>3, <3>4 DEF FetchInv, ParseOK
    <3>6. ASSUME NEW v \in Worker, DeleteSource(v, d)
          PROVE  FALSE
      <4>1. Parsing(v, d, "delete") /\ Running(v)
        BY <3>6, StepSets DEF DeleteSource, Parsing, Running
      <4> QED BY <1>1, <3>2, <3>4, <4>1 DEF Parsing
    <3>7. ASSUME NEW v \in Worker, BatchEnds(v), wk'[v].at = "after"
          PROVE  FALSE
      <4>1. Running(v)
        BY <3>7, BatchEndsEffect, StepSets DEF Running
      <4>2. v = w
        BY <1>1, <3>2, <4>1
      <4> QED BY <1>4, <3>7, <4>2 DEF Loaded, BatchSteps
    <3>8. ASSUME NEW v \in Worker, RecoverDelete(v)
          PROVE  FALSE
      <4>1. Running(v) /\ wk[v].at = "recoverDelete"
        BY <3>8, RecoverDeleteEffect, StepSets DEF Running
      <4>2. v = w
        BY <1>1, <3>2, <4>1
      <4> QED BY <3>2, <4>1, <4>2, StepSets DEF Working
    <3>9. ASSUME NEW c \in Cleaner, Purge(c), Stage(d) \in cl[c].set
          PROVE  FALSE
      <4>1. run.status \in LeasedStatuses
        BY <3>2, <3>3 DEF LeaseInv, Working
      <4>2. ~Settled(d)
        BY <2>1, <4>1, StatusGroups DEF Settled
      <4> QED BY <3>9, <4>2, PurgeEffect DEF FetchInv
    <3> QED BY <2>2, <3>5, <3>6, <3>7, <3>8, <3>9, StagedMoves
  <2> QED BY <2>2
<1>5. ASSUME Parsing(w, d, "dispatch")'
      PROVE  d \in staged'
  <2>1. CASE Parsing(w, d, "dispatch")
    <3>1. d \in staged /\ Running(w) /\ wk[w].at = "parse" /\ wk[w].parse[d] = "dispatch"
      BY <2>1, StepSets DEF FetchInv, ParseOK, Parsing, Running
    <3>2. ASSUME NEW v \in Worker, DeleteSource(v, d)
          PROVE  FALSE
      <4>1. Parsing(v, d, "delete") /\ Running(v)
        BY <3>2, StepSets DEF DeleteSource, Parsing, Running
      <4> QED BY <1>1, <3>1, <4>1 DEF Parsing
    <3>3. ASSUME NEW v \in Worker, BatchEnds(v), wk'[v].at = "after"
          PROVE  FALSE
      <4>1. Running(v)
        BY <3>3, BatchEndsEffect, StepSets DEF Running
      <4>2. v = w
        BY <1>1, <3>1, <4>1
      <4> QED BY <1>5, <3>3, <4>2 DEF Parsing
    <3>4. ASSUME NEW v \in Worker, RecoverDelete(v)
          PROVE  FALSE
      <4>1. Running(v) /\ wk[v].at = "recoverDelete"
        BY <3>4, RecoverDeleteEffect, StepSets DEF Running
      <4> QED BY <1>1, <3>1, <4>1
    <3>5. ASSUME NEW c \in Cleaner, Purge(c), Stage(d) \in cl[c].set
          PROVE  FALSE
      BY <2>1, <3>5, PurgeEffect DEF FetchInv, Settled
    <3> QED BY <3>1, <3>2, <3>3, <3>4, <3>5, StagedMoves
  <2>2. CASE MarkStarted(w, d) /\ run.lease = w
    <3>1. /\ run.access[d] = "none" /\ wk[w].parse[d] = "ready" /\ UNCHANGED staged
      BY <2>2, MarkStartedEffect DEF SameWorld
    <3>2. Loaded(w, d)
      BY <2>2 DEF MarkStarted, Parsing, Loaded, BatchSteps
    <3> QED BY <2>2, <3>1, <3>2 DEF FetchInv, ParseOK
  <2> QED BY <1>5, <2>1, <2>2, ParsingTurn
<1>6. ASSUME Parsing(w, d, "calling")'
      PROVE  calls'[d] > 0
  <2>1. CASE Parsing(w, d, "calling")
    BY <2>1, CallsMove DEF FetchInv, ParseOK
  <2>2. CASE Dispatch(w, d)
    <3>1. calls[d] \in Nat /\ calls' = [calls EXCEPT ![d] = @ + 1] /\ calls \in [Docs -> Nat]
      BY <2>2, DispatchEffect DEF TypeOK
    <3> QED BY <3>1
  <2> QED BY <1>6, <2>1, <2>2, ParsingTurn
<1>7. ASSUME Parsing(w, d, "capture")'
      PROVE  d \notin fetching' /\ calls'[d] > 0
  <2>1. CASE Parsing(w, d, "capture")
    <3>1. d \notin fetching /\ calls[d] > 0
      BY <2>1 DEF FetchInv, ParseOK
    <3>2. \A v \in Worker : ~Dispatch(v, d)
      BY <3>1 DEF Dispatch, CallInv, CallOK
    <3> QED BY <3>1, <3>2, CallsMove
  <2>2. CASE Answered(w, d) /\ fetching' = fetching \ {d}
    BY <2>2, CallsMove DEF Answered, FetchInv, ParseOK
  <2> QED BY <1>7, <2>1, <2>2, ParsingTurn
<1>8. ASSUME Parsing(w, d, "delete")'
      PROVE  d \notin fetching'
  <2>1. CASE Parsing(w, d, "delete")
    <3>1. d \notin fetching /\ Running(w) /\ wk[w].parse[d] = "delete"
      BY <2>1, StepSets DEF FetchInv, ParseOK, Parsing, Running
    <3>2. ASSUME NEW v \in Worker, Dispatch(v, d)
          PROVE  FALSE
      <4>1. Running(v) /\ wk[v].parse[d] = "dispatch"
        BY <3>2, StepSets DEF Dispatch, Parsing, Running
      <4> QED BY <1>1, <3>1, <4>1
    <3> QED BY <3>1, <3>2, CallsMove
  <2>2. CASE MarkStarted(w, d)
    <3>1. run.access[d] = "none" /\ UNCHANGED fetching
      BY <2>2, MarkStartedEffect DEF SameWorld
    <3> QED BY <3>1 DEF FetchInv, FetchOK
  <2>3. CASE Capture(w, d)
    <3>1. Parsing(w, d, "capture") /\ UNCHANGED fetching
      BY <2>3, CaptureEffect DEF Capture, SameWorld
    <3> QED BY <3>1 DEF FetchInv, ParseOK
  <2> QED BY <1>8, <2>1, <2>2, <2>3, ParsingTurn
<1>9. ASSUME wk'[w].at = "recoverDelete", Stage(d) \in wk'[w].got
      PROVE  d \notin fetching'
  <2>1. CASE wk'[w] = wk[w]
    <3>1. d \notin fetching /\ Running(w) /\ wk[w].at # "parse"
      BY <1>9, <2>1, StepSets DEF FetchInv, ParseOK, Running
    <3>2. ASSUME NEW v \in Worker, Dispatch(v, d)
          PROVE  FALSE
      <4>1. Running(v) /\ wk[v].at = "parse"
        BY <3>2, StepSets DEF Dispatch, Parsing, Running
      <4> QED BY <1>1, <3>1, <4>1
    <3> QED BY <3>1, <3>2, CallsMove
  <2>2. CASE RecoverRead(w)
    <3>1. /\ wk[w].at = "recoverRead" /\ Authorized(Stage(d)) /\ UNCHANGED fetching
      BY <1>9, <2>2, RecoverReadEffect DEF SameWorld
    <3>2. /\ run.status = "expired" \/ run.access[d] # "open" \/ d \in run.captured
      BY <3>1 DEF Authorized, Stage, Resource
    <3>3. run.status = "expired" => staged = {}
      BY <3>1, StepSets DEF AloneInv, SourceInv, EndOK, Running
    <3> QED BY <3>1, <3>2, <3>3 DEF FetchInv, FetchOK
  <2> QED BY <1>9, <2>1, <2>2, BatchTurn
<1>10. Stage(d)' = Stage(d)
  BY DEF Stage, Resource
<1> QED BY <1>3, <1>4, <1>5, <1>6, <1>7, <1>8, <1>9 DEF ParseOK

LEMMA CleansKept ==
  ASSUME TypeOK, BatchInv, CallInv, LeaseInv, FetchInv, Next, NEW c \in Cleaner,
         NEW d \in Docs, cl'[c].at \in {"unlink", "purge"}, Stage(d) \in cl'[c].set
  PROVE  Settled(d)'
<1>1. CASE cl'[c] = cl[c]
  BY <1>1, SettledStays DEF FetchInv
<1>2. ASSUME NEW e \in Docs, Poll(c, e), cl'[c].at = "unlink"
      PROVE  Settled(d)'
  <2>1. /\ cl'[c].set = Sources({e})
        /\ e \in run.captured \/ run.access[e] = "over"
    BY <1>2, PollEffect
  <2>2. d = e
    BY <2>1, ResourceNames
  <2> QED BY <2>1, <2>2, CapturedSettles, SettledStays
<1>3. CASE Revoke(c) /\ cl'[c].at = "purge"
  <2>1. /\ Authorized(Stage(d)) /\ run.status # "expired"
        /\ run'.status = "cleanup_pending" /\ KeepsWatch(run') /\ UNCHANGED wk /\ SameWorld
    BY <1>3, RevokeEffect
  <2>2. run.access[d] # "open" \/ d \in run.captured
    BY <2>1 DEF Authorized, Stage, Resource
  <2>3. CASE d \in run.captured \/ run.access[d] = "over"
    BY <2>3, CapturedSettles, SettledStays
  <2>4. CASE run.access[d] = "none"
    <3>1. d \notin fetching
      BY <2>4 DEF FetchInv, FetchOK
    <3>2. \A w \in Worker : ~Parsing(w, d, "dispatch")
      BY <2>4 DEF CallInv, CallOK
    <3> QED BY <2>1, <3>1, <3>2, StatusGroups DEF Settled, Parsing, SameWorld
  <2> QED BY <2>2, <2>3, <2>4, RowType
<1>4. ~Purge(c)
  BY PurgeEffect
<1> QED BY <1>1, <1>2, <1>3, <1>4, CleanerTurn

-----------------------------------------------------------------------------
(* The theorems *)

SInv == IInv /\ AloneInv /\ SourceInv /\ FetchInv

LEMMA SourceStep ==
  ASSUME ~Zombies, SInv, [Next]_vars
  PROVE  SInv'
<1>1. CASE Next
  <2>1. IInv /\ TypeOK /\ BatchInv /\ SealInv /\ WatchInv /\ CallInv /\ LeaseInv /\ ReaderInv
    BY DEF SInv, IInv
  <2>2. AloneInv /\ SourceInv /\ FetchInv
    BY DEF SInv
  <2>3. IInv'
    BY <2>1, InvariantKept
  <2>4. AloneInv'
    BY <1>1, <2>1, <2>2, AloneKept
  <2>5. SourceInv'
    BY <1>1, <2>1, <2>2, BooksKept, EndKept, HandsKept, SetKept DEF SourceInv
  <2>6. FetchInv'
    <3>1. \A d \in Docs : FetchOK(d)'
      BY <1>1, <2>1, <2>2, FetchesKept
    <3>2. \A w \in Worker, d \in Docs : ParseOK(w, d)'
      BY <1>1, <2>1, <2>2, ParsesKept
    <3>3. \A c \in Cleaner, d \in Docs :
            cl'[c].at \in {"unlink", "purge"} /\ Stage(d) \in cl'[c].set => Settled(d)'
      BY <1>1, <2>1, <2>2, CleansKept
    <3> QED BY <3>1, <3>2, <3>3 DEF FetchInv
  <2> QED BY <2>3, <2>4, <2>5, <2>6 DEF SInv
<1>2. CASE UNCHANGED vars
  <2>1. IInv'
    BY InvariantKept DEF SInv
  <2>2. AloneInv'
    BY <1>2 DEF SInv, AloneInv, LeaseOK, Running, Early, Sealed, vars, world
  <2>3. SourceInv'
    BY <1>2 DEF SInv, SourceInv, BooksOK, EndOK, HandsOK, SetOK, Gone, BlobGone, StageGone,
      Running, Early, Sealed, vars, world
  <2>4. FetchInv'
    BY <1>2 DEF SInv, FetchInv, FetchOK, ParseOK, Settled, Parsing, Loaded, Running, InBatch,
      Last, vars, world
  <2> QED BY <2>1, <2>2, <2>3, <2>4 DEF SInv
<1> QED BY <1>1, <1>2

SoundSources == ~Zombies => SInv

LEMMA SourceInvariant == Spec => []SoundSources
<1>1. Init => SoundSources
  <2>1. Init => IInv
    BY TypesInit, BatchesInit, SealInit, WatchesInit, CallsInit, LeaseInit, ReadersInit DEF IInv
  <2> QED BY <2>1, AloneInit, SourcesInit, FetchInit DEF SoundSources, SInv
<1>2. SoundSources /\ [Next]_vars => SoundSources'
  BY SourceStep DEF SoundSources
<1> QED BY <1>1, <1>2, PTL DEF Spec

-----------------------------------------------------------------------------
(* What holds unless a lease may elapse under a worker outside a paid call. *)

LEMMA SourcesInOrder ==
  SInv => DownloadsAreStaged /\ EndIsEmpty /\ ModelComesLast
<1>1. SInv => DownloadsAreStaged
  BY DEF SInv, IInv, TypeOK, FetchInv, FetchOK, DownloadsAreStaged
<1>2. SInv => EndIsEmpty
  BY DEF SInv, SourceInv, EndOK, EndStatuses, EndIsEmpty, NoSourceLeft
<1>3. SInv => ModelComesLast
  <2>1. SInv => DOMAIN wk = Worker
    BY DEF SInv, IInv, TypeOK
  <2> QED BY <2>1 DEF SInv, SourceInv, EndOK, ModelComesLast, NoSourceLeft
<1> QED BY <1>1, <1>2, <1>3

\* The parser never finds the object it downloads deleted: neither a worker nor a
\* cleaner receipts or removes a staging object that a paid call may still read.
THEOREM FetchFindsItsSource == Spec => [](~Zombies => DownloadsAreStaged)
<1>1. SoundSources => (~Zombies => DownloadsAreStaged)
  BY SourcesInOrder DEF SoundSources
<1> QED BY <1>1, SourceInvariant, PTL

\* A run that is shown, failed or expired keeps neither an upload nor a staging
\* object: confirmed means gone, and nothing put back.
THEOREM EndIsClean == Spec => [](~Zombies => EndIsEmpty)
<1>1. SoundSources => (~Zombies => EndIsEmpty)
  BY SourcesInOrder DEF SoundSources
<1> QED BY <1>1, SourceInvariant, PTL

\* While the model is called the sources of the run are gone, the staging objects
\* and the uploads.
THEOREM ModelSeesTextOnly == Spec => [](~Zombies => ModelComesLast)
<1>1. SoundSources => (~Zombies => ModelComesLast)
  BY SourcesInOrder DEF SoundSources
<1> QED BY <1>1, SourceInvariant, PTL

=============================================================================
