--------------------------- MODULE RunProcessing ---------------------------
(***************************************************************************)
(* One run from the claim of its processing lease to the confirmed removal *)
(* of everything it held: processRun (src/lib/pipeline.ts), the heartbeat, *)
(* the source-cleanup watchdog (src/lib/runs/source-cleanup-watchdog.ts)   *)
(* and cleanupRun (src/lib/runs/expiry.ts), over the row, the upload       *)
(* bucket, the staging objects and the parser.                             *)
(*                                                                         *)
(* A Worker is one delivery of the analysis Workflow: it claims at most    *)
(* once, so the worker stands for its lease id and fence.  A Cleaner is a  *)
(* DELETE, a maintenance pass, a cleanup-retry Workflow or a poll of the   *)
(* watchdog Workflow, whichever it chooses, again and again.  A store      *)
(* call, an object operation and a provider call are one step each.  Every *)
(* write of a worker is guarded by its lease; no write of a cleaner is,    *)
(* and no deletion.                                                        *)
(*                                                                         *)
(* Times are kept as what has passed: the processing lease is live or      *)
(* elapsed, the five-minute signed access of a document is open or over.   *)
(***************************************************************************)
EXTENDS RunStatus, Integers

CONSTANTS
  N,          \* documents of the run, in manifest order
  Uploads,    \* those that came as uploads; the others are URLs
  Batch,      \* MONID_PARSE_CONCURRENCY
  Worker,
  Cleaner,
  Nobody,
  MaxFaults,  \* bound on lost acknowledgements, refused calls and dead cleaners
  Zombies     \* TRUE: a lease may elapse wherever its worker is; else only
              \* in a paid call, or once the worker has stopped

Docs == 1..N

ASSUME ProcessingAssumption ==
  /\ N \in Nat \ {0} /\ Batch \in Nat \ {0}
  /\ Uploads \subseteq Docs
  /\ Nobody \notin Worker
  /\ MaxFaults \in Nat
  /\ Zombies \in BOOLEAN

VARIABLES
  run,       \* the row
  wk,        \* the local state of each worker
  cl,        \* the local state of each cleaner
  raw,       \* the uploads whose incoming object still has its bytes
  staged,    \* the documents with a staging object
  fetching,  \* the documents the parser may still be downloading
  calls,     \* paid parser calls made for each document
  watched,   \* watchdog Workflows accepted for each document
  faults

world == <<raw, staged, fetching, calls, watched>>
vars == <<run, wk, cl, world, faults>>

(* The application-controlled resources a cleanup receipt may name.  The text *)
(* and the Markdown are held in memory, under an id the worker drew.          *)
Resource(kind, d, by) == [kind |-> kind, doc |-> d, by |-> by]
Blob(d) == Resource("blob", d, Nobody)
Stage(d) == Resource("staged", d, Nobody)
Text(d, w) == Resource("text", d, w)
Parsed(d, w) == Resource("parsed", d, w)
Sources(ds) == {Blob(d) : d \in ds \cap Uploads} \cup {Stage(d) : d \in ds}
Resources ==
  Sources(Docs) \cup {Text(d, w) : d \in Docs, w \in Worker}
                \cup {Parsed(d, w) : d \in Docs, w \in Worker}
Memory(rs) == {r \in rs : r.kind \in {"text", "parsed"}}

StageSteps == {"staging", "indexing", "parsing", "purging", "extracting",
               "reconciling", "verifying"}
GuardedSteps == StageSteps \cup {"register", "arm", "record", "after", "manifest",
                                 "verify", "pending", "publish"}
LoadSteps == {"read", "put", "fence"}
WorkSteps == GuardedSteps \cup LoadSteps \cup {"schedule", "parse", "model"}
RecoverySteps == {"recoverRead", "recoverDelete", "recoverWrite"}
RunningSteps == WorkSteps \cup RecoverySteps
WorkerSteps == RunningSteps \cup {"none", "over", "dead"}

\* The path of one document through parseDocument, and how its call ended: not
\* at all, with a result, or with a terminal error.  A "kept" document has its
\* Markdown although its cleanup was not recorded.
ParseStates == {"idle", "ready", "dispatch", "calling", "capture", "delete", "attempt",
                "parsed", "kept", "failed"}
CallEnds == {"unpaid", "result", "terminal"}

Ended(p) == p \in {"parsed", "kept", "failed"}

Init ==
  /\ run = [status    |-> "queued",
            lease     |-> Nobody,        \* processingLeaseId
            leaseTime |-> "none",        \* processingLeaseExpiresAt
            clean     |-> "no",          \* cleanupConfirmed
            after     |-> "none",        \* terminalAfterCleanup
            expected  |-> Sources(Docs), \* cleanupExpectedResourceIds
            receipts  |-> {},            \* resources with a "deleted" receipt
            watchdog  |-> [d \in Docs |-> "none"],
            scheduled |-> {},            \* watchdogScheduledAt
            captured  |-> {},            \* providerResultCapturedAt
            confirmed |-> {},            \* cleanupConfirmedAt
            access    |-> [d \in Docs |-> "none"]]  \* sourceAccessExpiresAt
  /\ wk = [w \in Worker |-> [at |-> "none", doc |-> 1, first |-> 1, got |-> {},
                             held |-> {}, parse |-> [d \in Docs |-> "idle"],
                             how |-> [d \in Docs |-> "unpaid"]]]
  /\ cl = [c \in Cleaner |-> [at |-> "idle", goal |-> "failed", doc |-> 1,
                              set |-> {}, quiet |-> "no", cancel |-> "no"]]
  /\ raw = Uploads
  /\ staged = {} /\ fetching = {}
  /\ calls = [d \in Docs |-> 0]
  /\ watched = [d \in Docs |-> 0]
  /\ faults = 0

-----------------------------------------------------------------------------
NoFault == UNCHANGED faults
Fault == faults < MaxFaults /\ faults' = faults + 1

Running(w) == wk[w].at \in RunningSteps
Goto(w, step) == wk' = [wk EXCEPT ![w].at = step]

\* A worker's write: accepted under its lease, its acknowledgement perhaps lost.
Guarded(w, row, local) ==
  /\ run.lease = w
  /\ run' = row
  /\ \/ wk' = [wk EXCEPT ![w] = local] /\ NoFault
     \/ wk' = [wk EXCEPT ![w] = [local EXCEPT !.at = "recoverRead"]] /\ Fault

\* executeCleanup never throws: what it could not delete has no receipt.
Unlink(targets, deleted) ==
  /\ deleted \subseteq targets
  /\ staged' = staged \ {d \in Docs : Stage(d) \in deleted}
  /\ raw' = raw \ {d \in Docs : Blob(d) \in deleted}
  /\ IF deleted = targets THEN NoFault ELSE Fault

\* Mutant: a cleanup deletes its targets without asking.
Authorized_Always(r) == r \in Resources

\* Mutant: only a captured outcome ever authorizes the deletion.
Authorized_CaptureOnly(r) ==
  \/ run.status = "expired" \/ r.kind \notin {"blob", "staged"}
  \/ run.access[r.doc] = "none"
  \/ r.doc \in run.captured

\* sourceCleanupAuthorized: a source is not deleted while its paid call is
\* unanswered and its signed access open.  A scrubbed row authorizes anything.
Authorized(r) ==
  \/ run.status = "expired" \/ r.kind \notin {"blob", "staged"}
  \/ run.access[r.doc] # "open"
  \/ r.doc \in run.captured

Gate(row) == row.expected # {} /\ row.expected \subseteq row.receipts

\* updateWatchdog: the status after a cleanup attempt whose receipts are merged.
Attempted(row, d, receipts, cancel) ==
  LET merged == row.receipts \cup receipts
      ok == row.status = "expired" \/ Sources({d}) \subseteq merged
  IN  [row EXCEPT !.receipts = merged,
                  !.confirmed = IF ok THEN @ \cup {d} ELSE @,
                  !.watchdog[d] = CASE ~ok -> "cleanup_pending"
                                    [] ok /\ cancel -> "cancelled"
                                    [] ok /\ ~cancel -> "cleanup_confirmed"]

-----------------------------------------------------------------------------
(* The worker: claim, stages, loading *)

\* Mutant: a run whose watchdog is armed may still be taken over.
Claim_IgnoresArmed(w) ==
  /\ wk[w].at = "none"
  /\ \A d \in Docs : run.access[d] = "none"
  /\ \/ run.status = "queued"
     \/ run.status \in LeasedStatuses /\ run.leaseTime = "elapsed"
  /\ run' = [run EXCEPT !.status = "validating", !.lease = w, !.leaseTime = "live"]
  /\ Goto(w, "staging")
  /\ UNCHANGED <<cl, world, faults>>

\* Mutant: an elapsed lease is enough, whatever the status.
Claim_ElapsedIsEnough(w) ==
  /\ wk[w].at = "none"
  /\ \A d \in Docs : run.watchdog[d] = "none" /\ run.access[d] = "none"
  /\ \/ run.status = "queued"
     \/ run.leaseTime = "elapsed"
  /\ run' = [run EXCEPT !.status = "validating", !.lease = w, !.leaseTime = "live"]
  /\ Goto(w, "staging")
  /\ UNCHANGED <<cl, world, faults>>

\* claimProcessing: a queued run, or one whose worker's lease has elapsed, and
\* never once a watchdog is armed or a paid attempt is recorded.
Claim(w) ==
  /\ wk[w].at = "none"
  /\ \A d \in Docs : run.watchdog[d] = "none" /\ run.access[d] = "none"
  /\ \/ run.status = "queued"
     \/ run.status \in LeasedStatuses /\ run.leaseTime = "elapsed"
  /\ run' = [run EXCEPT !.status = "validating", !.lease = w, !.leaseTime = "live"]
  /\ Goto(w, "staging")
  /\ UNCHANGED <<cl, world, faults>>

\* heartbeatProcessing extends a lease that is still held, elapsed or not.
Heartbeat(w) ==
  /\ wk[w].at \in WorkSteps \ {"publish"} /\ run.lease = w
  /\ run.status \in LeasedStatuses /\ run.leaseTime = "elapsed"
  /\ run' = [run EXCEPT !.leaseTime = "live"]
  /\ UNCHANGED <<wk, cl, world, faults>>

\* stage(): the guarded transition that opens each phase, and what follows it.
StatusOf(step) == IF step = "indexing" THEN "page_indexing"
                  ELSE IF step = "purging" THEN "purging_source" ELSE step
Following(step) ==
  CASE step = "staging" -> "read"        [] step = "indexing" -> "register"
    [] step = "parsing" -> "arm"         [] step = "purging" -> "manifest"
    [] step = "extracting" -> "model"    [] step = "reconciling" -> "verifying"
    [] step = "verifying" -> "verify"

EnterStage(w) ==
  LET step == wk[w].at
  IN  /\ step \in StageSteps
      /\ CanTransition(run.status, StatusOf(step), run.clean = "yes")
      /\ Guarded(w, [run EXCEPT !.status = StatusOf(step)],
                    [wk[w] EXCEPT !.at = Following(step), !.doc = 1,
                       !.held = IF step = "indexing" THEN {Text(d, w) : d \in Docs} ELSE @])
      /\ UNCHANGED <<cl, world>>

\* A fenced-out worker throws at its next guarded write or health check.
Fenced(w) ==
  /\ wk[w].at \in GuardedSteps \cup {"read", "model"} /\ run.lease # w
  /\ Goto(w, "recoverRead")
  /\ UNCHANGED <<run, cl, world, faults>>

\* Any call between the claim and the last write may throw.
Throws(w) ==
  /\ wk[w].at \in WorkSteps \ {"parse"}
  /\ Goto(w, "recoverRead") /\ Fault
  /\ UNCHANGED <<run, cl, world>>

\* The platform ends the function at 300 seconds, or earlier.
Killed(w) ==
  /\ Running(w)
  /\ Goto(w, "dead")
  /\ UNCHANGED <<run, cl, world, faults>>

NextDoc(w) == IF wk[w].doc < N THEN [wk[w] EXCEPT !.at = "read", !.doc = @ + 1]
                               ELSE [wk[w] EXCEPT !.at = "indexing"]

\* loadSource reads an existing stage, else the upload, else the URL.
Read(w) ==
  LET d == wk[w].doc
      Loaded == IF d \in Uploads THEN [wk[w] EXCEPT !.at = "fence"] ELSE NextDoc(w)
  IN  /\ wk[w].at = "read"
      /\ wk' = [wk EXCEPT ![w] =
                  IF d \in staged THEN Loaded
                  ELSE IF d \in Uploads /\ d \notin raw
                       THEN [@ EXCEPT !.at = "recoverRead"]
                       ELSE [@ EXCEPT !.at = "put"]]
      /\ UNCHANGED <<run, cl, world, faults>>

\* sweepExpiredIncoming deletes the object of an expired grant, claimed or not.
SweepUpload(d) ==
  /\ d \in raw /\ raw' = raw \ {d}
  /\ UNCHANGED <<run, wk, cl, staged, fetching, calls, watched, faults>>

\* uploadStorage.stage: no lease guards the object, and an equal one is kept.
Put(w) ==
  LET d == wk[w].doc
  IN  /\ wk[w].at = "put"
      /\ staged' = staged \cup {d}
      /\ wk' = [wk EXCEPT ![w] =
                  IF d \in Uploads THEN [@ EXCEPT !.at = "fence"] ELSE NextDoc(w)]
      /\ UNCHANGED <<run, cl, raw, fetching, calls, watched, faults>>

\* purgeIncomingToFence: the incoming bytes give way to a replay fence.
Fence(w) ==
  /\ wk[w].at = "fence"
  /\ raw' = raw \ {wk[w].doc}
  /\ wk' = [wk EXCEPT ![w] = NextDoc(w)]
  /\ UNCHANGED <<run, cl, staged, fetching, calls, watched, faults>>

\* The page texts are registered as resources to be released.
Register(w) ==
  /\ wk[w].at = "register"
  /\ Guarded(w, [run EXCEPT !.expected = @ \cup {Text(d, w) : d \in Docs}],
                [wk[w] EXCEPT !.at = "parsing", !.first = 1])
  /\ UNCHANGED <<cl, world>>

-----------------------------------------------------------------------------
(* The worker: one parse batch *)

Last(w) == IF wk[w].first + Batch - 1 < N THEN wk[w].first + Batch - 1 ELSE N
InBatch(w) == wk[w].first .. Last(w)

\* Mutant: the cursor runs one document past the batch.
Advance_PastTheEnd(w, next) ==
  IF wk[w].doc <= Last(w) THEN [wk[w] EXCEPT !.doc = @ + 1]
                          ELSE [wk[w] EXCEPT !.at = next, !.doc = wk[w].first]

\* Move the cursor over the batch, then on to the next step.
Advance(w, next) ==
  IF wk[w].doc < Last(w) THEN [wk[w] EXCEPT !.doc = @ + 1]
                         ELSE [wk[w] EXCEPT !.at = next, !.doc = wk[w].first]

\* armSourceCleanupWatchdog, one document after the other.
Arm(w) ==
  LET d == wk[w].doc
  IN  /\ wk[w].at = "arm"
      /\ run.access[d] = "none"
      /\ Guarded(w, [run EXCEPT !.watchdog[d] = "armed"], Advance(w, "schedule"))
      /\ UNCHANGED <<cl, world>>

\* Mutant: a refused watchdog Workflow does not stop the batch.
Schedule_IgnoresRefusal(w) ==
  /\ wk[w].at = "schedule"
  /\ \/ /\ watched' = [d \in Docs |-> watched[d] + (IF d \in InBatch(w) THEN 1 ELSE 0)]
        /\ Goto(w, "record") /\ NoFault
     \/ UNCHANGED watched /\ Goto(w, "record") /\ Fault
  /\ UNCHANGED <<run, cl, raw, staged, fetching, calls>>

\* One Workflow watches the batch; without its acknowledgement nothing is paid.
Schedule(w) ==
  /\ wk[w].at = "schedule"
  /\ \/ /\ watched' = [d \in Docs |-> watched[d] + (IF d \in InBatch(w) THEN 1 ELSE 0)]
        /\ \/ Goto(w, "record") /\ NoFault
           \/ Goto(w, "recoverRead") /\ Fault
     \/ UNCHANGED watched /\ Goto(w, "recoverRead") /\ Fault
  /\ UNCHANGED <<run, cl, raw, staged, fetching, calls>>

\* recordSourceCleanupWatchdogScheduled; after the last one the calls begin.
Record(w) ==
  LET d == wk[w].doc
      local == Advance(w, "parse")
  IN  /\ wk[w].at = "record"
      /\ Guarded(w, [run EXCEPT !.scheduled = @ \cup {d}],
           IF local.at = "parse"
           THEN [local EXCEPT !.parse = [e \in Docs |->
                   IF e \in InBatch(w) THEN "ready" ELSE @[e]]]
           ELSE local)
      /\ UNCHANGED <<cl, world>>

Parsing(w, d, state) == wk[w].at = "parse" /\ wk[w].parse[d] = state
SetParse(w, d, state) == wk' = [wk EXCEPT ![w].parse[d] = state]

\* A guarded write of parseDocument; a lost acknowledgement and a refusal look
\* the same to the document, which goes on to onError.
ParseWrite(w, d, row, next, onError) ==
  \/ /\ run.lease = w /\ run' = row
     /\ \/ SetParse(w, d, next) /\ NoFault
        \/ SetParse(w, d, onError) /\ Fault
  \/ /\ SetParse(w, d, onError) /\ UNCHANGED run
     /\ IF run.lease = w THEN Fault ELSE NoFault

\* beforePaidDispatch: markSourceProviderCallStarted, or no call at all.
MarkStarted(w, d) ==
  /\ Parsing(w, d, "ready")
  /\ d \in run.scheduled /\ run.access[d] = "none"
  /\ ParseWrite(w, d, [run EXCEPT !.access[d] = "open",
                         !.watchdog[d] = IF @ = "armed" THEN "provider_call_started" ELSE @],
                "dispatch", "delete")
  /\ UNCHANGED <<cl, world>>

\* The paid POST, not guarded by anything any more.
Dispatch(w, d) ==
  /\ Parsing(w, d, "dispatch")
  /\ calls' = [calls EXCEPT ![d] = @ + 1]
  /\ fetching' = fetching \cup {d}
  /\ SetParse(w, d, "calling")
  /\ UNCHANGED <<run, cl, raw, staged, watched, faults>>

\* The call ends with a result or a terminal error, after which the parser no
\* longer reads the source, or with an error that says nothing about that.
Answered(w, d) ==
  /\ Parsing(w, d, "calling")
  /\ \/ /\ \E how \in {"result", "terminal"} :
             wk' = [wk EXCEPT ![w].parse[d] = "capture", ![w].how[d] = how]
        /\ fetching' = fetching \ {d}
     \/ SetParse(w, d, "failed") /\ UNCHANGED fetching
  /\ UNCHANGED <<run, cl, raw, staged, calls, watched, faults>>

\* markSourceProviderResultCaptured
Capture(w, d) ==
  /\ Parsing(w, d, "capture")
  /\ ParseWrite(w, d,
       [run EXCEPT !.captured = @ \cup {d},
                   !.watchdog[d] = IF d \in run.confirmed THEN "cleanup_confirmed"
                                                          ELSE "captured",
                   !.expected = IF wk[w].how[d] = "result" THEN @ \cup {Parsed(d, w)}
                                                           ELSE @],
       "delete", "failed")
  /\ UNCHANGED <<cl, world>>

\* Mutant: a deletion that failed is receipted like one that succeeded.
DeleteSource_AssumesDeleted(w, d) ==
  /\ Parsing(w, d, "delete")
  /\ \E deleted \in SUBSET Sources({d}) :
       /\ Unlink(Sources({d}), deleted)
       /\ wk' = [wk EXCEPT ![w].parse[d] = "attempt", ![w].got = @ \cup Sources({d})]
  /\ UNCHANGED <<run, cl, fetching, calls, watched>>

\* The source is removed once it is safe: unpaid, or its outcome captured.
DeleteSource(w, d) ==
  /\ Parsing(w, d, "delete")
  /\ \E deleted \in SUBSET Sources({d}) :
       /\ Unlink(Sources({d}), deleted)
       /\ wk' = [wk EXCEPT ![w].parse[d] = "attempt", ![w].got = @ \cup deleted]
  /\ UNCHANGED <<run, cl, fetching, calls, watched>>

\* recordSourceCleanupAttempt under the worker's lease.
RecordAttempt(w, d) ==
  LET result == wk[w].how[d] = "result"
  IN  /\ Parsing(w, d, "attempt")
      /\ ParseWrite(w, d,
           Attempted(run, d, wk[w].got \cap Sources({d}), wk[w].how[d] = "unpaid"),
           IF result THEN "parsed" ELSE "failed", IF result THEN "kept" ELSE "failed")
      /\ UNCHANGED <<cl, world>>

\* Mutant: a cleanup attempt that was not recorded is not a failure of the batch.
BatchEnds_IgnoresKept(w) ==
  LET failed == \E d \in InBatch(w) :
                  wk[w].parse[d] = "failed" \/ ~(Sources({d}) \subseteq wk[w].got)
      rest == Sources(Last(w) + 1 .. N)
      held == wk[w].held \cup
                {Parsed(d, w) : d \in {e \in Docs : wk[w].parse[e] \in {"parsed", "kept"}}}
  IN  /\ wk[w].at = "parse" /\ \A d \in InBatch(w) : Ended(wk[w].parse[d])
      /\ IF failed
         THEN \E deleted \in SUBSET rest :
                /\ Unlink(rest, deleted)
                /\ wk' = [wk EXCEPT ![w].at = "after", ![w].got = @ \cup deleted,
                                   ![w].held = held]
         ELSE /\ wk' = [wk EXCEPT ![w] =
                   IF Last(w) < N
                   THEN [@ EXCEPT !.at = "arm", !.first = Last(w) + 1, !.doc = Last(w) + 1]
                   ELSE [@ EXCEPT !.at = "after", !.held = held]]
              /\ UNCHANGED <<raw, staged, faults>>
      /\ UNCHANGED <<run, cl, fetching, calls, watched>>

\* Mutant: the next batch is not armed and handed to a Workflow of its own.
BatchEnds_ReusesWatchdog(w) ==
  LET failed == \E d \in InBatch(w) :
                  wk[w].parse[d] # "parsed" \/ ~(Sources({d}) \subseteq wk[w].got)
      rest == Sources(Last(w) + 1 .. N)
      held == wk[w].held \cup
                {Parsed(d, w) : d \in {e \in Docs : wk[w].parse[e] \in {"parsed", "kept"}}}
  IN  /\ wk[w].at = "parse" /\ \A d \in InBatch(w) : Ended(wk[w].parse[d])
      /\ IF failed
         THEN \E deleted \in SUBSET rest :
                /\ Unlink(rest, deleted)
                /\ wk' = [wk EXCEPT ![w].at = "after", ![w].got = @ \cup deleted,
                                   ![w].held = held]
         ELSE /\ wk' = [wk EXCEPT ![w] =
                   IF Last(w) < N
                   THEN [@ EXCEPT !.at = "record", !.first = Last(w) + 1, !.doc = Last(w) + 1]
                   ELSE [@ EXCEPT !.at = "after", !.held = held]]
              /\ UNCHANGED <<raw, staged, faults>>
      /\ UNCHANGED <<run, cl, fetching, calls, watched>>

\* Promise.allSettled: on to the next batch, or, after any failure, the sources
\* not yet sent anywhere are removed and no further batch starts.
BatchEnds(w) ==
  LET failed == \E d \in InBatch(w) :
                  wk[w].parse[d] # "parsed" \/ ~(Sources({d}) \subseteq wk[w].got)
      rest == Sources(Last(w) + 1 .. N)
      held == wk[w].held \cup
                {Parsed(d, w) : d \in {e \in Docs : wk[w].parse[e] \in {"parsed", "kept"}}}
  IN  /\ wk[w].at = "parse" /\ \A d \in InBatch(w) : Ended(wk[w].parse[d])
      /\ IF failed
         THEN \E deleted \in SUBSET rest :
                /\ Unlink(rest, deleted)
                /\ wk' = [wk EXCEPT ![w].at = "after", ![w].got = @ \cup deleted,
                                   ![w].held = held]
         ELSE /\ wk' = [wk EXCEPT ![w] =
                   IF Last(w) < N
                   THEN [@ EXCEPT !.at = "arm", !.first = Last(w) + 1, !.doc = Last(w) + 1]
                   ELSE [@ EXCEPT !.at = "after", !.held = held]]
              /\ UNCHANGED <<raw, staged, faults>>
      /\ UNCHANGED <<run, cl, fetching, calls, watched>>

-----------------------------------------------------------------------------
(* The worker: from the parsed documents to the result *)

\* afterSourceCleanup: the receipts are merged, then any failure is thrown.
AfterParse(w) ==
  LET row == [run EXCEPT !.receipts = @ \cup wk[w].got]
      good == \A d \in Docs : wk[w].parse[d] = "parsed" /\ Sources({d}) \subseteq row.receipts
  IN  /\ wk[w].at = "after"
      /\ Guarded(w, row, [wk[w] EXCEPT !.at = IF good THEN "purging" ELSE "recoverRead"])
      /\ UNCHANGED <<cl, world>>

\* The manifests are marked; nothing is sent to the model unless each is deleted.
Manifest(w) ==
  /\ wk[w].at = "manifest"
  /\ Guarded(w, run, [wk[w] EXCEPT !.at = IF Sources(Docs) \subseteq run.receipts
                                          THEN "extracting" ELSE "recoverRead"])
  /\ UNCHANGED <<cl, world>>

\* The model call, on the parsed text only.
Extract(w) ==
  /\ wk[w].at = "model"
  /\ Goto(w, "reconciling")
  /\ UNCHANGED <<run, cl, world, faults>>

\* Mutant: the gate looks at what this worker held, not at what is expected.
Verify_OwnMemoryOnly(w) ==
  LET row == [run EXCEPT !.receipts = @ \cup wk[w].held]
      clean == /\ Sources(Docs) \cup wk[w].held \subseteq row.receipts
               /\ \A d \in Docs : run.watchdog[d] # "none" =>
                    /\ d \in run.captured /\ d \in run.confirmed
                    /\ run.watchdog[d] = "cleanup_confirmed"
  IN  /\ wk[w].at = "verify"
      /\ Guarded(w, [row EXCEPT !.clean = IF clean THEN "yes" ELSE "no"],
                    [wk[w] EXCEPT !.at = IF clean THEN "publish" ELSE "pending"])
      /\ UNCHANGED <<cl, world>>

\* The memory is released and the release gate computed: every expected
\* resource has a receipt and every watchdog saw capture and cleanup.
Verify(w) ==
  LET row == [run EXCEPT !.receipts = @ \cup wk[w].held]
      clean == /\ Gate(row)
               /\ \A d \in Docs : run.watchdog[d] # "none" =>
                    /\ d \in run.captured /\ d \in run.confirmed
                    /\ run.watchdog[d] = "cleanup_confirmed"
  IN  /\ wk[w].at = "verify"
      /\ Guarded(w, [row EXCEPT !.clean = IF clean THEN "yes" ELSE "no"],
                    [wk[w] EXCEPT !.at = IF clean THEN "publish" ELSE "pending"])
      /\ UNCHANGED <<cl, world>>

\* Unconfirmed: the run is made pending and the exception thrown.
Withhold(w) ==
  /\ wk[w].at = "pending"
  /\ Guarded(w, [run EXCEPT !.status = "cleanup_pending", !.after = "failed"],
                [wk[w] EXCEPT !.at = "recoverRead"])
  /\ UNCHANGED <<cl, world>>

\* The last write, after the settlement: the only one that shows a result.
Publish(w) ==
  /\ wk[w].at = "publish"
  /\ \E outcome \in ReleasedStatuses :
       /\ CanTransition(run.status, outcome, run.clean = "yes")
       /\ Guarded(w, [run EXCEPT !.status = outcome, !.lease = Nobody,
                                 !.leaseTime = "none"],
                     [wk[w] EXCEPT !.at = "over"])
  /\ UNCHANGED <<cl, world>>

-----------------------------------------------------------------------------
(* The catch clause of processRun *)

\* It reads the row to see what still has to be, and may be, deleted.
RecoverRead(w) ==
  /\ wk[w].at = "recoverRead"
  /\ wk' = [wk EXCEPT ![w].at = "recoverDelete",
              ![w].got = {r \in (Sources(Docs) \cup wk[w].held) \ run.receipts :
                            Authorized(r)}]
  /\ UNCHANGED <<run, cl, world, faults>>

RecoverDelete(w) ==
  LET targets == wk[w].got \ Memory(wk[w].got)
  IN  /\ wk[w].at = "recoverDelete"
      /\ \E deleted \in SUBSET targets :
           /\ Unlink(targets, deleted)
           /\ wk' = [wk EXCEPT ![w].at = "recoverWrite",
                               ![w].got = deleted \cup Memory(@)]
      /\ UNCHANGED <<run, cl, fetching, calls, watched>>

\* The guarded failure.  The lease time survives only while a signed access is
\* open; a worker that was fenced out, or loses the answer, leaves it there.
RecoverWrite(w) ==
  LET row == [run EXCEPT !.receipts = @ \cup wk[w].got]
      open == \E d \in Docs : run.access[d] = "open" /\ d \notin run.captured
  IN  /\ wk[w].at = "recoverWrite"
      /\ run' = IF run.lease = w
                THEN [row EXCEPT !.status = IF Gate(row) THEN "failed" ELSE "cleanup_pending",
                                 !.after = IF Gate(row) THEN "none" ELSE "failed",
                                 !.clean = IF Gate(row) THEN "yes" ELSE "no",
                                 !.lease = Nobody,
                                 !.leaseTime = IF open THEN @ ELSE "none"]
                ELSE run
      /\ Goto(w, "over")
      /\ UNCHANGED <<cl, world, faults>>

-----------------------------------------------------------------------------
(* Cleaners: cleanupRun and the watchdog *)

Begin(c, step, goal) ==
  cl' = [cl EXCEPT ![c].at = step, ![c].goal = goal]

\* DELETE, or maintenance once the run's time to live has passed.
Expire(c) ==
  /\ cl[c].at = "idle" /\ run.status # "expired"
  /\ Begin(c, "revoke", "expired")
  /\ UNCHANGED <<run, wk, world, faults>>

\* Mutant: maintenance leaves a pending cleanup to its retry Workflow.
Sweep_LeavesPending(c) ==
  /\ cl[c].at = "idle"
  /\ run.status \in LeasedStatuses /\ run.leaseTime = "elapsed"
  /\ Begin(c, "revoke", "expired")
  /\ UNCHANGED <<run, wk, world, faults>>

\* Maintenance: a dead worker's run is expired, a pending cleanup resumed.
Sweep(c) ==
  /\ cl[c].at = "idle"
  /\ \/ /\ run.status \in LeasedStatuses /\ run.leaseTime = "elapsed"
        /\ Begin(c, "revoke", "expired")
     \/ /\ run.status = "cleanup_pending"
        /\ Begin(c, "revoke", IF run.after = "none" THEN "expired" ELSE run.after)
  /\ UNCHANGED <<run, wk, world, faults>>

\* The standalone cleanup-retry Workflow.
Retry(c) ==
  /\ cl[c].at = "idle" /\ run.status = "cleanup_pending"
  /\ Begin(c, "revoke", IF run.after = "none" THEN "failed" ELSE run.after)
  /\ UNCHANGED <<run, wk, world, faults>>

WorkerGone == /\ run.status \in LeasedStatuses \cup {"cleanup_pending"}
              /\ run.leaseTime = "elapsed"

\* runSourceCleanupWatchdog on one registration: finalize a dead worker's run
\* once the source is confirmed; leave the source alone until its outcome is
\* captured or its signed access is over; then remove it.
Poll(c, d) ==
  /\ cl[c].at = "idle" /\ watched[d] > 0 /\ run.status # "expired"
  /\ \/ /\ d \in run.confirmed /\ WorkerGone
        /\ Begin(c, "revokeIf", "failed")
     \/ /\ d \notin run.confirmed
        /\ d \in run.captured \/ run.access[d] = "over"
        /\ cl' = [cl EXCEPT ![c].at = "unlink", ![c].doc = d, ![c].set = Sources({d}),
                            ![c].cancel = IF d \in run.captured THEN "no" ELSE "yes"]
  /\ UNCHANGED <<run, wk, world, faults>>

\* executeCleanup, for the watchdog ("unlink") or for cleanupRun ("purge").
Purge(c) ==
  /\ cl[c].at \in {"unlink", "purge"}
  /\ \E deleted \in SUBSET cl[c].set :
       /\ Unlink(cl[c].set, deleted)
       /\ cl' = [cl EXCEPT ![c].set = deleted,
                   ![c].at = IF @ = "unlink" THEN "attempt" ELSE "confirm"]
  /\ UNCHANGED <<run, wk, fetching, calls, watched>>

\* The watchdog's recordSourceCleanupAttempt carries no lease.
RecordPoll(c) ==
  LET d == cl[c].doc
      row == Attempted(run, d, cl[c].set, cl[c].cancel = "yes")
  IN  /\ cl[c].at = "attempt"
      /\ run' = row
      /\ cl' = [cl EXCEPT ![c].set = {}, ![c].cancel = "no", ![c].doc = 1,
                  ![c].at = IF d \in row.confirmed /\ WorkerGone THEN "revokeIf" ELSE "idle",
                  ![c].goal = "failed"]
      /\ UNCHANGED <<wk, world, faults>>

\* cleanupRun's first write.  The watchdog's is conditional on a lease that is
\* still elapsed; the others take the run whatever became of it.
Revoke(c) ==
  LET goes == IF cl[c].at = "revokeIf" THEN WorkerGone ELSE run.status # "expired"
      quiet == run.leaseTime # "live"
      targets == {r \in Sources(Docs) :
                    /\ Authorized(r)
                    /\ r \notin run.receipts \/ (quiet /\ r.kind = "staged")}
  IN  /\ cl[c].at \in {"revoke", "revokeIf"}
      /\ IF goes
         THEN /\ run' = [run EXCEPT !.status = "cleanup_pending", !.clean = "no",
                           !.after = TerminalWinner(@, cl[c].goal), !.lease = Nobody]
              /\ cl' = [cl EXCEPT ![c].at = "purge", ![c].set = targets,
                                  ![c].quiet = IF quiet THEN "yes" ELSE "no"]
         ELSE /\ cl' = [cl EXCEPT ![c].at = "idle"]
              /\ UNCHANGED run
      /\ UNCHANGED <<wk, world, faults>>

\* Mutant: the revoked worker is taken for gone at once.
Confirm_AtOnce(c) ==
  LET quiet == TRUE
      deleted == run.receipts \cup cl[c].set
      receipts == IF quiet THEN deleted \cup Memory(run.expected) ELSE deleted
      durable == run.expected \ Memory(run.expected)
      confirmed == /\ quiet /\ durable # {}
                   /\ \A r \in durable :
                        r \in (IF r.kind = "staged" THEN cl[c].set ELSE receipts)
                   /\ run.expected \subseteq receipts
      winner == TerminalWinner(run.after, cl[c].goal)
  IN  /\ cl[c].at = "confirm"
      /\ run' =
           IF run.status = "expired" THEN run
           ELSE IF ~confirmed
           THEN [run EXCEPT !.status = "cleanup_pending", !.clean = "no", !.after = winner,
                            !.lease = Nobody, !.receipts = receipts]
           ELSE [run EXCEPT !.status = winner, !.clean = "yes", !.after = "none",
                            !.lease = Nobody, !.leaseTime = "none",
                            !.receipts = IF winner = "expired" THEN {} ELSE receipts,
                            !.expected = IF winner = "expired" THEN {} ELSE @]
      /\ cl' = [cl EXCEPT ![c].at = "idle", ![c].set = {}, ![c].quiet = "no",
                          ![c].goal = "failed"]
      /\ UNCHANGED <<wk, world, faults>>

\* cleanupRun's second write.  Once the revoked worker counts as gone, its
\* process memory is receipted too, and the staging objects must have been
\* deleted by this very attempt.
Confirm(c) ==
  LET quiet == run.leaseTime = "none" \/ (run.leaseTime = "elapsed" /\ cl[c].quiet = "yes")
      deleted == run.receipts \cup cl[c].set
      receipts == IF quiet THEN deleted \cup Memory(run.expected) ELSE deleted
      durable == run.expected \ Memory(run.expected)
      confirmed == /\ quiet /\ durable # {}
                   /\ \A r \in durable :
                        r \in (IF r.kind = "staged" THEN cl[c].set ELSE receipts)
                   /\ run.expected \subseteq receipts
      winner == TerminalWinner(run.after, cl[c].goal)
  IN  /\ cl[c].at = "confirm"
      /\ run' =
           IF run.status = "expired" THEN run
           ELSE IF ~confirmed
           THEN [run EXCEPT !.status = "cleanup_pending", !.clean = "no", !.after = winner,
                            !.lease = Nobody, !.receipts = receipts]
           ELSE [run EXCEPT !.status = winner, !.clean = "yes", !.after = "none",
                            !.lease = Nobody, !.leaseTime = "none",
                            !.receipts = IF winner = "expired" THEN {} ELSE receipts,
                            !.expected = IF winner = "expired" THEN {} ELSE @]
      /\ cl' = [cl EXCEPT ![c].at = "idle", ![c].set = {}, ![c].quiet = "no",
                          ![c].goal = "failed"]
      /\ UNCHANGED <<wk, world, faults>>

\* A cleaner dies, or one of its store calls fails.
CleanerDies(c) ==
  /\ cl[c].at # "idle" /\ Fault
  /\ cl' = [cl EXCEPT ![c].at = "idle", ![c].set = {}, ![c].quiet = "no",
                      ![c].cancel = "no", ![c].doc = 1, ![c].goal = "failed"]
  /\ UNCHANGED <<run, wk, world>>

-----------------------------------------------------------------------------
(* Time *)

\* A worker in a paid call: the parser is polled up to 120 times, and nothing
\* aborts that, or the model call, when a heartbeat is refused.
AwaitsProvider(w) ==
  wk[w].at = "model" \/ (wk[w].at = "parse" /\ \E d \in Docs : wk[w].parse[d] = "calling")

\* The lease lasts 45 seconds from the last heartbeat.  A paid call may outlast what
\* is left of it; unless Zombies, no other wait of a worker that no longer
\* heartbeats does.
LeaseElapses ==
  /\ run.leaseTime = "live"
  /\ Zombies \/ \A w \in Worker : Running(w) => AwaitsProvider(w)
  /\ run' = [run EXCEPT !.leaseTime = "elapsed"]
  /\ UNCHANGED <<wk, cl, world, faults>>

\* A lease is sure to elapse only when nobody is left to heartbeat.
LeaseOfDead == LeaseElapses /\ \A w \in Worker : ~Running(w)

\* The signed access, granted for five minutes in mid-run, outlives the 300
\* seconds of the function; when it is over the parser can read no further.
AccessEnds(d) ==
  /\ run.access[d] = "open"
  /\ \A w \in Worker : Running(w) => wk[w].parse[d] = "idle"
  /\ run' = [run EXCEPT !.access[d] = "over"]
  /\ fetching' = fetching \ {d}
  /\ UNCHANGED <<wk, cl, raw, staged, calls, watched, faults>>

-----------------------------------------------------------------------------
Load(w) == Claim(w) \/ EnterStage(w) \/ Read(w) \/ Put(w) \/ Fence(w) \/ Register(w)

ParseDocument(w, d) ==
  \/ MarkStarted(w, d) \/ Dispatch(w, d) \/ Answered(w, d) \/ Capture(w, d)
  \/ DeleteSource(w, d) \/ RecordAttempt(w, d)

Parse(w) ==
  \/ Arm(w) \/ Schedule(w) \/ Record(w) \/ BatchEnds(w)
  \/ \E d \in Docs : ParseDocument(w, d)

Finish(w) == AfterParse(w) \/ Manifest(w) \/ Extract(w) \/ Verify(w) \/ Withhold(w)
             \/ Publish(w)

Recovery(w) == Fenced(w) \/ Throws(w) \/ RecoverRead(w) \/ RecoverDelete(w) \/ RecoverWrite(w)

WorkerStep(w) == Load(w) \/ Parse(w) \/ Finish(w) \/ Recovery(w) \/ Heartbeat(w)

\* The steps that carry a started cleanup on.
CleanStep(c) == Revoke(c) \/ Purge(c) \/ Confirm(c) \/ RecordPoll(c)

CleanerStep(c) ==
  \/ Expire(c) \/ Sweep(c) \/ Retry(c) \/ CleanStep(c) \/ CleanerDies(c)
  \/ \E d \in Docs : Poll(c, d)

Time == LeaseElapses \/ \E d \in Docs : AccessEnds(d) \/ SweepUpload(d)

Next ==
  \/ \E w \in Worker : WorkerStep(w) \/ Killed(w)
  \/ \E c \in Cleaner : CleanerStep(c)
  \/ Time

Spec == Init /\ [][Next]_vars

\* Time passes, the platform ends every function, and maintenance is invoked
\* again and again.  Nothing is assumed of the Workflow, of a DELETE, of a
\* cleanup retry or of the watchdog.
Fairness ==
  /\ WF_vars(LeaseOfDead)
  /\ \A d \in Docs : WF_vars(AccessEnds(d))
  /\ \A w \in Worker : WF_vars(Killed(w))
  /\ \A c \in Cleaner : WF_vars(Sweep(c) \/ CleanStep(c))

FairSpec == Spec /\ Fairness

-----------------------------------------------------------------------------
(* Properties *)

RunRow ==
  [status    : RunStatuses,
   lease     : Worker \cup {Nobody},
   leaseTime : {"none", "live", "elapsed"},
   clean     : {"yes", "no"},
   after     : {"none", "failed", "expired"},
   expected  : SUBSET Resources,
   receipts  : SUBSET Resources,
   watchdog  : [Docs -> {"none", "armed", "provider_call_started", "captured",
                         "cleanup_pending", "cleanup_confirmed", "cancelled"}],
   scheduled : SUBSET Docs,
   captured  : SUBSET Docs,
   confirmed : SUBSET Docs,
   access    : [Docs -> {"none", "open", "over"}]]

WorkerState ==
  [at : WorkerSteps, doc : Docs, first : Docs, got : SUBSET Resources,
   held : SUBSET Resources, parse : [Docs -> ParseStates], how : [Docs -> CallEnds]]

CleanerState ==
  [at : {"idle", "revoke", "revokeIf", "unlink", "attempt", "purge", "confirm"},
   goal : {"failed", "expired"}, doc : Docs, set : SUBSET Sources(Docs),
   quiet : {"yes", "no"}, cancel : {"yes", "no"}]

\* The type invariant.
TypeOK ==
  /\ run \in RunRow
  /\ wk \in [Worker -> WorkerState]
  /\ cl \in [Cleaner -> CleanerState]
  /\ raw \subseteq Uploads /\ staged \subseteq Docs /\ fetching \subseteq Docs
  /\ calls \in [Docs -> Nat] /\ watched \in [Docs -> Nat] /\ faults \in Nat

\* No deletion, by whichever of the five code paths, takes a staging object
\* away while the parser may still be downloading it.
DownloadsAreStaged == fetching \subseteq staged

NoSourceLeft == raw = {} /\ staged = {}

\* A run that ended, with a result or without, has no source left anywhere, and
\* no late write of its worker brings one back.
EndIsEmpty == run.status \in ReleasedStatuses \cup {"failed", "expired"} => NoSourceLeft

\* The model is called only after every source of the run is gone.
ModelComesLast == (\E w \in DOMAIN wk : wk[w].at = "model") => NoSourceLeft

\* Redelivery, a lost acknowledgement or a takeover never pays for a document
\* twice, and never hands its registration to a second watchdog Workflow.
PaidAndWatchedOnce == \A d \in DOMAIN calls : calls[d] <= 1 /\ watched[d] <= 1

\* A paid call is only made for a document some watchdog Workflow looks after.
PaidIsWatched == \A d \in DOMAIN calls : run.access[d] # "none" => watched[d] > 0

\* Takeovers, redelivery and lost answers never pay for a document twice, never
\* register it twice, and never pay for one that is not registered.
PaidOnceAndWatched == PaidAndWatchedOnce /\ PaidIsWatched

\* Once a document of a batch failed, no document of a later batch is paid for.
FailureStopsPaying ==
  \A w \in DOMAIN wk : \A d, e \in DOMAIN calls :
    /\ wk[w].parse[e] \in {"failed", "kept"}
    /\ (e - 1) \div Batch < (d - 1) \div Batch
    => calls[d] = 0

\* In every round of paid calls, what is paid for is watched, and a failure in one
\* document stops the rounds to come.
RoundsAreSound == PaidIsWatched /\ FailureStopsPaying

\* A released run was read by one worker only: the page texts a replaced worker
\* registered can never be receipted by its successor.
ReleasedRunHasOneReader ==
  run.status \in ReleasedStatuses =>
    \A r, q \in Memory(run.expected) : r.by = q.by

\* handoff-backend.md says page text and parsed Markdown receive a synthetic release
\* receipt only after worker quiescence: a worker in a paid call, which goes on with
\* the texts it holds when the call ends, has no such receipt for them.
MemoryReceiptIsTrue ==
  \A w \in DOMAIN wk : AwaitsProvider(w) => \A r \in Memory(run.receipts) : r.by # w

\* A withdrawn run never returns to analysis, nor shows a result.
WithdrawnStaysDark ==
  [][(run.status \in WithdrawnStatuses => run'.status \in WithdrawnStatuses)]_vars

\* A run that was claimed, or has a staging object, has to come to its end without
\* one, whatever is killed, lost or refused on the way.
IsAtWork == run.status \in LeasedStatuses \cup {"cleanup_pending"} \/ staged # {}
IsOver == run.status \in ReleasedStatuses \cup {"failed", "expired"} /\ staged = {}

\* handoff-backend.md says early delete and expiry scrub blob paths and leave only
\* a hashed cleanup audit: an expired row names no resource.
ExpiredRowIsScrubbed == run.status = "expired" => run.receipts = {} /\ run.expected = {}
=============================================================================
