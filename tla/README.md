# RFP X-Ray: the life of a run in TLA+

RFP X-Ray takes the PDF files of a public solicitation, has them parsed and
analysed by paid providers, and shows a cited result for one day. The modules here
model what happens to one such *run*: how it is admitted exactly once, how its
worker is leased, fenced and replaced, how money is committed, and how every copy
of the source is removed and its removal proved before a result is shown. Around it
are the parts that decide what a run may rest on: the receipts of a deployment, the
probes and the paid campaign of a release, the reconciliation of what documents say,
and the page.

The program is a Next.js application on Vercel: API routes and a maintenance route
are short-lived functions, the analysis and three helpers are Vercel Workflows, the
rows live in Neon Postgres, the uploads and staging copies in a Railway S3 bucket.
No process owns a run. Everything that keeps two of them apart is a guarded write
to the row, and every call may commit without its caller ever learning it. That is
where the difficulty is, and what the modules are about.

## The system

| Part | State it keeps | Operations | Talks to |
| --- | --- | --- | --- |
| Run store (`db/neon-store.ts`, `lib/runs/store.ts`) | the row: status, admission lease, dispatch claim, processing lease and fence, watchdog registrations, receipts, costs | `create`, guarded `update` (compare-and-swap on `version`), the claims, the listings | everything |
| Admission (`lib/runs/create.ts`) | none of its own | `createRun`, `admitQueuedRun`, `failAdmission`, `recoverUnscheduledRuns` | store, bucket, budget, Workflow |
| Pipeline (`lib/pipeline.ts`) | cleanup targets, receipts and page texts in memory | `processRun`: stage, index, parse in batches, purge, extract, verify, publish; a catch clause that cleans up | store, bucket, parser, model, budget |
| Watchdog (`lib/runs/source-cleanup-watchdog.ts`, its Workflow) | registrations in the row | arm, record scheduled, mark started, mark captured, record attempt, poll | store, bucket |
| Cleanup (`lib/runs/expiry.ts`, `lib/cleanup.ts`) | none | `cleanupRun`: revoke, delete, confirm; `expireRun`, `expireDueRuns` | store, bucket |
| Dispatch (`lib/runs/scheduler.ts`) | claims in the row | analysis, watchdog and cleanup-retry Workflows | Workflow, store |
| Budget (`lib/security/budget.ts`) and cost ledger (`lib/runs/paid-cost-ledger.ts`) | reservations; cost events in the row | reserve, settle; mark and settle a paid attempt | store |
| Bucket (`lib/storage/*`) | grants, incoming objects, fences, staging objects | presign, claim, stage, purge to a fence, remove, sweep | Railway |
| Maintenance (`app/api/internal/maintenance`, `lib/health/maintenance.ts`) | a heartbeat row | every five minutes: recover, expire, sweep | all of the above |
| Parser and model (`lib/providers/*`) | one inspected contract per adapter | start, poll, fetch; batches under token caps | providers, ledger |
| Analysis (`lib/analysis/*`, `lib/evidence`) | none that outlives a call | text to cited fields, reconciled facts, one submission channel | - |
| Health (`lib/health/*`, `scripts/attest-*.mjs`) | two receipts of a deployment, a memo of each | attest, read, spend under them | providers, database |
| Release (`scripts/live-verify.mjs`, `scripts/live-recovery-probe.mjs`, the bucket probe) | an evidence file, a receipt of the bucket | pay for the sample runs once; show that a killed step is delivered again; show that the bucket keeps its fence | the service, Workflow, Railway |
| Page (`components/*`) | React state, a chain of challenges | upload, create, poll, delete | the API |
| Authentication, API surface | cookies | none that changes a run | - |

What is hard in it: a request, its replay, a DELETE, a maintenance pass, two
deliveries of the analysis Workflow, a watchdog poll and a cleanup retry may all
be at work on one run. Acknowledgements of the store and of `start()` are lost. A
function is killed at 300 seconds or earlier. A lease is measured by a clock, so a
stalled worker may outlive it. Deletions fail one by one. `PROJECT.json` lists each
such hazard at its line with the properties that cover it.

## Modules

`RunStatus` holds what all parts share: the statuses, `CanTransition`
(`state-machine.ts`), the groups of statuses the code tests for, and
`TerminalWinner` (which of `failed` and `expired` a cleanup ends in).

### RunAdmission: from the inserted row to the dispatched Workflow

A *caller* is a request that created or replays the run, a DELETE, a cleanup-retry
Workflow (all in `Api`) or a maintenance process (`Cron`). Its program counter
`pc[c]` names the store call it makes next, so one action is one call:
`ClaimAdmission`, `RaiseReservation`, `ClaimIncoming`, `Reserve`, `ClaimDispatch`,
`Start` and `Settle` are the lines of `admitQueuedRun` in order; `FailAdmission`,
`FailStranded` and then `Revoke`, `Purge`, `Confirm`, `SettleZero`, `Remove` are the
ways out. Between two of them anything else may move. `Acknowledged(c, next, onLoss)` is the
idiom for a call that commits and whose answer may be lost: the row has changed,
and the caller goes where its `catch` clause takes it. `Crash` ends a caller
anywhere.

Clock fields are kept as time left or elapsed (`leaseLeft`, `claimAge`, `quiet`), so
a `Tick` is a countdown and the state space is finite. The worker is seen from
outside only (`WorkerClaim`, `WorkerPays`, `WorkerSettles`, `WorkerEnds`), the
upload as one grant, the bucket's sweep as `SweepGrant`. The cleanup-retry Workflow
may come whenever a cleanup is pending, which is more than its dispatch allows:
`CleanupRetry` has that.

### RunCreation: several requests and what they share

`createRun` and the insertion of `NeonRunStore.create` for several POSTs at once. A run
has the name of the request that would insert it. `Insert` meets the unique indexes of
the idempotency key and of the owner's active run; the loser reads the winner's row in a
step of its own and may find it removed. `Reserve` weighs the daily cap and the quota in
one statement; releases, settlements and midnight fall in between. The admission of one
run, taken apart in `RunAdmission`, is one path here.

### UploadGrant: one signed URL and its bytes

The ledger row of a grant, the object its URL may create (the declared body or another
one, as often as the client likes), the runs that claim it, the purges that put an empty
fence in place of the bytes, and the sweeps with their lease. The bucket knows
preconditions (`If-Match`, `If-None-Match`) and nothing else, so every party's read and
write are separate actions. `phase` is the age of the grant: its URL is good, or its
grace runs, or it is due.

### CleanupRetry and OneDispatch: one retry, however it is lost

`CleanupRetry` is `scheduleCleanupRetry`, `claimCleanupRetry` and the settlement of the
dispatch, with each call lost on its way there or back, the Workflow that runs it, and the
maintenance pass that finds what it left. `OneDispatch` is what the claim promises: it is
taken once and for good, the service is asked once at most, and what the row says of the
retry is true. What `cleanupRun` does is one step here.

### RunProcessing: from the claimed lease to the confirmed removal

A *worker* is one delivery of the analysis Workflow, a *cleaner* any process that
runs `cleanupRun` or a watchdog poll. The row is the record `run`; `wk[w]` and
`cl[c]` hold what a worker and a cleaner have in memory, above all what they have
read and not yet used. `Guarded` is `store.update` under a lease, `Unlink` is
`executeCleanup`, which deletes any subset of its targets and never throws.

The documents are `1..N`, those in `Uploads` have an incoming object. Their copies
are `raw` and `staged`; `fetching` is what nobody can see, the parser still
downloading. The documents of a batch proceed in parallel (`ParseDocument`), each
through `MarkStarted`, `Dispatch`, `Answered`, `Capture`, `DeleteSource`,
`RecordAttempt`. A receipt is a `Resource`: an incoming object, a staging object, a
page text or a parsed text, the last two with the worker that holds them.

A lease lasts 45 seconds from the last heartbeat, and `quiescenceReached` in
`expiry.ts` takes a worker for gone when its own has elapsed. Nothing stops that
worker: a refused heartbeat sets a flag which the worker looks at between its steps.
While it waits for the parser (up to 120 polls) or for the model (`AwaitsProvider`), its lease
may elapse in any run. `Zombies` says whether it may elapse during the worker's other
waits too, of which the fetch of a URL is the one the code lets last longer than a lease;
the `outlived` part of `processing` and `late_stage` take it to be `TRUE`, and show what rests on `FALSE` and what does not. `Fairness` has `LeaseOfDead`: that a
lease elapses is certain only when its worker has stopped.

### CostLedger: what a run may spend and what it is charged

One worker makes the paid calls of a run: `claimProcessing` refuses a row with a
paid attempt, which is why this module has a single `wk` and needs no second one.
An *attempt* is a parser call (`Parse(d)`) or a model batch (`Model(k)`). Its event
in the row is `pending`, for the most it may cost, before the call is made;
`charged` is what the provider really bills and nobody in the system can see. The
row's events, the worker's memory `mem` and `settled` are three records of the same
money, merged in `Merge`, `Verify` and `Recover`, and the properties relate each of
them to `charged`.

Up to `Batch` documents are in `MarkStarted`, `Dispatch` and `Capture` at once; a
failed one lets the batch end and nothing after it start. `Preflight` to
`SettleBatch` are the batch loop of the OpenAI adapter with its token caps
(`OutputCap`) and its prices, which are rounded up per batch (`Price`,
`MultiPrice`). `Interrupted` is a deadline or a heartbeat failing between two
steps, `Killed` the end of the function, `Withdraw` a DELETE or an expiry.

Assumed of the parser: a call whose cost is not reported costs at most its reserve
(the code counts it as that). The input tokens of a batch are those of its plan, where the
adapter takes them from the answer. An overcharge that is reported may be any amount. An
excess of input tokens is handled like one of output tokens and left out. A
definition whose name ends in `_...` is the mutated form of the one below it.

Two things the module shows of the code that are easy to miss. A successful answer
whose capture failed is remembered as unknown: the merge puts the full reserve in
the place of a cost that was known. And `afterSourceCleanup` merges the events
without adding up `costMicroUsd` again, so that field lags until the next
commitment recomputes it.

### MonidParse: one paid parse

What `CostLedger` has as `Dispatch` and `Capture`: the inspection of the cost contract that
the documents of an adapter share (one that fails stays failed: the adapter keeps the
rejected promise), the POST that starts a run of the provider, its polls up to a limit, the
artifact behind a redirect, and what the worker and the watchdog book, record and remove
afterwards. The provider goes on whatever is lost; `access` says that it may still read the
source.

### StoreUpdate: why an update may be taken for one step

The run modules take `store.update` as one step that reads the row, checks the claim
and writes. `AtomicUpdate` is that step, with a caller that may or may not learn of
it. `StoreUpdate` is what `NeonRunStore` does: `Read` (the SELECT, with the early
returns of the conditional update), `Write` (the updater and the UPDATE on the
version that was read), `Retry` up to `Attempts` rounds, while `ClaimProcessing`,
`Heartbeat`, `Remove` and other calls change the row in between. `StoreRow` holds what
both need: the row, the conditions of the statements and what they make of it.

A writer is one call. It is `Claimed` (made with a worker's lease), `Expiring` (a call
of `updateIfProcessingLeaseExpired`) or neither. A lease id is the fence it was given
with, since both are new together; a deadline is a time on the clock `now`, because
time that elapses is no write. What an updater computes is reduced to how often it was
applied (`times`) and what it does to the lease. The two further conditions of
`claimProcessing` (nothing paid, nothing armed) are left out here, which allows more
claims than the code; `claimAdmission` and the dispatch claims are further
statements of the same form that touch no field these writers check.

### Maintenance: several runs and a bounded pass

`expireDueRuns` over the rows of several runs. `Batches` is `listCleanupCandidates`: at
most `Batch` due runs, the longest unchanged first, equals in any order. A pass keeps
what it listed in `todo` and works it off with `Remove`, `Revoke` and then `Confirm` or
`Keep`, the two writes of `cleanupRun`; `Abort` is the deadline of the invocation, a
failing store or the end of the function. `Heartbeat`, `Publish`, `WorkerFails` and
`Delete` change the same rows meanwhile.

Times are compared only with each other, so `at` holds their order (`Ranked`) and the
passing of a deadline is a flag of the row: `lease`, `aged` (`expiresAt` or
`auditExpiresAt`), `rested` (the cadence of a pending row, or a grace of its retry
dispatch). A pass writes the time it began, so overlapping passes may set `updatedAt`
back. The rows of one owner share the index of active runs (`Held`, `SlotTaken`): a
statement that would make a second one active throws, and the pass ends there. One working status stands for all. `Stuck` runs have an object that cannot be
deleted; the others may keep an object for a while (`Keep` is always possible). A
DELETE is its revocation only, and the paid calls and receipts that `Confirm` looks at
are in `RunProcessing`.

### Heartbeat: when is maintenance alive

Invocations of the route overlap, may run into their deadline with the write of the
heartbeat still on its way (`wire`), and have clocks that differ by up to `Skew`. The row is
what reads of `lib/health/maintenance.ts` find; `completed` is what really happened.

### Attestation: under which receipts money is spent

The two receipts of a deployment, written by a script for a chosen time, replaced or altered
by anyone who can write the row, and the drift of a provider's contract. An analysis step
reads both (`StartStep`), keeps what it found as a capability, and spends it later
(`SpendCapabilities`), where `processRun` asks for the time that remains. `checked` is when the
provider last confirmed what was installed, which no component knows. The script stamps a
receipt a moment after its checks; here the two are one instant, and both receipts have one
greatest age.

### BucketProbe: a bucket of which nothing is known

`probeRailwayS3ReplayFence`, command by command, on a bucket that may or may not honour
preconditions, keep versions, lock objects or replay signed URLs, and whose settings may
change between two commands. The attestation rests on what the probe saw; the model knows
what the bucket is.

### ReleaseCampaign: what a paid campaign may cost

`live-verify.mjs` as invocations that resume a file, book an attempt before they ask for a run,
poll, verify, delete and record. A crash may come between any two steps. `metrics` is
process memory, `file` what a rename has put on disk, `made` the number of invocations started.
`service` has the runs by their idempotency key, with what each really cost, which is what the
wallet lost (`Debit`). What an analysis reports of its costs (`FetchAnalysis`) is independent of
that: it may name more or less. `reconciled` in the file is the result of the last comparison
of the two, made when a case is booked, at the end, and in the handler of a failure, where the
wallet may not answer. `Slips` are the two ways a resumed invocation can fail before it merges
the file.

### RedeliveryProbe: evidence of a step that is delivered again

The script, the deployment it is bound to, the Workflow queue that delivers a step, loses its
process and delivers it again, the step that kills its own process at its first attempt,
and the receipt taken from the logs. An invocation may lose the answer to its start.
Assumed of the queue: a delivery is repeated only after the attempt before it is gone. Evidence
cannot tell the probe's own kill from an instance that was lost otherwise, and the property
does not ask that.

### SubmissionChannel: which channel a package names

Pages are cut into windows with a core and a halo, windows packed into batches, each batch
adjudicated by the model, its answer held against what was asked, and what is left decides.
A statement is a span of a page; what the model says of a window is true to it, but it may
lose, repeat or mix up answers, or call a window uncertain. The expressions that find known
words of channels (`lexicalMentions`) are inputs: `package.words` has any of three sets of words,
those that begin the statements, those that end them, words everywhere, or none.

How many statements a window may tell (`Capacity`) is the number of known words whose own middle
is in its core, at least one and at most `MaxRelations`. A statement whose middle is in one core
may have its word in the next, so that two statements near an edge can be owned by a window
with room for one. The prompt then asks for `uncertain`, more would be refused as
`capacity`, and the package stays unresolved: that is what the code does, and `ChannelIsTrue`
asks for a verdict only where each window has room. A ledger with too many windows or words, or one
that the requests cannot hold (`batchOf` is 0), is unresolved as well.

### Reconciliation: what base and amendments leave standing

`reconcileVersionedFacts` for one group of facts: stages in order, an effect of an amendment
that its own words authorise, conflicts within a stage and across stages. What the expressions
over words decide of a fact (`cited`, `bound`, its effect and its value) is an input.

### Workspace and TokenQueue: the page

`Workspace` is the React state of `rfp-workspace.tsx` with the calls that write it at different
times: uploads, creations and their repetitions, the polls of the run in hand, DELETE, the
agent's tools. `request` and `aborted` are the abort controllers. `TokenQueue` is the promise
chain of `turnstile-provider.tsx`: one widget at a time, a script that may be late or never
load, a visitor who need not answer. It assumes that a site key is configured.

### The MC modules

A run checks several components that share no state side by side: `MCRows`, `MCCleanups`,
`MCProgress`, `MCVerdicts` and, for several instances of one module, `MCRunAdmission` and
`MCProcessing`. A behaviour is a
behaviour of one part (`part`), the variables of the others stay as they are, and the parts
take turns with the variables `s1` to `s11`. Nothing is claimed of an interaction between such
parts; where components interact, one module has both sides. A property of a part holds
trivially in the behaviours of the others. `MCRows` and `MCVerdicts` declare the constants of
their parts and the configuration gives them their values, so that what is proved of a run is
proved for every value its assumption (`RowsAssumption`, `VerdictsAssumption`) admits.

### Fidelity

In the two run modules costs, deadlines, hashes, what a page says and what a
provider answers are left out; every guard, early return, write and its order are kept. An exception inside
an atomic call is either `Throws` or the lost-acknowledgement branch. `RunAdmission` has of a
worker only what bears on admission: its claim of a dispatched run and a fence at its end; the
re-claim of an elapsed lease and the fence after each staging are in `RunProcessing`. A listing and
the first write it leads to (`listCleanupCandidates`, then the revocation) are one
action there; `Maintenance` takes them apart.

## Runs

| Run | Instance | Question |
| --- | --- | --- |
| `admission` | race: 2 requests, 1 maintenance process, no fault; faults: 1 request, 1 maintenance process, 2 faults, no Workflow at all | one start, reservation kept, prepared, withdrawn for good, removed clean; does the run always stop occupying its owner's one slot |
| `processing` | takeover: 1 upload, 2 workers, 2 cleaners; batches: 3 URLs, batches of 2, 1 worker, 1 cleaner; outlived: 1 URL, 2 workers that may outlive their lease, 1 cleaner; 1 fault each | sources: not too early, not too late, not before the model (the first two parts); what the guards alone give: parallel calls watched, a failed batch the last, paid once, one reader, withdrawn for good (all three) |
| `cleanups` | a retry with 3 callers and 3 failed deletions; a claimed run with 2 workers; a grant with 2 purges, a sweep and 2 puts; a parse of 2 documents | is the retry dispatched once; do the retry, the run, the grant and the parse end |
| `progress` | 2 runs of 2 owners, 1 of them stuck, 1 pass, batches of 2; 3 calls for a token; a page with 1 call | does the end that was asked for prevail over stale lists, does every other run get its turn; is every call answered, does the page move on |
| `rows` | 3 kinds of update in 2 rounds; 3 requests; 2 invocations; a grant with 2 purges and 2 sweeps | is an update one guarded step; do repeats agree and limits hold; is the heartbeat true; does an upload serve one run |
| `verdicts` | two ledgers, receipts, bucket, campaign, redelivery, channel, facts, page | is what is decided, attested and shown true |
| `scrub`, `late_stage`, `memory_receipt` | smallest instances | three sentences of the hand-off document that the code does not keep |
| `maintenance_same_owner` | 2 runs of 1 owner, 1 pass | does a pending run end when another one of its owner holds the slot |
| `campaign_forgotten` | 2 cases, 3 invocations, a preflight that may fail after the campaign was resumed | is a case paid for once |
| `campaign_unreconciled` | 2 cases, 3 invocations, 2 of them killed | is a pass held against the wallet for every case |

The bounds. Two of a kind are enough for every race the code names (a lease, a
claim or a CAS is between two), and the properties quantify over pairs at most.
Three documents give a full batch, a rest, and a document of a later batch;
one clock tick per deadline gives every order of two deadlines. `MaxFaults` bounds
losses, refusals and crashes together, workers killed excepted: those are free. One
fault is what a stopped process leaves behind; `admission` takes two, a crash
after a lost acknowledgement (two requests, maintenance and faults at once are beyond the run, and what
`RunAdmissionProofs` covers for its safety), and `RedeliveryProbe` three, since a retry uses them up.

- `rows`. Of the update: one call of each kind, two rounds in place of five (a lost one
  and the last one), times up to 3 (claimed, elapsed, renewed) and two writes by others are
  what it takes to get between any two statements. Of the creation: two requests with one
  key and one of another owner, all of one quota key, one run a day, a cap that one
  reservation fits and two do not, two days. Of the heartbeat: two invocations with 2 time
  units each on a clock to 6, a skew of 1. Of the grant: one use of the URL where two sweeps
  race; `cleanups` has two uses with one sweep.
- `progress`. A batch holds both runs, so a list goes stale while its first run is
  cleaned, and a pass cut off after that first run makes the order of the list matter.
- `verdicts`. In the ledgers the reservation is the sum of all that the plan may cost, so
  an error of one micro-USD anywhere in the arithmetic refuses it; the first one is charged 0 or
  2 for a reserve of 2, the second one 0, 2, 3 or 40, where 3 is within the slack that the infrastructure
  estimate leaves and 40 beyond the reservation, and one output token too many. A receipt is good
  for at most 2 of 3 time units and asked to have 1 left. A campaign has 2 cases for a cap of 2 and a
  budget of 4, 3 invocations, 2 posts for a creation, 2 crashes. A page of 3 units is cut into
  cores of 2 with a halo of 1, so that a statement lies across an edge; a package has at most 2
  statements and one slip; its 4 windows are just as many as `MaxUnits` admits, and known words
  everywhere are 4 in a core, where `MaxRelations` admits 2. At most 3 facts in 2 amendments are enough for a fact that is
  replaced by one that is replaced. The page has two calls, which may race for its state.

Deadlock is checked where the system never stops, in `admission`, since minutes pass. In the
others a part stops when its run has ended, its calls are over or a bound is reached, and the
configurations say so.

Fairness. `.github/workflows/maintenance.yml` calls the maintenance route every
five minutes and `vercel.json` once a day as well, so a pass is eventually taken
and continued: weak fairness of a maintenance caller's next step, of
`Sweep`/`CleanStep` of a cleaner, of `Maintain` of a retry, and strong fairness of `SweepList`,
which an unfinished sweep of the same process may disable for a while. In `Maintenance` a pass
may be cut off at every step,
so strong fairness is needed of three things: of all passes some get to list, some get
to their first run, and for each run that can be confirmed some get from its first
write to its second. A pass has 45 seconds, a deletion takes a fraction of one. Clocks advance
(`Tick`, `Expire`, `BecomeDue`, `LeaseOfDead`); a body in flight lands or breaks off. The platform
ends a function at 300 seconds: weak fairness of `Killed`. A parse goes on as long as its worker
does: `Worker(d)`, while nothing is assumed of the provider. The page runs its timers and
continuations and a request is answered or fails (`Watching`, `CallSteps`), the browser runs
the timers and animation frames of a challenge (`Browser`; those of a hidden tab rest until it is
shown), and neither the script nor the visitor need do anything.
Nothing is assumed of a request, a DELETE,
the analysis, the watchdog or a retry, all of which may stop for good.

### What the failing runs show

- `scrub`: a watchdog poll deletes its sources and records them with an update that
  carries no lease. If an expiry scrubs the row in between, the poll puts receipts
  that name the blob path back into the expired row.
- `late_stage`: fetching a URL may take four hops of 20 seconds, a lease 45 seconds
  without a heartbeat. A worker past its lease stages the document after the run
  was expired and confirmed, and if it is then killed nobody looks there again.
- `memory_receipt`: a run is deleted while its worker waits for the parser. From then on every
  heartbeat is refused, but nothing ends the wait. Once 45 seconds are over, cleanup writes
  of the page texts the worker still holds that they are "no longer retained", and the hand-off
  document that such receipts are written "only after worker quiescence".
- `maintenance_same_owner`: `runs_owner_active_unique` counts a run in `cleanup_pending` as
  its owner's active one. An owner whose result has reached its end may have started another
  run; the statement with which a pass withdraws the first is then refused. `expireDueRuns`
  catches nothing for a single run, so the pass ends; the row keeps the oldest `updatedAt`
  and the next pass stops at the same place, before it reaches the run whose cleanup is
  pending. The in-memory store has no such index, so no test of the repository meets it.
- `campaign_forgotten`: `main` of `live-verify.mjs` sets its metrics afresh, then runs the
  preflight, then merges the file. If the preflight of a resumed invocation fails, the handler
  writes the fresh metrics over the file, the paid attempts are gone from it, and the next
  invocation pays for the same cases again.
- `campaign_unreconciled`: the comparison with the wallet that is made when the last case is
  booked, before it is paid for, stays in the file when the case is recorded. If the
  invocation is killed then, or the final read of the wallet fails and so does that of the
  handler, the next one finds every case complete and `reconciled`, and writes "pass" without
  reading the wallet. `PassesAreCompared` is what remains true: all cases but one were compared.

`late_stage` needs a worker that outlives its lease outside a paid call (`Zombies`);
`memory_receipt` does not. One more needs it:
the staging path is the same for a worker and its successor, and the first
one's catch clause deletes without a lease, so that it may take the object away from
under the successor's paid call. The `outlived` part of `processing` violates
`DownloadsAreStaged` so, which is why it is exempt from the three properties of the sources.

Things the modules allow that no sentence of the repository decides, and which are not
findings:

- A run is listed by maintenance because its lease has elapsed, and before the pass gets to it
  its worker's heartbeat comes back, or it publishes. `expireRun` withdraws it without looking,
  where the watchdog would use the conditional update.
- A repeated upload presigns again under the key of the request it repeats: the documents then
  differ, and the service answers 409 (`Workspace`, the calls whose documents are uploads).
- The answer to a DELETE that arrives late resets the page to its inputs, whatever it shows by
  then; a sample that is cancelled while it loads leaves the page in `starting`.
- A standing fact without a number or date keeps two others that differ from being reported as
  a scalar conflict at the end of their group (`Reconciliation`, `ScalarValuesConflict`);
  `FactsAreReconciled` asks for the report only where every standing fact has one.
- Two statements at the edge of two cores can leave a package unresolved for want of room, where
  the same two in mid-core do not (`SubmissionChannel`, `Crowded`).
- A request that stalls just before `budget.reserve` reserves after its run was failed and settled
  at zero: the amount counts in the day's cap until the row is deleted, which withholds runs and
  spends nothing.
- The evidence of the redelivery probe says `first_attempt_hard_killed`, which it infers: an
  attempt whose instance was lost leaves the same events.

## Proofs

`RunAdmissionProofs` proves, for every set of callers, all clock constants and any
number of faults, that every property of the `admission` run but `SlotIsFreed` holds:
`TypeCorrect`, `StartedOnce`, `ReservationKept`, `Prepared`, `WithdrawalFinal`,
`RemovalClean`. They rest on the assumptions declared in `RunAdmission`
(`CallersAssumption`, `TicksAssumption`) only.

None of the properties is inductive: that one Workflow is started depends on who
may be about to start it. `IInv` adds four parts to the types.

- `StartInv`: at most one caller is at `start`, only while nothing was started, and
  a queued row with a contact made carries the claim.
- `PreflightInv`: what the holder of the admission lease has prepared by each step.
- `CleanupInv`: a caller in cleanup has withdrawn the run, and one that will give
  the reservation back knows that it was never dispatched.
- `RowInv`: what status, claim, grant, ceiling and reservation say of each other.

`InitInv` and `NextInv` show it inductive, with one step per action; the theorems
follow from it by PTL.

`RunProcessingProofs` proves about `RunProcessing`, in which two rows of actors write one row, for
every number of documents, uploads, batches, workers, cleaners and faults, from
`ProcessingAssumption` alone. It has three parts.

- One lemma per action says what the action requires, changes and leaves alone
  (`ClaimEffect`, ...), and `Steps` that these are all. The proofs after it cite effects
  and never expand an action. The part ends in `TypesCorrect`.
- What holds whatever workers outlive their lease: `PaidOnce`, `FailureStops`, `OneReader` and
  `WithdrawnIsFinal`.
- What becomes of the sources, in theorems of the form `Spec => [](~Zombies => P)`, with the `P` that
  `processing` checks outside its `outlived` part (`SourceOutlivesFetch`, `EndedRunHasNoSource`,
  `ModelNeverSeesSource`): `FetchFindsItsSource`, `EndIsClean` and `ModelSeesTextOnly`.

The first argument is that arming seals a run. `claimProcessing` refuses a row with an armed
watchdog, so a worker that has armed one is the last to hold the lease. `IInv` says so in
parts.

- `SealInv`: of the workers that have armed something there is at most one, and nobody else
  holds the lease; one that holds the lease and has armed nothing is in an unsealed run.
- `BatchInv`, `WatchInv`, `CallInv`: where a worker is in its batches says which documents
  are armed, scheduled and paid for, at most once each; a document paid for is watched, and
  a batch in which one failed has none of a later batch paid for.
- `LeaseInv`: who holds the lease has claimed the run, and while it works the status is one
  of a leased run; a run that is shown has no lease.
- `ReaderInv`: a worker holds its own texts only; until the run is withdrawn only a worker
  that has begun to parse receipts its memory; a release gate once open stays open.

The second argument needs `~Zombies`, that a lease elapses only when its worker has stopped
or is in a paid call, and the hypothesis is not for convenience: the `late_stage` run violates
the property of `EndIsClean` without it. `SInv` adds three parts to `IInv`.

- `AloneInv`: a worker that loads has a live lease. One that goes on after its lease elapsed was
  in a paid call, and had armed a watchdog for it: the run is sealed, so nobody else can claim
  it. Two workers never run at once, and when something is armed none is still loading.
- `SourceInv`: what is receipted is gone. Workers and cleaners collect receipts before they
  write them (`HandsOK`, `SetOK`), a cleaner confirms a staging object only when the worker
  is quiet (`quiescenceReached`), and at the statuses of an end nothing is left (`EndOK`).
- `FetchInv`: the parser only reads what is staged, paid for and openly signed; who is about
  to delete a staging object aims at a document that is *settled*: nobody reads it, and
  nobody who could start to read it is left.

Each part of `SInv` leans on others: that nothing is deleted under a download needs that the
worker is alone, that a receipt is true needs that nobody stages again. TLC checked all
clauses of both invariants on the instances of `processing` before
they were proved.

`CostLedgerProofs` proves `RowCovers`: for any number of documents and batches, any
batch size, all prices, reserves, floors and token limits and any number of faults,
the row covers what was charged (`RowCoversSpend`), from `LedgerAssumption` alone.
The invariant is `LInv`.

- `Covered` is the property without its hypothesis.
- `ParseInv`: the worker's memory covers each parser call as well, so that neither a
  merge nor the release gate can lower a charge; a document about to be dispatched
  is committed for the whole reserve, in the row and in memory.
- `ModelInv`: memory holds nothing of a model batch until the row was read back; a
  batch is charged only once started, and when it is about to be called the row
  holds exactly its maximum.
- `Shape`: as much of the types as these need. The sums are not among them.

`EveryStep` combines one lemma per action; the arithmetic is in `PriceIsMonotone`:
an answer within the cap costs no more than the cap.

The same module proves four theorems about sums of attempts. `MapThenSumSet` is defined by
recursion over a finite set, and the library states induction with an operator parameter no
installed prover can instantiate. The module therefore states its own with a set in place of
the operator (`CountUp`, and `SetInduction`: a set that holds `s` whenever it holds every
`s \ {x}` holds all subsets of a finite set) and derives what the steps need: a sum exists,
is a natural number, is monotone, loses or replaces one term (`SumExists`, `SumIsNatural`,
`SumIsMonotone`, `SumOfRest`, `SumReplaces`), and sums of parser calls are a multiple of the
reserve (`CallsSum`).

`BudgetCovers` and `PlanIsKept` add `AInv` to `LInv`. Its idea is a *ceiling* of the row's
events: each parser call counts for its whole reserve, made or not, and each batch for what
its event says. No step of a parser call moves it, so the parallel calls, whatever they cost
and in whatever order they are captured, drop out of the argument.

- `PlanInv`: the plan fits, or the worker stopped at `Plan` and nothing was charged.
- `EventInv`: no event of a parser call says more than the reserve, in the row or in memory,
  and memory holds of a batch nothing or what the row says.
- `QueueInv`: a batch to come has no event, and the output tokens left cover the floors of
  all the batches to come.
- `CeilingInv`: the ceiling, with the current batch priced together with all later ones for
  the tokens left, is within the plan. A single batch is rounded up by itself, the estimate of
  several rounds once and adds one micro-USD for each further batch; `MultiPriceStep`
  (a batch and the estimate of the rest cost no more than the estimate of all) is why that is enough.
- `SettleInv`: what is due covers what was spent and is within the reservation, what is
  settled covers it too, and nothing was refused.

`ReleaseIsPaid` has no hypothesis on the providers: whatever they charge, a result is shown
only past a settlement of all of it. Its invariant `RInv` follows the charges to the gate:
a document that counts as parsed is remembered with at least its charge (`ParsedInv`), the
batches before the current one have succeeded in the row (`BatchesInv`), and `verify`,
`settle` and `publish` hand on a ledger in which every attempt is (`GateInv`), which also
says why the catch clause cannot touch a released row: its lease is gone.

`SpendIsBounded` says how far an overcharge gets before the ledger stops the run
(`ExposureIsBounded`). It assumes that `ParseCharges` is finite, without which there is no
highest charge to state a bound with. Its invariant `XInv`, added to `RInv`, has these parts.

- `WindowInv`: while documents are parsed, no call outside the current batch was charged more
  than the row says. The row *trimmed* to the reserve for the calls of that batch is within the
  reservation, or none of them was committed yet: the check before a commitment sees the
  overcharges of earlier batches in full. The trimmed row and not the row, since a capture
  writes an overcharge without a check. `SpentInWindow` turns this into the bound: what was
  spent exceeds the trimmed row by the excess of one batch of calls.
- `ChargeInv`: when a model batch is called, the row covers every other attempt, holds the
  batch's maximum and is within the reservation, so that only its excess tokens come on top
  (`CallCharges`, `PriceOfExcess`).
- `SpentInv`: the bound itself, which only those two kinds of call can approach.

`ProgressProofs` proves the safety of what the runs `cleanups` and `progress` check to go on, one
component after the other and for every value of its constants.

- Of `CleanupRetry`: the retry is asked for once (`RetriedOnce`), what the row says of it is true
  (`ToldTruly`), one that nobody started is found by maintenance (`NeverStranded`), and
  `CleanupRetry` implements `OneDispatch` (`Implements`). That one retry is sent depends on who
  may be about to send it. The invariant: `HolderInv` (one caller at most is past the claim, the
  one the row names, or the row was scrubbed), `PlaceInv` (a caller about to ask means that
  nothing was asked yet, one about to record an answer means that it is true), `OnceInv` (one
  retry is on its way or started) and `RowInv` (what the columns of the claim say of each other).
- Of `MonidParse`: `ParsesAreSafe`. Per document, what each place in the worker knows of the
  provider (`PlaceIsTrue`), that the whole reserve is booked from before the POST until the end
  of the run is known (`BookIsTrue`), and that a source which is gone was never asked for, or
  its run is over, or its URL (`SourceIsFree`). A POST still on its way counts as a call that
  may be charged. `ContractInv` ties every paid call to the one check.
- Of `Maintenance`: `ExpiryPrevails`, the action property `ExpiryWins`. A pass acts on a list that
  may be stale, so `PassInv` says what cannot have changed since: a run listed as expired is
  expired or removed, and an end is asked for only while a cleanup is pending.
- Of `TokenQueue`: `ChallengesTakeTurns`. No call is twice in the chain (`ChainInv`), and only the one
  whose turn it is gets beyond its place there, with the widget and the name shown (`TurnInv`).

`UploadGrantProofs` proves `GrantTypes`, `GrantSafe` and `HolderOnly` for any runs, purges,
sweeps and uses of the URL. The difficulty is that everyone acts on what he has read: a purge
that saw bytes writes its fence conditionally, a sweep that took its lease removes an object
it saw before. The parts of the invariant: a claim is never given back and who purges holds it
(`ClaimInv`, `PurgeInv`); no sweep works before the grant is due (`UndueInv`), and by then no
body is on its way (`DueInv`), so that what a sweep removes does not come back; the row goes after
the bytes (`GoneInv`); a fence is recorded only when it is there, and stays while the URL is good
(`FenceInv`); and nothing was read under a grant that declared other bytes (`ReadIsDeclared`).

`RunCreationProofs` proves `CreationTypes`, `CreationKeepsLimits` and `CreationAgrees` for any
requests, owners, keys, prices, caps, quotas and days. Sums over the runs of a day are stepped
with the module's own induction over finite sets, as in `CostLedgerProofs`. The parts: what
status, work and reservation of a run say of each other (`RowInv`); that what a request has
read of a run is still so when it acts on it (`CallerInv`); one run for a key (`KeyInv`); that
a run works only under a reservation that is not settled below what it spends (`MoneyInv`); and over each day the cap
and the quota (`CapInv`, `QuotaInv`). `CapInv` counts of each run what it *holds*: its price until
it is settled, and what was spent after. A release or a settlement only lowers that, wherever
it falls between the weighing and the answer of somebody else's reservation.

`MCRowsProofs` proves the properties of the `rows` run. Each behaviour of the run is, variable
by variable, one of a part, which carries what was proved of the part over to the run
(`RowsLoseOnlyToOthers`, `RowsRepeatsAgree`, `RowsLimitsHold`, `RowsGrantIsKept`). What has no
module of its own is proved here.

- Of `StoreUpdate`: `TypeCorrect`, `Reported`, `Rounds` and `Implements`, that the loop refines
  `AtomicUpdate`, for any set of writers, any number of rounds and any bounds. The refinement
  maps `Read` to a stutter, a refusal or a failure, and the `Write` that takes effect to the
  step itself. A copy of the current version is the row, which is what makes the version
  enough of a condition (`CopyInv`); no call holds a lease that has yet to be given, so that a
  claim which fails now never becomes good again (`FenceInv`); rounds lost are bounded by
  writes of others (`RoundsInv`, `CountInv`); what a call reports is what it did
  (`AppliedAsReported`).
- Of `Heartbeat`: `RowsHeartbeatIsTrue`. By `BeatInv` every time that is stored or on its way is
  that of a completed pass, true to within `Skew`. This is what the check of the route adds
  to the age it allows.

`MCVerdictsProofs` proves the properties of the `verdicts` run, one theorem for each.

- `OverchargesAreCaught`: `ReleaseIsPaid` and `SpendIsBounded` for the ledger in which providers
  charge and report more than they should, whatever they charge as long as there is a highest
  charge.
- `ContractsWereChecked`: for all lifetimes, skews and deadlines and whatever is altered or
  drifts, a worker pays only while the contract of its deployment was confirmed no longer ago
  than a receipt may be old. A worker looks at no clock but its own, so `ReceiptInv` follows the
  time through the receipt (`ReceiptIsFresh`: one that names the installed contract was written
  after a check and expires no later than the bound from it), the capability made of it
  (`CapabilityIsFresh`), and the deadline that was shorter than what remained (`StopsInTime`);
  `CheckedBefore` says that the check is not in the future.
- `AttestedBucketsAreClean`: `BucketInv` says at each command of the probe what the bucket
  must still hold (`ObjectInPlace`), that a replay refused to the probe would be refused to
  anyone (`RefusalsAreReal`), and that when the token is issued its object is gone for good
  (`TokenIsFinal`).
- `CampaignsAreHonest`: `CampaignInv` says when the memory of an invocation is the file, or the
  file but for the one case it failed to book (`MemoryIsKept`); of each case, that its run is on
  record before it is paid, that there is one, that the file books no less than it cost unless a
  ledger that calls itself complete says less (`Understated`), and that a completed one was
  deleted (`CaseIsKept`); and what the case in hand has reached (`CaseInHand`). That the budget
  holds is a sum: the debit is what the cases cost, term by term.
- `CampaignsAreCompared`: `WalletInv` follows the flag of the comparison. While a case is in hand
  the wallet agrees with the reports apart from that case (`Agrees`), and the next comparison
  comes before the next case is paid for, so that of a passed file one case at most was not
  compared (`Agreement`). Both theorems assume `CampaignSlips = {}`, and the hypothesis is not for convenience: with
  an outage of the preflight the code violates the first (`campaign_forgotten`).
- `ProbesAreTrue`: `ProbeInv` binds the script, each run and each piece of evidence to one
  Preview deployment (`ScriptIsBound`, `RunsAreBound`, `EvidenceIsKept`, `HitsAreBound`); of each
  run every attempt but the one in hand has ended, so that a completed one died before it
  completed, or not, as its list of ends says.
- `ChannelsAreTrue`: first about windows: each statement of at most `MaxQuote` has a window
  that owns it and shows it whole, from `MaxQuote <= 2 * Halo`,
  which the code's 500 and 250 meet exactly. Then `ChannelInv`: an answered batch keeps for each of its statements what the
  model said, or an answer that does not match what was asked (`AnswersAreKept`); where nothing
  is missing the relations on record are the statements of the package, and nothing is missing
  where ledger and answers are in order, every window has room and no span says two things
  (`RecordsAreTrue`); a verdict that is not "unresolved" is that of the whole package, and a
  unique one names the only channel it names (`VerdictIsTrue`).
- `FactsAreSettled`: after each stage the facts still active or conflicted are those that no
  later stage taken so far acts on (`StagesTaken`, by `Standing`), a conflict is of facts that
  stand, and a fact is in conflict only if one was found.
- `PagesAreSound`: what is fetched or shown is of a run that is clean (`ShownIsClean`); a page that
  polls has a run and the request that made it, and no other request it would still hear
  (`RequestInHand`); a key is used from the first POST on, for the pack as it was then
  (`KeyedIsOnePack`).

The type invariants are parts of the inductive invariants and are proved rather than run; that
of `Maintenance` is a definition which a configuration of the module's own may check.

Every safety invariant and every action property that a passing run checks is a theorem, and so
is the safety part of those properties that are stated with liveness (`GrantEnds`, `RetryEnds`,
`ParseIsKept`, `EveryCallIsAnswered`). Model-checked only: liveness, of all components, for which
this prover has no rules.

## Plan

1. `RunPromise`: what an owner is promised (pending, result, gone; never back),
   implemented by `RunProcessing`.
2. The packing of evidence into model batches (`openai.ts`) and the merge of their drafts.

## Not modelled

The list with reasons is in `PROJECT.json` under `components`. In short: authentication, API
schemas and audit views change no run. Fixtures and operator scripts are data and tooling. The
materialisation of a draft and the authority of records are long sequential functions over
text, whose decisions lie in regular expressions and wording; of the analysis only the parts
whose decisions do not (windows, batches, verdict, reconciliation) are modelled. The in-memory
store is for tests and development. The probes of the database and its capacity, the quota of
presigned URLs and the local upload adapter are left out.
