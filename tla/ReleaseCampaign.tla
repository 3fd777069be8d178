--------------------------- MODULE ReleaseCampaign ---------------------------
(***************************************************************************)
(* The paid release campaign of scripts/live-verify.mjs.  An invocation    *)
(* resumes the evidence file of its campaign, books an attempt for a case  *)
(* in the file before it asks the production service for a run, drives the *)
(* run, deletes it and records what it cost.  It may be killed anywhere    *)
(* and started again; what stops a second paid attempt is the file alone.  *)
(*                                                                         *)
(* Money is counted in units, the file is one atomic write (a rename), and *)
(* the service admits one run for each idempotency key.                    *)
(***************************************************************************)
EXTENDS Integers, Sequences, FiniteSets, FiniteSetsExt

CONSTANTS
  Cases,          \* the runs of the campaign
  Order,          \* the order in which an invocation takes them
  Signed,         \* the cases whose document is uploaded for each invocation
  Cap,            \* declaredPerRunCapMicroUsd
  Budget,         \* totalBudgetMicroUsd
  MaxInvocations, \* bound: how often the operator starts the script
  MaxPosts,       \* bound: the POSTs of one creation, five in the script
  MaxCrashes,     \* bound: invocations that are killed
  Slips           \* what may go wrong between the start of a resumed
                  \* invocation and the merge of the file

CampaignAssumption ==
  /\ Order \in Seq(Cases) \ {<<>>} /\ Cases = {Order[i] : i \in DOMAIN Order}
  /\ Signed \subseteq Cases /\ Slips \subseteq {"outage", "mismatch"}
  /\ Cap \in Nat \ {0} /\ Budget \in Nat /\ Cap <= Budget
  /\ {MaxInvocations, MaxPosts, MaxCrashes} \subseteq Nat

VARIABLES
  pc,       \* where the invocation is; "idle" when none runs
  metrics,  \* the evidence in its memory
  file,     \* the evidence file
  made,     \* invocations started
  crashes,  \* invocations killed
  gate,     \* the paid gate of this invocation: RFP_XRAY_ALLOW_PAID_LIVE
  case,     \* the case in hand
  posts,    \* POSTs made for it
  known,    \* whether an answer named its run
  found,    \* what the attempt found so far
  service   \* the runs the service holds, by idempotency key

vars == <<pc, metrics, file, made, crashes, gate, case, posts, known, found, service>>

NoRun == [status |-> "none", cost |-> 0]

\* The key is a digest of the case and of the request's body, and the body of an
\* uploaded document names the object of this invocation.
Keys == Cases \X (0 .. MaxInvocations)
Key == <<case, IF case \in Signed THEN made ELSE 0>>

\* An attempt as the file knows it. Without the ledger of a validated analysis
\* the whole cap is booked, and no Monid spend is reported.
Attempt == [made |-> TRUE, passed |-> FALSE, complete |-> FALSE, removed |-> FALSE,
            cost |-> Cap, reported |-> 0]
NoAttempt == [Attempt EXCEPT !.made = FALSE, !.cost = 0]

Unread == -1 \* the wallet before the campaign, when nobody has read it
Fresh == [runs |-> [c \in Cases |-> NoAttempt], before |-> Unread, reconciled |-> FALSE,
          verdict |-> "incomplete"]
NoFile == [Fresh EXCEPT !.verdict = "absent"]

Spent(m) == MapThenSumSet(LAMBDA c : m.runs[c].cost, Cases)
Reported(m) == MapThenSumSet(LAMBDA c : m.runs[c].reported, Cases)

\* What the provider has debited since the campaign's wallet was first read: all
\* of it, nobody else spends from that wallet.
Debit == MapThenSumSet(LAMBDA k : service[k].cost, Keys)

Reconciled(m) ==
  m.before # Unread /\ Debit - m.before = Reported(m)
Completed(r) == r.passed /\ r.removed /\ r.complete
\* Mutant: a pass is written without a look at the wallet.
Passed_Unreconciled(m) == (\A c \in Cases : Completed(m.runs[c])) /\ Spent(m) <= Budget

Passed(m) ==
  (\A c \in Cases : Completed(m.runs[c])) /\ m.reconciled /\ Spent(m) <= Budget

Init ==
  /\ pc = "idle" /\ metrics = Fresh /\ file = NoFile
  /\ made = 0 /\ crashes = 0 /\ gate = FALSE
  /\ case = Order[1] /\ posts = 0 /\ known = FALSE /\ found = Attempt
  /\ service = [k \in Keys |-> NoRun]

Goto(label) == pc' = label
Write(m) == metrics' = m /\ file' = m
Local == UNCHANGED <<made, crashes, gate, case, posts, known, found, service>>
OneCase == UNCHANGED <<made, crashes, gate, case>>

(***************************************************************************)
(* Before the first case.                                                  *)
(***************************************************************************)
Start ==
  /\ pc = "idle" /\ made < MaxInvocations
  /\ made' = made + 1 /\ gate' \in BOOLEAN
  /\ metrics' = Fresh /\ Goto("preflight")
  /\ UNCHANGED <<file, crashes, case, posts, known, found, service>>

Preflight ==
  /\ pc = "preflight"
  /\ \/ Goto("merge")
     \/ (file = NoFile \/ "outage" \in Slips) /\ Goto("failing")
  /\ UNCHANGED <<metrics, file>> /\ Local

\* The file's wallet and attempts are taken over; a file of other limits or of
\* another candidate is refused.
Resumed == IF file = NoFile THEN metrics
           ELSE [metrics EXCEPT !.runs = file.runs, !.before = file.before,
                                !.reconciled = file.reconciled]
Merge ==
  /\ pc = "merge"
  /\ \/ metrics' = Resumed /\ Goto("gate")
     \/ /\ file # NoFile /\ "mismatch" \in Slips
        /\ Goto("failing") /\ UNCHANGED metrics
  /\ UNCHANGED file /\ Local

AlreadyComplete ==
  /\ pc = "gate" /\ Passed(metrics)
  /\ Write([metrics EXCEPT !.verdict = "pass"]) /\ Goto("idle") /\ Local

GateClosed ==
  /\ pc = "gate" /\ ~Passed(metrics) /\ ~gate
  /\ Write([metrics EXCEPT !.verdict = "paid_gate_closed"]) /\ Goto("idle") /\ Local

Baseline ==
  /\ pc = "gate" /\ ~Passed(metrics) /\ gate
  /\ IF metrics.before # Unread
     THEN Goto("cases") /\ UNCHANGED <<metrics, file>>
     ELSE \/ /\ \A c \in Cases : ~metrics.runs[c].made
             /\ Write([metrics EXCEPT !.before = Debit]) /\ Goto("cases")
          \/ Goto("failing") /\ UNCHANGED <<metrics, file>>
  /\ Local

(***************************************************************************)
(* One case after the other.                                               *)
(***************************************************************************)
Open == {i \in DOMAIN Order : ~Completed(metrics.runs[Order[i]])}
Upcoming == Order[Min(Open)]
\* Mutant: an attempt that failed may be made again.
Affordable_AnyAttempt(c) == ~metrics.runs[c].passed /\ Spent(metrics) + Cap <= Budget

Affordable(c) == ~metrics.runs[c].made /\ Spent(metrics) + Cap <= Budget

\* The attempt is in the file before anything is asked of the service.
Book ==
  /\ pc = "cases" /\ Open # {} /\ Affordable(Upcoming)
  /\ case' = Upcoming /\ posts' = 0 /\ known' = FALSE /\ found' = Attempt
  /\ LET m == [metrics EXCEPT !.runs[Upcoming] = Attempt]
     IN  \/ Write([m EXCEPT !.reconciled = Reconciled(m)]) /\ Goto("create")
         \/ metrics' = m /\ Goto("failing") /\ UNCHANGED file
  /\ UNCHANGED <<made, crashes, gate, service>>

Refuse ==
  /\ pc = "cases" /\ Open # {} /\ ~Affordable(Upcoming)
  /\ Goto("failing") /\ UNCHANGED <<metrics, file>> /\ Local

\* The service starts one run for a key, and may spend up to its own limit, which
\* the preflight found to be at most Cap.
Admit(reached) ==
  IF reached /\ service[Key] = NoRun
  THEN \E cost \in 1 .. Cap :
         service' = [service EXCEPT ![Key] = [status |-> "running", cost |-> cost]]
  ELSE UNCHANGED service

\* A POST may be lost on its way there or back, and is sent again with the same
\* key. An answer whose other fields are malformed still names the run.
Post ==
  /\ pc = "create" /\ posts < MaxPosts
  /\ \E reached \in BOOLEAN, answer \in {"lost", "valid", "malformed"} :
       /\ (answer # "lost") => reached
       /\ Admit(reached)
       /\ posts' = posts + 1 /\ known' = (answer # "lost")
       /\ Goto(CASE answer = "valid" -> "poll"
                 [] answer = "malformed" \/ posts' = MaxPosts -> "cleanup"
                 [] OTHER -> "create")
  /\ UNCHANGED <<metrics, file, found>> /\ OneCase

\* The upload fails, or an interrupt stops the creation; only a POST whose answer
\* was lost is repeated, so no run is known.
NotCreated ==
  /\ pc = "create"
  /\ Goto("cleanup") /\ UNCHANGED <<metrics, file>> /\ Local

Poll ==
  /\ pc = "poll"
  /\ \/ service[Key].status = "ready" /\ Goto("checks")
     \/ Goto("cleanup") \* another terminal status, a lost answer, the timeout
  /\ UNCHANGED <<metrics, file>> /\ Local

\* The ledger of an analysis counts once its envelope is valid, whatever is wrong
\* with the rest of it. It may be a partial one, and either kind is the service's
\* own account: it may name more or less than the wallet lost.
FetchAnalysis ==
  /\ pc = "checks"
  /\ \/ Goto("cleanup") /\ UNCHANGED found
     \/ \E complete \in BOOLEAN, reported \in 0 .. Cap :
          /\ found' = [found EXCEPT !.complete = complete, !.reported = reported,
                                    !.cost = IF complete THEN reported ELSE Cap]
          /\ Goto("sources")
  /\ UNCHANGED <<metrics, file, posts, known, service>> /\ OneCase

Gate(check, next) ==
  /\ pc = check
  /\ Goto(next) \/ Goto("cleanup")
  /\ UNCHANGED <<metrics, file>> /\ Local

\* Every citation is looked for in the pages of the local fixtures.
VerifySources == Gate("sources", "golden")

\* What the package is known to say is compared with what the analysis says.
VerifyGolden == Gate("golden", "question")

\* One question, answered with citations that are found in the same pages.
VerifyQuestion ==
  /\ pc = "question" /\ Goto("cleanup")
  /\ found' \in {found, [found EXCEPT !.passed = TRUE]}
  /\ UNCHANGED <<metrics, file, posts, known, service>> /\ OneCase

\* Mutant: a deletion that nobody confirmed is recorded as done.
Cleanup_AnyAnswer ==
  /\ pc = "cleanup" /\ Goto("record")
  /\ found' = [found EXCEPT !.removed = TRUE]
  /\ service' \in {service, [service EXCEPT ![Key].status = IF known THEN "deleted" ELSE @]}
  /\ UNCHANGED <<metrics, file, posts, known>> /\ OneCase

\* DELETE is repeated until it is confirmed or its time is up; a failure to
\* confirm fails the attempt, whether or not the service deleted the run.
Cleanup ==
  /\ pc = "cleanup" /\ Goto("record")
  /\ \/ /\ known
        /\ service' = [service EXCEPT ![Key].status = "deleted"]
        /\ found' = [found EXCEPT !.removed = TRUE]
     \/ /\ known
        /\ service' \in {service, [service EXCEPT ![Key].status = "deleted"]}
        /\ found' = [found EXCEPT !.passed = FALSE]
     \/ /\ ~known
        /\ UNCHANGED service /\ found' = [found EXCEPT !.removed = TRUE]
  /\ UNCHANGED <<metrics, file, posts, known>> /\ OneCase

Record ==
  /\ pc = "record"
  /\ Write([metrics EXCEPT !.runs[case] = found])
  /\ Goto(IF Completed(found) THEN "cases" ELSE "failing") /\ Local

\* An interrupt is looked at before each case.
Interrupted ==
  /\ pc = "cases" /\ Open # {}
  /\ Goto("failing") /\ UNCHANGED <<metrics, file>> /\ Local

\* No case is open. The wallet is read again, which may fail, and compared.
Finish ==
  /\ pc = "cases" /\ Open = {}
  /\ LET m == [metrics EXCEPT !.reconciled = Reconciled(metrics)]
     IN  \/ /\ Passed(m)
            /\ Write([m EXCEPT !.verdict = "pass"]) /\ Goto("idle")
         \/ /\ ~Passed(m)
            /\ metrics' = m /\ Goto("failing") /\ UNCHANGED file
         \/ Goto("failing") /\ UNCHANGED <<metrics, file>>
  /\ Local

\* The handler of every failure writes whatever evidence it has in memory; the
\* wallet is read once more when there is a baseline, and when that read fails
\* too, what the last comparison said stays.
Failing ==
  /\ pc = "failing" /\ Goto("idle")
  /\ \E reconciled \in {metrics.reconciled, Reconciled(metrics)} :
       Write([metrics EXCEPT !.verdict = "fail", !.reconciled = reconciled])
  /\ Local

(***************************************************************************)
(* The service, and the kill.                                              *)
(***************************************************************************)
RunEnds ==
  \E k \in Keys, status \in {"ready", "failed"} :
    /\ service[k].status = "running"
    /\ service' = [service EXCEPT ![k].status = status]
    /\ UNCHANGED <<pc, metrics, file, made, crashes, gate, case, posts, known, found>>

Killed ==
  /\ pc # "idle" /\ crashes < MaxCrashes
  /\ crashes' = crashes + 1 /\ Goto("idle")
  /\ UNCHANGED <<metrics, file, made, gate, case, posts, known, found, service>>

Invocation ==
  \/ Start \/ Preflight \/ Merge \/ AlreadyComplete \/ GateClosed \/ Baseline
  \/ Book \/ Refuse \/ Interrupted \/ Post \/ NotCreated \/ Poll \/ FetchAnalysis \/ VerifySources
  \/ VerifyGolden \/ VerifyQuestion \/ Cleanup \/ Record \/ Finish \/ Failing

Next == Invocation \/ RunEnds \/ Killed
Spec == Init /\ [][Next]_vars

(***************************************************************************)
(* What a campaign promises.                                               *)
(***************************************************************************)
RunsOf(c) == {k \in Keys : k[1] = c /\ service[k] # NoRun}

\* The ledgers the campaign takes for complete that say less than the run cost.
Understated ==
  {c \in Cases : \E k \in RunsOf(c) : /\ file.runs[c].complete
                                      /\ file.runs[c].cost < service[k].cost}

\* However often the script is killed and started again, a case is paid for at
\* most once and the file has an attempt on record for every run the service was
\* made to start. As long as no ledger that calls itself complete says less than
\* its run cost, the money spent stays within the campaign's budget, whatever
\* else was lost, partial or never recorded.
PaidOnce ==
  /\ \A c \in Cases : Cardinality(RunsOf(c)) <= 1
  /\ \A c \in Cases : RunsOf(c) # {} => file.runs[c].made
  /\ (Understated = {}) => Debit <= Budget

\* A file that says "pass" stands for one run of every case, each of them
\* deleted from the service.
PassIsEarned ==
  (file.verdict = "pass") =>
     \A c \in Cases : \E k \in Keys : RunsOf(c) = {k} /\ service[k].status = "deleted"

\* A file that says "pass" was held against the wallet: what the wallet lost is
\* what the runs report, of all of them or of all but one.
PassIsCompared ==
  (file.verdict = "pass") =>
     \/ Debit = Reported(file)
     \/ \E c \in Cases : \E k \in RunsOf(c) :
          Debit - service[k].cost = Reported(file) - file.runs[c].reported

\* "Default live aggregation still requires the two accepted production runs'
\* validated Q&A/citations, signed ingress, cleanup, complete cost accounting,
\* wallet reconciliation, and budget compliance"
\* (docs/specs/MH-001-rfp-xray/handoff-backend.md): a file that says "pass"
\* reports what the wallet lost.
PassIsReconciled == (file.verdict = "pass") => Debit = Reported(file)
=============================================================================
