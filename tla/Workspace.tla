------------------------------ MODULE Workspace ------------------------------
(***************************************************************************)
(* The page (RfpWorkspaceContent in src/components/rfp-workspace.tsx): one *)
(* set of React state that calls which started at different times write,   *)
(* the polls of the run in hand, and the user and the agent's tools that   *)
(* leave each of them.  The service is what the page can see of it.        *)
(***************************************************************************)
EXTENDS Integers, FiniteSets

CONSTANTS
  MaxCalls,   \* bound: calls of startAnalysis and loadSample
  MaxEdits,   \* bound: changes of the reviewed pack
  MaxFaults   \* bound: requests that fail, are refused or lose their answer

WorkspaceAssumption == MaxCalls \in Nat \ {0} /\ MaxEdits \in Nat /\ MaxFaults \in Nat

Calls == 1..MaxCalls
None == 0
Linked == MaxCalls + 1   \* the run of a deep link
RunIds == Calls \cup {Linked}   \* a run goes by the call whose key made it

VARIABLES
  view,      \* phase, runId, result (none, sample or a run) and the pack
  key,       \* idempotencyKeyRef: the call that made it, or None
  last,      \* lastActionRef
  call,      \* what each call does: kind, step, the key, documents and answer of its POST
  request,   \* requestRef: the call whose controller it is
  aborted,   \* calls whose controller was aborted
  effect,    \* the running effect of the polls: its run and step
  deleting,  \* the run that a DELETE was sent for
  wire,      \* calls whose POST is on its way
  service,   \* the runs: status, cleanup and request
  faults

page == <<view, key, last, request, aborted>>
network == <<wire, service>>
vars == <<page, call, effect, deleting, network, faults>>

NoDocuments == <<"none", 0>>
NoCall == [kind |-> "none", step |-> "none", key |-> None, documents |-> NoDocuments, answer |-> None]
Off == [run |-> None, step |-> "off"]
NoRun == [status |-> "none", clean |-> FALSE, documents |-> NoDocuments]
Refused == -1

Init ==
  /\ \E run \in {None, Linked} :
       view = [phase |-> IF run = None THEN "idle" ELSE "polling", run |-> run, result |-> None,
               mode |-> "url", drafts |-> 0, valid |-> FALSE, retryable |-> FALSE]
  /\ key = None /\ last = "analysis"
  /\ call = [n \in Calls |-> NoCall] /\ request = None /\ aborted = {}
  /\ effect = Off /\ deleting = None
  /\ wire = {}
  /\ service = [r \in RunIds |-> IF r = Linked THEN [NoRun EXCEPT !.status = "working"] ELSE NoRun]
  /\ faults = 0

Sample == MaxCalls + 2   \* what the result is when it is the sample
Fault == faults < MaxFaults /\ faults' = faults + 1
Aborting == aborted' = aborted \cup ({request} \ {None})
ShowError(again) == view' = [view EXCEPT !.phase = "error", !.retryable = again]

-----------------------------------------------------------------------------
(* The user and the tools *)

\* The pack is edited on the start page only.
Edit ==
  /\ view.phase = "idle" /\ view.drafts < MaxEdits
  /\ \E mode \in {"url", "upload"}, valid \in BOOLEAN :
       view' = [view EXCEPT !.drafts = @ + 1, !.mode = mode, !.valid = valid]
  /\ UNCHANGED <<key, last, request, aborted, call, effect, deleting, network, faults>>

Cleared == [view EXCEPT !.phase = "idle", !.run = None, !.result = None]

\* Stop watching, Back, and the pack's New button.
ResetToInputs ==
  /\ view.phase # "idle" /\ Aborting /\ view' = Cleared /\ key' = None
  /\ UNCHANGED <<last, request, call, effect, deleting, network, faults>>

StageCanadaBuysUrl ==
  /\ Aborting /\ key' = None
  /\ view.drafts < MaxEdits
  /\ \E valid \in BOOLEAN :
       view' = [Cleared EXCEPT !.mode = "url", !.drafts = @ + 1, !.valid = valid]
  /\ UNCHANGED <<last, request, call, effect, deleting, network, faults>>

Begin(n, kind, step) ==
  /\ call[n].kind = "none" /\ \A m \in 1..(n - 1) : call[m].kind # "none"
  /\ Aborting /\ request' = n
  /\ call' = [call EXCEPT ![n] = [NoCall EXCEPT !.kind = kind, !.step = step]]

\* Submit, or Try again without a run. A pack that does not validate goes nowhere.
StartAnalysis ==
  /\ \/ view.phase = "idle"
     \/ view.phase = "error" /\ view.retryable /\ last = "analysis" /\ view.run = None
  /\ last' = "analysis"
  /\ \/ /\ view.valid
        /\ \E n \in Calls : Begin(n, "start", IF view.mode = "upload" THEN "upload" ELSE "create")
        /\ view' = [Cleared EXCEPT !.phase = "starting"]
     \/ ~view.valid /\ view' = [view EXCEPT !.phase = "idle"] /\ UNCHANGED <<request, aborted, call>>
  /\ UNCHANGED <<key, effect, deleting, network, faults>>

\* The buttons, the tool at any time, and Try again. The run in hand stays in hand.
LoadSample ==
  /\ last' = "sample" /\ key' = None
  /\ \E n \in Calls : Begin(n, "sample", "get")
  /\ view' = [view EXCEPT !.phase = "starting"]
  /\ UNCHANGED <<effect, deleting, network, faults>>

\* Try again with a run in hand polls it again.
RetryPoll ==
  /\ view.phase = "error" /\ view.retryable /\ last = "analysis" /\ view.run # None
  /\ view' = [view EXCEPT !.phase = "polling"] /\ effect' = Off
  /\ UNCHANGED <<key, last, request, aborted, call, deleting, network, faults>>

\* The agent cancels its tool; the page stays where the call had brought it.
CancelSample ==
  /\ \E n \in Calls : call[n].kind = "sample" /\ n = request /\ aborted' = aborted \cup {n}
  /\ UNCHANGED <<view, key, last, request, call, effect, deleting, network, faults>>

-----------------------------------------------------------------------------
(* Starting an analysis *)

At(n, kind, step) == call[n].kind = kind /\ call[n].step = step /\ n \notin aborted
Step(n, step) == call' = [call EXCEPT ![n].step = step]
Fails(n, again) == Step(n, "over") /\ ShowError(again) /\ UNCHANGED <<key, last, request, aborted>>

\* Digest, challenge, presign and PUT of every file.
Upload(n) ==
  /\ At(n, "start", "upload")
  /\ \/ Step(n, "create") /\ UNCHANGED <<page, faults>>
     \/ Fault /\ Fails(n, TRUE)
  /\ UNCHANGED <<effect, deleting, network>>

\* A presigned path is made for each upload, so an uploaded pack is new every time.
Documents(n) == IF view.mode = "upload" THEN <<"upload", n>> ELSE <<"url", view.drafts>>

Key(n) == IF key = None THEN n ELSE key

\* The key survives every failure from here on.
Create(n) ==
  /\ At(n, "start", "create")
  /\ key' = Key(n)
  /\ \/ /\ wire' = wire \cup {n}
        /\ call' = [call EXCEPT ![n] =
             [@ EXCEPT !.step = "sent", !.key = Key(n), !.documents = Documents(n)]]
        /\ UNCHANGED <<view, faults>>
     \/ Fault /\ Step(n, "over") /\ ShowError(TRUE) /\ UNCHANGED wire
  /\ UNCHANGED <<last, request, aborted, effect, deleting, service>>

\* Mutant: the answer of a call the user has left is taken.
Hears_Always(n) == call[n].kind = "start" /\ call[n].step = "answered"

Hears(n) == At(n, "start", "answered")

HearCreated(n) ==
  /\ Hears(n) /\ Step(n, "over") /\ UNCHANGED <<last, request, aborted>>
  /\ IF call[n].answer = Refused
       THEN ShowError(FALSE) /\ UNCHANGED key
       ELSE view' = [view EXCEPT !.run = call[n].answer, !.phase = "polling"] /\ key' = None
  /\ UNCHANGED <<effect, deleting, network, faults>>

\* The request or its answer is lost; a POST that was sent may still arrive.
CreateLost(n) ==
  /\ \E step \in {"sent", "answered"} : At(n, "start", step)
  /\ Fault /\ Fails(n, TRUE)
  /\ UNCHANGED <<effect, deleting, network>>

HearSample(n) ==
  /\ At(n, "sample", "get") /\ Step(n, "over")
  /\ \/ view' = [view EXCEPT !.run = None, !.result = Sample, !.phase = "result"] /\ UNCHANGED faults
     \/ Fault /\ ShowError(TRUE)
  /\ UNCHANGED <<key, last, request, aborted, effect, deleting, network>>

-----------------------------------------------------------------------------
(* Watching a run *)

Watched == IF view.phase = "polling" THEN view.run ELSE None

\* React runs the effect some time after the state it depends on has changed; until
\* then the effect of the old state goes on, and with this its requests are aborted.
RunEffect ==
  /\ effect.run # Watched
  /\ effect' = IF Watched = None THEN Off ELSE [run |-> Watched, step |-> "status"]
  /\ UNCHANGED <<page, call, deleting, network, faults>>

Polls(step) == effect' = [effect EXCEPT !.step = step]

\* Mutant: a result is fetched as soon as the run is ready.
Releasable_Ready(run) == service[run].status = "ready"

Releasable(run) == service[run].status = "ready" /\ service[run].clean

\* Mutant: the poll of a run that is not over is the last one.
NextPoll_None == "off"

NextPoll == "wait"

PollStatus ==
  /\ effect.step = "status"
  /\ LET run == effect.run
         status == service[run].status IN
     \/ Releasable(run) /\ Polls("analysis") /\ UNCHANGED <<view, faults>>
     \/ status = "ready" /\ ~Releasable(run) /\ Polls("off") /\ ShowError(TRUE) /\ UNCHANGED faults
     \/ /\ status = "over" /\ Polls("off")
        /\ \E again \in BOOLEAN :
             view' = [view EXCEPT !.run = None, !.phase = "error", !.retryable = again]
        /\ UNCHANGED faults
     \/ status = "working" /\ Polls(NextPoll) /\ UNCHANGED <<view, faults>>
     \/ Fault /\ Polls("off") /\ ShowError(TRUE)
  /\ UNCHANGED <<key, last, request, aborted, call, deleting, network>>

\* 202 while the service does not release it; an error once the run is over.
PollAnalysis ==
  /\ effect.step = "analysis"
  /\ \/ /\ service[effect.run].status = "ready" /\ Polls("off")
        /\ view' = [view EXCEPT !.result = effect.run, !.phase = "result"]
        /\ UNCHANGED faults
     \/ Fault /\ Polls(NextPoll) /\ UNCHANGED view
     \/ service[effect.run].status = "over" /\ Polls("off") /\ ShowError(TRUE) /\ UNCHANGED faults
     \/ Fault /\ Polls("off") /\ ShowError(TRUE)
  /\ UNCHANGED <<key, last, request, aborted, call, deleting, network>>

PollTimer ==
  /\ effect.step = "wait" /\ Polls("status")
  /\ UNCHANGED <<page, call, deleting, network, faults>>

DeleteResult ==
  /\ view.phase = "result" /\ view.run # None /\ deleting = None
  /\ deleting' = view.run
  /\ UNCHANGED <<page, call, effect, network, faults>>

\* The answer resets the page, whatever the page has gone on to.
HearDeleted ==
  /\ deleting # None /\ deleting' = None
  /\ \/ /\ service' = [service EXCEPT ![deleting].status = "over"]
        /\ Aborting /\ view' = Cleared /\ key' = None /\ UNCHANGED faults
     \/ Fault /\ UNCHANGED <<view, key, aborted, service>>
  /\ UNCHANGED <<last, request, call, effect, wire>>

-----------------------------------------------------------------------------
(* The service *)

Working == {r \in RunIds : service[r].status = "working"}

Answers(n, run) ==
  call' = IF call[n].step # "sent" THEN call
          ELSE [call EXCEPT ![n].step = "answered", ![n].answer = run]

\* One run for a key, and one run of the owner at a time.
ServeCreate(n) ==
  /\ n \in wire /\ wire' = wire \ {n}
  /\ LET run == call[n].key IN
     CASE service[run].status # "none" /\ service[run].documents = call[n].documents ->
            Answers(n, run) /\ UNCHANGED service
       [] service[run].status = "none" /\ Working = {} ->
            /\ Answers(n, run)
            /\ service' = [service EXCEPT ![run] =
                 [NoRun EXCEPT !.status = "working", !.documents = call[n].documents]]
       [] OTHER -> Answers(n, Refused) /\ UNCHANGED service
  /\ UNCHANGED <<page, effect, deleting, faults>>

RunProceeds(r) ==
  /\ \/ /\ service[r].status = "working"
        /\ \E status \in {"ready", "over"} : service' = [service EXCEPT ![r].status = status]
     \/ service[r].status = "ready" /\ service' = [service EXCEPT ![r].status = "over"]
     \/ service[r].status # "none" /\ ~service[r].clean /\ service' = [service EXCEPT ![r].clean = TRUE]
  /\ UNCHANGED <<page, call, effect, deleting, wire, faults>>

-----------------------------------------------------------------------------

CallSteps(n) ==
  Upload(n) \/ Create(n) \/ ServeCreate(n) \/ HearCreated(n) \/ CreateLost(n) \/ HearSample(n)

Watching == RunEffect \/ PollStatus \/ PollAnalysis \/ PollTimer

Next ==
  \/ Edit \/ ResetToInputs \/ StageCanadaBuysUrl \/ StartAnalysis \/ LoadSample \/ RetryPoll
  \/ CancelSample \/ DeleteResult \/ HearDeleted \/ Watching
  \/ \E n \in Calls : CallSteps(n)
  \/ \E r \in RunIds : RunProceeds(r)

Spec == Init /\ [][Next]_vars

\* The page runs its continuations and timers, and every request is answered or fails.
Fairness == WF_vars(Watching) /\ \A n \in Calls : WF_vars(CallSteps(n))

FairSpec == Spec /\ Fairness

-----------------------------------------------------------------------------
(* Properties *)

OfLinks(n) == call[n].documents[1] = "url"

\* A result is on the page only of a run whose sources are confirmed gone, a page
\* that polls has a run to poll that the user has not left, and the links sent under
\* one key are one pack: whatever was aborted, answered late or retried.
PageIsSound ==
  /\ view.result \in RunIds => service[view.result].clean
  /\ view.phase = "result" => view.result # None
  /\ view.phase = "polling" => view.run # None /\ request \notin aborted
  /\ \A m, n \in Calls :
       call[m].key = call[n].key /\ OfLinks(m) /\ OfLinks(n) => call[m].documents = call[n].documents

\* A call that the page waits for has to end, and so has the watching of a run that
\* is over.
Waits(n) == view.phase = "starting" /\ request = n /\ n \notin aborted
WatchesTheEnded == view.phase = "polling" /\ service[view.run].status = "over"
=============================================================================
