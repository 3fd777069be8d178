------------------------------ MODULE TokenQueue ------------------------------
(***************************************************************************)
(* The challenges of the page (src/components/turnstile-provider.tsx):     *)
(* calls that need a token wait in one promise chain; the head waits for   *)
(* the script, draws one widget and waits for its answer.  A call can be   *)
(* aborted at any time, and neither the script nor the visitor need        *)
(* answer.                                                                 *)
(***************************************************************************)
EXTENDS Integers, Sequences, FiniteSets

CONSTANTS
  Calls,
  MaxLoads   \* bound: attempts to load the script

TokenQueueAssumption == MaxLoads \in Nat /\ "nobody" \notin Calls

VARIABLES
  chain,         \* the calls of queueRef that have not settled
  step,          \* what each call is doing, or its outcome
  aborted,
  api,           \* window.turnstile is there
  script,        \* the script's load: "pending", "settled" or "none"
  availability,
  widgets,       \* the calls whose widget is on the page
  active,        \* activeAction: the call it shows, or Nobody
  loads

vars == <<chain, step, aborted, api, script, availability, widgets, active, loads>>
challenge == <<widgets, active>>
loading == <<api, script, availability, loads>>

Nobody == "nobody"
Outcomes == {"token", "aborted", "unavailable", "refused", "timeout"}

Init ==
  /\ chain = <<>> /\ step = [c \in Calls |-> "new"] /\ aborted = {}
  /\ api = FALSE /\ script = "pending" /\ availability = "loading"
  /\ widgets = {} /\ active = Nobody /\ loads = 0

Set(c, to) == step' = [step EXCEPT ![c] = to]
Serving(c) == chain # <<>> /\ Head(chain) = c

\* Mutant: a call that fails leaves the chain rejected, and its successors waiting.
Settle_Sticky(c, outcome) ==
  /\ Set(c, outcome)
  /\ chain' = IF outcome = "token" THEN Tail(chain) ELSE chain

\* The call leaves the chain with whatever outcome, and the next one has its turn.
Settle(c, outcome) == Set(c, outcome) /\ chain' = Tail(chain)

GetMutationHeaders(c) ==
  /\ step[c] = "new"
  /\ chain' = Append(chain, c) /\ Set(c, "queued")
  /\ UNCHANGED <<aborted, loading, challenge>>

\* waitForApi, in its turn.
IssueToken(c) ==
  /\ Serving(c) /\ step[c] = "queued"
  /\ \/ c \in aborted /\ Settle(c, "aborted") /\ UNCHANGED active
     \/ c \notin aborted /\ api /\ Set(c, "frame") /\ active' = c /\ UNCHANGED chain
     \/ /\ c \notin aborted /\ ~api /\ availability = "failed"
        /\ Settle(c, "unavailable") /\ UNCHANGED active
     \/ /\ c \notin aborted /\ ~api /\ availability # "failed"
        /\ Set(c, "waiting") /\ UNCHANGED <<chain, active>>
  /\ UNCHANGED <<aborted, loading, widgets>>

Waiting == {c \in Calls : step[c] = "waiting"}

\* markReady: the one waiter there can be goes on.
ScriptLoads ==
  /\ script = "pending" /\ script' = "settled"
  /\ api' = TRUE /\ availability' = "ready"
  /\ step' = [c \in Calls |-> IF c \in Waiting THEN "frame" ELSE step[c]]
  /\ active' = IF Waiting = {} THEN active ELSE Head(chain)
  /\ UNCHANGED <<chain, aborted, widgets, loads>>

\* An error of the script, a script without the interface, or its 15 seconds are over.
ScriptFails ==
  /\ script = "pending" /\ script' = "settled"
  /\ availability' = "failed"
  /\ IF Waiting = {} THEN UNCHANGED <<step, chain>> ELSE Settle(Head(chain), "unavailable")
  /\ UNCHANGED <<aborted, api, loads, challenge>>

\* The script that was given up arrives after all; nothing listens for it.
ScriptIsLate ==
  /\ script = "settled" /\ ~api /\ api' = TRUE
  /\ UNCHANGED <<chain, step, aborted, script, availability, loads, challenge>>

RetryScript ==
  /\ availability = "failed" /\ loads < MaxLoads /\ loads' = loads + 1
  /\ IF api THEN availability' = "ready" /\ UNCHANGED script
            ELSE availability' = "loading" /\ script' = "pending"
  /\ UNCHANGED <<chain, step, aborted, api, challenge>>

\* The waiter's own 15 seconds.
WaitTimesOut(c) ==
  /\ step[c] = "waiting" /\ Settle(c, "timeout")
  /\ UNCHANGED <<aborted, loading, challenge>>

\* finish: the widget goes with the outcome.
Finish(c, outcome) ==
  Settle(c, outcome) /\ widgets' = widgets \ {c} /\ active' = Nobody

Render(c) ==
  /\ step[c] = "frame"
  /\ \/ Set(c, "challenge") /\ widgets' = widgets \cup {c} /\ UNCHANGED <<chain, active>>
     \/ Finish(c, "refused")
  /\ UNCHANGED <<aborted, loading>>

\* A token, or one of the widget's four ways to fail.
Answer(c) ==
  /\ step[c] = "challenge"
  /\ \E outcome \in {"token", "refused"} : Finish(c, outcome)
  /\ UNCHANGED <<aborted, loading>>

ChallengeTimesOut(c) ==
  /\ step[c] = "challenge" /\ Finish(c, "timeout")
  /\ UNCHANGED <<aborted, loading>>

\* Mutant: an aborted call leaves its widget to the visitor.
Abort_Keeps(c) ==
  /\ step[c] \notin {"new"} \cup Outcomes /\ c \notin aborted
  /\ aborted' = aborted \cup {c}
  /\ IF step[c] = "queued" THEN UNCHANGED <<step, chain>> ELSE Settle(c, "aborted")
  /\ active' = (IF active = c THEN Nobody ELSE active) /\ UNCHANGED <<widgets, loading>>

\* A call that waits for its turn is only marked: it is rejected when its turn comes.
Abort(c) ==
  /\ step[c] \notin {"new"} \cup Outcomes /\ c \notin aborted
  /\ aborted' = aborted \cup {c}
  /\ CASE step[c] = "queued" -> UNCHANGED <<step, chain, challenge>>
       [] step[c] = "waiting" -> Settle(c, "aborted") /\ UNCHANGED challenge
       [] OTHER -> Finish(c, "aborted")
  /\ UNCHANGED loading

\* The browser's own steps and timers; the visitor's answer is not among them.
Browser ==
  \/ ScriptFails
  \/ \E c \in Calls : IssueToken(c) \/ WaitTimesOut(c) \/ Render(c) \/ ChallengeTimesOut(c)

Next ==
  \/ Browser \/ ScriptLoads \/ ScriptIsLate \/ RetryScript
  \/ \E c \in Calls : GetMutationHeaders(c) \/ Answer(c) \/ Abort(c)

Spec == Init /\ [][Next]_vars

FairSpec == Spec /\ WF_vars(Browser)

-----------------------------------------------------------------------------
(* Properties *)

\* There is one challenge at a time, of the call whose turn it is, and the page names
\* that call.
OneChallenge ==
  /\ \A c \in Calls : c \in widgets <=> step[c] = "challenge"
  /\ widgets \subseteq {active}
  /\ active # Nobody => Serving(active)

\* A call that asks for a token has to hear of it, though the script never loads and the
\* visitor never answers, whatever the calls before it have come to.
IsQueued(c) == step[c] = "queued"
IsAnswered(c) == step[c] \in Outcomes
=============================================================================
