----------------------------- MODULE MCProgress -----------------------------
(***************************************************************************)
(* What has to go on though others stop, three parts that share no state:  *)
(* maintenance passes (Maintenance, whose variables are this module's),    *)
(* the challenges of a page (TokenQueue) and the page itself (Workspace).  *)
(* A behaviour is one of one part under the fairness of that part, the     *)
(* variables of the others stay as they are; the last two parts take turns *)
(* with the variables s1 to s11.                                           *)
(***************************************************************************)
EXTENDS Maintenance

CONSTANTS r1, r2, p1

\* A pass that is cut off after the first run of its batch may have spent itself on
\* the hopeless one.
BothRuns == {r1, r2}
OneStuck == {r1}
OnePass == {p1}
OwnOwner == [r \in Runs |-> r]

VARIABLES part, s1, s2, s3, s4, s5, s6, s7, s8, s9, s10, s11

passes == vars
shared == <<s1, s2, s3, s4, s5, s6, s7, s8, s9, s10, s11>>
progress == <<part, passes, shared>>

-----------------------------------------------------------------------------

ThreeCalls == {"t1", "t2", "t3"}

Tokens == INSTANCE TokenQueue WITH
  Calls <- ThreeCalls, MaxLoads <- 1,
  chain <- s1, step <- s2, aborted <- s3, api <- s4, script <- s5, availability <- s6,
  widgets <- s7, active <- s8, loads <- s9

Page == INSTANCE Workspace WITH
  MaxCalls <- 1, MaxEdits <- 1, MaxFaults <- 2,
  view <- s1, key <- s2, last <- s3, request <- s4, aborted <- s5, call <- s6, effect <- s7,
  deleting <- s8, wire <- s9, service <- s10, faults <- s11

ASSUME
  /\ Tokens!TokenQueueAssumption
  /\ Page!WorkspaceAssumption

-----------------------------------------------------------------------------

None == "none"

After9 == s10 = None /\ s11 = None

ProgressInit ==
  /\ Init
  /\ \/ /\ part = "passes" /\ s1 = None /\ s2 = None /\ s3 = None /\ s4 = None /\ s5 = None
        /\ s6 = None /\ s7 = None /\ s8 = None /\ s9 = None /\ After9
     \/ part = "tokens" /\ Tokens!Init /\ After9
     \/ part = "page" /\ Page!Init

KeepsPart == UNCHANGED <<part, passes>>
Keeps9 == KeepsPart /\ UNCHANGED <<s10, s11>>

\* A step of one part.
InPasses(A) == part = "passes" /\ A /\ UNCHANGED <<part, shared>>
InTokens(A) == part = "tokens" /\ A /\ Keeps9
InPage(A) == part = "page" /\ A /\ KeepsPart

ProgressNext == InPasses(Next) \/ InTokens(Tokens!Next) \/ InPage(Page!Next)

\* The fairness of each part, as its module has it.
ProgressFairness ==
  /\ WF_progress(InPasses(\E p \in Passes : Begin(p)))
  /\ \A p \in Passes : WF_progress(InPasses(PassStep(p)))
  /\ SF_progress(InPasses(\E p \in Passes : List(p)))
  /\ SF_progress(InPasses(\E p \in Passes : Remove(p) \/ Revoke(p)))
  /\ \A r \in Runs :
       /\ SF_progress(InPasses(\E p \in Passes : Confirm(p, r)))
       /\ WF_progress(InPasses(Rests(r))) /\ WF_progress(InPasses(LeaseElapses(r)))
  /\ WF_progress(InTokens(Tokens!Browser))
  /\ WF_progress(InPage(Page!Watching))
  /\ \A n \in Page!Calls : WF_progress(InPage(Page!CallSteps(n)))

ProgressSpec == ProgressInit /\ [][ProgressNext]_progress /\ ProgressFairness

-----------------------------------------------------------------------------
(* Properties of the parts; those of Maintenance hold of every behaviour. *)

\* What a pass is there to find ends: runs that are pending, and runs whose worker is
\* gone, whatever other runs are stuck.
RunsAreCleaned == PendingRunsEnd /\ OrphansAreFound

\* A call that asks for a token hears of it, one challenge at a time.
EveryCallIsAnswered ==
  /\ [](part = "tokens" => Tokens!OneChallenge)
  /\ \A c \in ThreeCalls :
       (part = "tokens" /\ Tokens!IsQueued(c)) ~> (part = "tokens" => Tokens!IsAnswered(c))

\* The page never waits for what is over: neither a call nor a run.
PageMovesOn ==
  /\ \A n \in Page!Calls :
       (part = "page" /\ Page!Waits(n)) ~> (part = "page" => ~Page!Waits(n))
  /\ (part = "page" /\ Page!WatchesTheEnded) ~> (part = "page" => ~Page!WatchesTheEnded)
=============================================================================
