----------------------------- MODULE MCCleanups -----------------------------
(***************************************************************************)
(* What has to be cleaned up though others stop, four parts that share no  *)
(* state: the retry of a cleanup (CleanupRetry, whose variables are this   *)
(* module's), a claimed run (RunProcessing), an upload grant (UploadGrant) *)
(* and a paid parse (MonidParse).  A behaviour is one of one part under    *)
(* the fairness of that part, the variables of the others stay as they     *)
(* are; the last three parts take turns with the variables s1 to s11.      *)
(***************************************************************************)
EXTENDS CleanupRetry

VARIABLES part, s1, s2, s3, s4, s5, s6, s7, s8, s9, s10, s11

retry == vars
shared == <<s1, s2, s3, s4, s5, s6, s7, s8, s9, s10, s11>>
cleanups == <<part, retry, shared>>

-----------------------------------------------------------------------------

OneUpload == {1}
TwoWorkers == {"w1", "w2"}
OneCleaner == {"c1"}

Run == INSTANCE RunProcessing WITH
  N <- 1, Uploads <- OneUpload, Batch <- 1, Worker <- TwoWorkers, Cleaner <- OneCleaner,
  Nobody <- "nobody", MaxFaults <- 1, Zombies <- FALSE,
  run <- s1, wk <- s2, cl <- s3, raw <- s4, staged <- s5, fetching <- s6, calls <- s7,
  watched <- s8, faults <- s9

\* Two runs name one upload; each is purged, and a sweep looks for its grant.
TwoRuns == {"r1", "r2"}
TwoPurges == {"p1", "p2"}
RunOfPurge == [p \in TwoPurges |-> IF p = "p1" THEN "r1" ELSE "r2"]
OneSweep == {"s1"}

Grant == INSTANCE UploadGrant WITH
  Runs <- TwoRuns, Purgers <- TwoPurges, RunOf <- RunOfPurge, Sweepers <- OneSweep,
  Nobody <- "nobody", MaxPuts <- 2, MaxFaults <- 1,
  row <- s1, object <- s2, phase <- s3, flying <- s4, puts <- s5, granted <- s6,
  misread <- s7, pc <- s8, seen <- s9, etag <- s10, faults <- s11

TwoDocuments == {"d1", "d2"}
OneCost == {2}

ParseCall == INSTANCE MonidParse WITH
  Docs <- TwoDocuments, Reserve <- 2, Costs <- OneCost, MaxPolls <- 2, MaxRedirects <- 1,
  MaxFaults <- 1,
  offered <- s1, contract <- s2, pc <- s3, count <- s4, provider <- s5, wire <- s6,
  access <- s7, ledger <- s8, source <- s9, faults <- s10

ASSUME Grant!UploadGrantAssumption /\ ParseCall!MonidAssumption

-----------------------------------------------------------------------------

None == "none"

After10 == s11 = None
After9 == s10 = None /\ After10

CleanupsInit ==
  /\ Init
  /\ \/ /\ part = "retry" /\ s1 = None /\ s2 = None /\ s3 = None /\ s4 = None /\ s5 = None
        /\ s6 = None /\ s7 = None /\ s8 = None /\ s9 = None /\ After9
     \/ part = "run" /\ Run!Init /\ After9
     \/ part = "grant" /\ Grant!Init
     \/ part = "parse" /\ ParseCall!Init /\ After10
  /\ part # "retry" => ~local

KeepsPart == UNCHANGED <<part, retry>>
Keeps10 == KeepsPart /\ UNCHANGED s11
Keeps9 == Keeps10 /\ UNCHANGED s10

\* A step of one part.
InRetry(A) == part = "retry" /\ A /\ UNCHANGED <<part, shared>>
InRun(A) == part = "run" /\ A /\ Keeps9
InGrant(A) == part = "grant" /\ A /\ KeepsPart
InParse(A) == part = "parse" /\ A /\ Keeps10

CleanupsNext ==
  InRetry(Next) \/ InRun(Run!Next) \/ InGrant(Grant!Next) \/ InParse(ParseCall!Next)

\* The fairness of each part, as its module has it.
CleanupsFairness ==
  /\ WF_cleanups(InRetry(Maintain)) /\ WF_cleanups(InRetry(Tick))
  /\ WF_cleanups(InRun(Run!LeaseOfDead))
  /\ \A d \in OneUpload : WF_cleanups(InRun(Run!AccessEnds(d)))
  /\ \A w \in TwoWorkers : WF_cleanups(InRun(Run!Killed(w)))
  /\ \A c \in OneCleaner : WF_cleanups(InRun(Run!Sweep(c) \/ Run!CleanStep(c)))
  /\ WF_cleanups(InGrant(Grant!Expire)) /\ WF_cleanups(InGrant(Grant!BecomeDue))
  /\ WF_cleanups(InGrant(Grant!LeaseOfDead))
  /\ WF_cleanups(InGrant(\E body \in Grant!Bodies : Grant!LandPut(body)))
  /\ \A s \in OneSweep :
       /\ SF_cleanups(InGrant(Grant!SweepList(s)))
       /\ WF_cleanups(InGrant(Grant!SweepStep(s))) /\ WF_cleanups(InGrant(Grant!RemoveStep(s)))
  /\ \A d \in TwoDocuments : WF_cleanups(InParse(ParseCall!Worker(d)))

CleanupsSpec == CleanupsInit /\ [][CleanupsNext]_cleanups /\ CleanupsFairness

-----------------------------------------------------------------------------
(* Properties of the parts; those of CleanupRetry hold of every behaviour. *)

\* A retry that is pending ends, whatever is lost, and one nobody started is found.
RetryEnds == PendingEnds /\ [](part = "retry" => UnstartedRetryIsDue)

\* A claimed run ends with its sources gone, whatever is killed, lost or refused.
RunEnds == (part = "run" /\ Run!IsAtWork) ~> (part = "run" => Run!IsOver)

\* An upload grant ends, with row and bytes gone, though nobody claims it and every
\* purge fails; and it is kept as in MCRows when its URL is used twice.
GrantEnds ==
  /\ [](part = "grant" => Grant!GrantIsSafe)
  /\ <>[](part = "grant" => Grant!NothingIsLeft)

\* What the parser charges is on the books while it can be charged, no source goes
\* while it may be read, and the parse ends though the provider never does.
ParseIsKept ==
  /\ [](part = "parse" => ParseCall!PaidIsBooked /\ ParseCall!SourceOutlivesRun)
  /\ <>(part = "parse" => ParseCall!IsOver)
=============================================================================
