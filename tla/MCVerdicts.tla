----------------------------- MODULE MCVerdicts -----------------------------
(***************************************************************************)
(* What the service and its release rest on, parts that share no state:    *)
(* the ledger of an analysis whose providers keep to their maxima          *)
(* (CostLedger, whose variables are this module's) and of one whose        *)
(* providers charge more; the receipts of a deployment (Attestation); the  *)
(* probe of the bucket, the paid campaign and the redelivery probe of a    *)
(* release; the channel and the facts an analysis settles on, and the page *)
(* that shows it.  A behaviour is one of one part, the variables of the    *)
(* others stay as they are; the parts other than the first take turns with *)
(* the variables s1 to s11.                                                *)
(***************************************************************************)
EXTENDS CostLedger

CONSTANTS
  BeyondReserve, BeyondTokens,  \* what providers charge and report that charge more
  \* Those of Attestation, of BucketProbe, of ReleaseCampaign, of RedeliveryProbe, of
  \* SubmissionChannel, of Reconciliation and of Workspace.
  Contracts, Installed, Lifetimes, MaxAge, Skew, MinRemaining, Deadline, LastTime,
  BucketFaults,
  Cases, Order, Signed, Cap, Budget, MaxInvocations, MaxPosts, MaxCrashes, CampaignSlips,
  Invocations, MaxRetries, ProbeFaults,
  Channels, Modalities, Length, Core, Halo, MaxQuote, MaxUnits, MaxRelations, MaxStatements,
  MaxSlips,
  GroupKinds, Values, MaxStage, MaxFacts,
  MaxCalls, MaxEdits, PageFaults

VARIABLES part, s1, s2, s3, s4, s5, s6, s7, s8, s9, s10, s11

ledger == vars
shared == <<s1, s2, s3, s4, s5, s6, s7, s8, s9, s10, s11>>
verdicts == <<part, ledger, shared>>

-----------------------------------------------------------------------------
(* The values of the run. A plan that exhausts the reservation to the last        *)
(* micro-USD: what both batches may cost is their reserve.                        *)

TwoBatches == <<1, 2>>
TwoFloors == <<1, 1>>
TwoLaterFloors == <<1, 0>>
WithinReserve == {0, 2}

\* One case whose document is uploaded anew, one whose request is the same each time.
InOrder == <<"uploaded", "linked">>

FourValues == {<<0, 1>>, <<1, 1>>, <<1, 2>>, <<2, 1>>}

-----------------------------------------------------------------------------
(* The parts *)

\* The same plan where a provider may charge beyond what was agreed.
Overcharged == INSTANCE CostLedger WITH
  ParseCharges <- BeyondReserve, ExcessTokens <- BeyondTokens,
  row <- s1, wk <- s2, charged <- s3, settled <- s4, refused <- s5, faults <- s6

Receipts == INSTANCE Attestation WITH
  now <- s1, offered <- s2, receipt <- s3, checked <- s4, worker <- s5

Bucket == INSTANCE BucketProbe WITH
  MaxFaults <- BucketFaults,
  bucket <- s1, object <- s2, retained <- s3, pc <- s4, deleted <- s5, lock <- s6,
  versions <- s7, token <- s8, faults <- s9

Campaign == INSTANCE ReleaseCampaign WITH
  Slips <- CampaignSlips,
  pc <- s1, metrics <- s2, file <- s3, made <- s4, crashes <- s5, gate <- s6, case <- s7,
  posts <- s8, known <- s9, found <- s10, service <- s11

Redelivery == INSTANCE RedeliveryProbe WITH
  MaxFaults <- ProbeFaults,
  deployment <- s1, pc <- s2, mode <- s3, wire <- s4, started <- s5, run <- s6, hit <- s7,
  evidence <- s8, receipt <- s9, faults <- s10

Channel == INSTANCE SubmissionChannel WITH
  package <- s1, batchOf <- s2, turn <- s3, answers <- s4, records <- s5, verdict <- s6

Facts == INSTANCE Reconciliation WITH
  Kinds <- GroupKinds,
  kind <- s1, facts <- s2, cursor <- s3, status <- s4, active <- s5, conflict <- s6,
  reported <- s7

Page == INSTANCE Workspace WITH
  MaxFaults <- PageFaults,
  view <- s1, key <- s2, last <- s3, request <- s4, aborted <- s5, call <- s6, effect <- s7,
  deleting <- s8, wire <- s9, service <- s10, faults <- s11

ASSUME VerdictsAssumption ==
  /\ BeyondReserve \subseteq Nat /\ IsFiniteSet(BeyondReserve) /\ 0 \in BeyondReserve
  /\ BeyondTokens \in Nat
  /\ Receipts!AttestationAssumption
  /\ Bucket!BucketProbeAssumption
  /\ Campaign!CampaignAssumption
  /\ Redelivery!RedeliveryAssumption
  /\ Channel!SubmissionAssumption
  /\ Facts!ReconciliationAssumption
  /\ Page!WorkspaceAssumption

-----------------------------------------------------------------------------

None == "none"

After9 == s10 = None /\ s11 = None
After7 == s8 = None /\ s9 = None /\ After9
After6 == s7 = None /\ After7
After5 == s6 = None /\ After6

VerdictsInit ==
  /\ Init
  /\ \/ part = "ledger" /\ s1 = None /\ s2 = None /\ s3 = None /\ s4 = None /\ s5 = None /\ After5
     \/ part = "overcharged" /\ Overcharged!Init /\ After6
     \/ part = "receipts" /\ Receipts!Init /\ After5
     \/ part = "bucket" /\ Bucket!Init /\ After9
     \/ part = "campaign" /\ Campaign!Init
     \/ part = "redelivery" /\ Redelivery!Init /\ s11 = None
     \/ part = "channel" /\ Channel!Init /\ After6
     \/ part = "facts" /\ Facts!Init /\ After7
     \/ part = "page" /\ Page!Init

KeepsPart == UNCHANGED <<part, ledger>>
Keeps9 == KeepsPart /\ UNCHANGED <<s10, s11>>
Keeps7 == Keeps9 /\ UNCHANGED <<s8, s9>>
Keeps6 == Keeps7 /\ UNCHANGED s7

SpendHonestly == part = "ledger" /\ Next /\ UNCHANGED <<part, shared>>
SpendBeyond == part = "overcharged" /\ Overcharged!Next /\ Keeps6
KeepReceipts == part = "receipts" /\ Receipts!Next /\ Keeps6 /\ UNCHANGED s6
ProbeBucket == part = "bucket" /\ Bucket!Next /\ Keeps9
RunCampaign == part = "campaign" /\ Campaign!Next /\ KeepsPart
ProbeRedelivery == part = "redelivery" /\ Redelivery!Next /\ KeepsPart /\ UNCHANGED s11
SettleChannel == part = "channel" /\ Channel!Next /\ Keeps6
SettleFacts == part = "facts" /\ Facts!Next /\ Keeps7
ShowPage == part = "page" /\ Page!Next /\ KeepsPart

VerdictsNext ==
  \/ SpendHonestly \/ SpendBeyond \/ KeepReceipts \/ ProbeBucket
  \/ RunCampaign \/ ProbeRedelivery \/ SettleChannel \/ SettleFacts \/ ShowPage

VerdictsSpec == VerdictsInit /\ [][VerdictsNext]_verdicts

-----------------------------------------------------------------------------
(* Properties of the parts; those of CostLedger hold of every behaviour. *)

\* A provider that charges beyond its maximum is found out before the result is
\* released, and costs no more than one round of calls beyond the plan.
OverchargeIsCaught ==
  part = "overcharged" => Overcharged!ReleasedWithinReservation /\ Overcharged!ExposureIsBounded

\* While a step pays, the contract of its deployment was confirmed by the provider
\* no longer ago than a receipt may be old, whatever was rewritten in between.
PaidContractWasChecked == part = "receipts" => Receipts!PaidContractWasChecked

\* A bucket that is attested was found safe and by then held nothing of the probe,
\* though a command fails or the bucket is changed in between.
AttestedBucketIsClean ==
  part = "bucket" => Bucket!AttestedBucketIsSafe /\ Bucket!ProbeObjectIsRemoved

\* A campaign that is killed and resumed pays once for a case, within its budget as long
\* as the ledgers it was given say no less than was spent, and a file that says "pass"
\* stands for one run of each case, deleted.
CampaignIsHonest == part = "campaign" => Campaign!PaidOnce /\ Campaign!PassIsEarned

\* A file that says "pass" was held against the wallet, for all of its runs or for all
\* but one.
PassesAreCompared == part = "campaign" => Campaign!PassIsCompared

\* Evidence of a redelivery is true, and the probe that makes it kills nothing else.
RedeliveryIsTrue == part = "redelivery" => Redelivery!EvidenceIsTrue /\ Redelivery!ProbeIsContained

\* The channel an analysis names is the one the package allows.
ChannelIsTrue == part = "channel" => Channel!ChannelIsTrue

\* What an analysis says of a topic is what base and amendments leave standing.
FactsAreReconciled == part = "facts" => Facts!FactsAreReconciled

\* The page shows only what its run is entitled to, polls what it has not left, and
\* repeats a request only as it was.
PageIsSound == part = "page" => Page!PageIsSound
=============================================================================
