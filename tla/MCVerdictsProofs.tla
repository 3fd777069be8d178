-------------------------- MODULE MCVerdictsProofs --------------------------
(***************************************************************************)
(* What the service and its release rest on, for all constants: the parts  *)
(* of MCVerdicts one by one, each with its inductive invariant, and then   *)
(* what holds in every behaviour of MCVerdicts, which is one of theirs.    *)
(***************************************************************************)
EXTENDS MCVerdicts, FiniteSetTheorems, NaturalsInduction, SequenceTheorems, TLAPS

-----------------------------------------------------------------------------
(*****************************************************************************)
(* The ledger of an analysis whose providers charge more (CostLedger): what  *)
(* CostLedgerProofs proves of it, under the names it has here.               *)
(*****************************************************************************)

\* CostLedger as it is proved about, for providers that charge more.
Paid == INSTANCE CostLedgerProofs WITH
  ParseCharges <- BeyondReserve, ExcessTokens <- BeyondTokens,
  row <- s1, wk <- s2, charged <- s3, settled <- s4, refused <- s5, faults <- s6

LEMMA OverchargedInit == Overcharged!Init => Paid!Init
BY DEF Overcharged!Init, Paid!Init, Overcharged!Attempts, Paid!Attempts, Overcharged!Parse,
      Paid!Parse, Overcharged!Docs, Paid!Docs, Overcharged!Model, Paid!Model,
      Overcharged!Batches, Paid!Batches, Overcharged!NoEvent, Paid!NoEvent,
      Overcharged!Unsettled, Paid!Unsettled

LEMMA OverchargedNext == Overcharged!Next => Paid!Next
BY DEF Overcharged!Next, Paid!Next, Overcharged!Plan, Paid!Plan, Overcharged!Fits, Paid!Fits,
      Overcharged!ParsePlan, Paid!ParsePlan, Overcharged!Docs, Paid!Docs, Overcharged!Goto,
      Paid!Goto, Overcharged!ParseDocument, Paid!ParseDocument, Overcharged!NotStarted,
      Paid!NotStarted, Overcharged!Step, Paid!Step, Overcharged!Fault, Paid!Fault,
      Overcharged!MarkStarted, Paid!MarkStarted, Overcharged!MarkPending, Paid!MarkPending,
      Overcharged!WithEvent, Paid!WithEvent, Overcharged!Total, Paid!Total,
      Overcharged!MapThenSumSet, Paid!MapThenSumSet, Overcharged!MapThenFoldSet,
      Paid!MapThenFoldSet, Overcharged!Attempts, Paid!Attempts, Overcharged!Parse, Paid!Parse,
      Overcharged!Model, Paid!Model, Overcharged!Batches, Paid!Batches, Overcharged!Event,
      Paid!Event, Overcharged!Guarded, Paid!Guarded, Overcharged!NoFault, Paid!NoFault,
      Overcharged!Cardinality, Paid!Cardinality, Overcharged!StartedDocs, Paid!StartedDocs,
      Overcharged!Remember, Paid!Remember, Overcharged!Dispatch, Paid!Dispatch,
      Overcharged!Capture, Paid!Capture, Overcharged!CleanupFails, Paid!CleanupFails,
      Overcharged!BatchEnds, Paid!BatchEnds, Overcharged!Merge, Paid!Merge,
      Overcharged!Merged, Paid!Merged, Overcharged!NoEvent, Paid!NoEvent, Overcharged!Extract,
      Paid!Extract, Overcharged!Preflight, Paid!Preflight, Overcharged!MultiPrice,
      Paid!MultiPrice, Overcharged!Price, Paid!Price, Overcharged!InputFrom, Paid!InputFrom,
      Overcharged!MarkBatch, Paid!MarkBatch, Overcharged!OutputCap, Paid!OutputCap,
      Overcharged!MaxCost, Paid!MaxCost, Overcharged!CallBatch, Paid!CallBatch,
      Overcharged!Outcome, Paid!Outcome, Overcharged!ObservedOrMaximum,
      Paid!ObservedOrMaximum, Overcharged!NoUsage, Paid!NoUsage, Overcharged!SettleBatch,
      Paid!SettleBatch, Overcharged!Billed, Paid!Billed, Overcharged!WithBilled,
      Paid!WithBilled, Overcharged!Lost, Paid!Lost, Overcharged!Finish, Paid!Finish,
      Overcharged!Verify, Paid!Verify, Overcharged!Settle, Paid!Settle,
      Overcharged!Settleable, Paid!Settleable, Overcharged!SettleAt, Paid!SettleAt,
      Overcharged!Larger, Paid!Larger, Overcharged!Publish, Paid!Publish,
      Overcharged!Interrupted, Paid!Interrupted, Overcharged!Recover, Paid!Recover,
      Overcharged!FailureAmount, Paid!FailureAmount, Overcharged!SettleFailure,
      Paid!SettleFailure, Overcharged!Killed, Paid!Killed, Overcharged!Withdraw, Paid!Withdraw

LEMMA ReleasedToo == Paid!ReleasedWithinReservation => Overcharged!ReleasedWithinReservation
BY DEF Overcharged!ReleasedWithinReservation, Paid!ReleasedWithinReservation,
      Overcharged!Spent, Paid!Spent, Overcharged!MapThenSumSet, Paid!MapThenSumSet,
      Overcharged!MapThenFoldSet, Paid!MapThenFoldSet, Overcharged!Attempts, Paid!Attempts,
      Overcharged!Parse, Paid!Parse, Overcharged!Docs, Paid!Docs, Overcharged!Model,
      Paid!Model, Overcharged!Batches, Paid!Batches

LEMMA ExposureToo == Paid!ExposureIsBounded => Overcharged!ExposureIsBounded
BY DEF Overcharged!ExposureIsBounded, Paid!ExposureIsBounded, Overcharged!Max, Paid!Max,
      Overcharged!Price, Paid!Price, Overcharged!Spent, Paid!Spent, Overcharged!MapThenSumSet,
      Paid!MapThenSumSet, Overcharged!MapThenFoldSet, Paid!MapThenFoldSet,
      Overcharged!Attempts, Paid!Attempts, Overcharged!Parse, Paid!Parse, Overcharged!Docs,
      Paid!Docs, Overcharged!Model, Paid!Model, Overcharged!Batches, Paid!Batches,
      Overcharged!Larger, Paid!Larger

LEMMA OverchargeAssumed == Paid!LedgerAssumption /\ Paid!IsFiniteSet(BeyondReserve)
BY LedgerAssumption, VerdictsAssumption
DEF LedgerAssumption, VerdictsAssumption, Paid!LedgerAssumption, Docs, Batches, Paid!Docs,
    Paid!Batches, IsFiniteSet, Paid!IsFiniteSet

-----------------------------------------------------------------------------
(*****************************************************************************)
(* Receipts that a script writes and that run out (Attestation). The chain   *)
(* from the last check to a step that pays: what is installed was checked, a *)
(* receipt for it runs out soon after, a worker pays on one that is good for *)
(* a while.                                                                  *)
(*****************************************************************************)

StoredReceipts == [there : BOOLEAN, ours : BOOLEAN, contract : Contracts, issued : Nat,
                   expires : Nat, intact : BOOLEAN]

Expiries == Nat \cup {Receipts!Never}

Workers == [stage : {"idle", "capable", "paying"}, runtime : Expiries, contracts : Expiries,
            since : Expiries]

ReceiptTypes ==
  /\ s1 \in Nat
  /\ s2 \in Contracts
  /\ s3 \in [Receipts!Kinds -> StoredReceipts]
  /\ s4 \in Expiries
  /\ s5 \in Workers

\* The last check is not in the future.
CheckedBefore == s4 <= s1

\* The time after which the last check is too old to be relied on.
LatestExpiry == s4 + Skew + MaxAge

\* A receipt for the installed contract runs out within a receipt's life of the check.
ReceiptIsFresh ==
  s3["contracts"].there /\ s3["contracts"].contract = Installed =>
    s4 # Receipts!Never /\ s3["contracts"].expires <= LatestExpiry

\* So does the capability a worker was given.
CapabilityIsFresh ==
  s5.stage # "idle" =>
    s4 # Receipts!Never /\ s5.contracts \in Nat /\ s5.contracts <= LatestExpiry

\* A worker that pays looked at its capability with enough of it left.
StopsInTime ==
  s5.stage = "paying" =>
    /\ s5.since \in Nat
    /\ s5.since + MinRemaining < s5.contracts
    /\ s1 <= s5.since + Deadline

ReceiptInv == ReceiptTypes /\ CheckedBefore /\ ReceiptIsFresh /\ CapabilityIsFresh /\ StopsInTime

-----------------------------------------------------------------------------

\* What the probe of the contracts calls attested is a plausible receipt for the
\* installed contract that is good for a while yet (probeProviderContractsAttestation).
LEMMA AttestedReceipt ==
  ASSUME Receipts!AttestationAssumption, ReceiptTypes, Receipts!Probe("contracts") = "attested"
  PROVE  /\ s3["contracts"].there
         /\ s3["contracts"].contract = Installed
         /\ s3["contracts"].expires > s1 + MinRemaining
<1> DEFINE r == s3["contracts"]
           limit == s1 + Receipts!Remaining("contracts")
<1>1. limit = s1 + MinRemaining
  BY DEF Receipts!Remaining
<1>2. r.expires \in Nat /\ limit \in Nat
  BY <1>1 DEF ReceiptTypes, StoredReceipts, Receipts!Kinds, Receipts!AttestationAssumption
<1>3. r.expires <= limit \/ r.expires > limit
  BY <1>2
<1>4. CASE ~r.there
  BY <1>4 DEF Receipts!Probe
<1>5. CASE r.there /\ ~Receipts!Plausible(r)
  BY <1>5 DEF Receipts!Probe
<1>6. CASE r.there /\ Receipts!Plausible(r) /\ r.expires <= limit
  <2>1. ~(r.expires > limit)
    BY <1>2, <1>6
  <2>2. Receipts!Probe("contracts") = "expired"
    BY <1>6, <2>1 DEF Receipts!Probe
  <2> QED
    BY <2>2
<1>7. CASE r.there /\ Receipts!Plausible(r) /\ r.expires > limit
  <2>1. ~(r.expires <= limit)
    BY <1>2, <1>7
  <2>2. Receipts!Probe("contracts")
          = IF Receipts!Binds("contracts", r) THEN "attested" ELSE "mismatch"
    BY <1>7, <2>1 DEF Receipts!Probe
  <2> QED
    BY <1>1, <1>7, <2>2 DEF Receipts!Binds
<1> QED
  BY <1>3, <1>4, <1>5, <1>6, <1>7

-----------------------------------------------------------------------------

\* A receipt that a script writes has the stored shape.
LEMMA WrittenReceipt ==
  ASSUME Receipts!AttestationAssumption, ReceiptTypes,
         NEW c \in Contracts, NEW ahead \in 0..Skew, NEW ttl \in Lifetimes
  PROVE  /\ Receipts!Written(c, ahead, ttl) \in StoredReceipts
         /\ Receipts!Written(c, ahead, ttl).contract = c
         /\ Receipts!Written(c, ahead, ttl).expires <= s1 + Skew + MaxAge
<1>1. ahead \in Nat /\ ahead <= Skew /\ ttl \in Nat /\ ttl <= MaxAge
  BY DEF Receipts!AttestationAssumption
<1>2. s1 + ahead \in Nat /\ s1 + ahead + ttl \in Nat
  BY <1>1 DEF ReceiptTypes
<1>3. s1 + ahead + ttl <= s1 + Skew + MaxAge
  BY <1>1 DEF ReceiptTypes, Receipts!AttestationAssumption
<1> QED
  BY <1>2, <1>3 DEF Receipts!Written, StoredReceipts

\* No receipt, no check and an idle worker.
LEMMA ReceiptInit == ASSUME Receipts!AttestationAssumption, Receipts!Init PROVE ReceiptInv
<1>1. ReceiptTypes
  BY DEF Receipts!Init, ReceiptTypes, StoredReceipts, Receipts!NoReceipt, Workers,
      Receipts!Idle, Expiries, Receipts!AttestationAssumption
<1>2. CheckedBefore
  BY DEF Receipts!Init, CheckedBefore, Receipts!Never
<1>3. ReceiptIsFresh /\ CapabilityIsFresh /\ StopsInTime
  BY DEF Receipts!Init, ReceiptIsFresh, CapabilityIsFresh, StopsInTime, Receipts!NoReceipt,
      Receipts!Idle, Receipts!Kinds
<1> QED
  BY <1>1, <1>2, <1>3 DEF ReceiptInv

LEMMA ReceiptStep ==
  ASSUME Receipts!AttestationAssumption, ReceiptInv, [Receipts!Next]_(Receipts!vars)
  PROVE  ReceiptInv'
<1> USE DEF ReceiptInv
<1>1. ASSUME NEW ahead \in 0..Skew, NEW ttl \in Lifetimes, Receipts!AttestRuntime(ahead, ttl)
      PROVE  ReceiptInv'
  <2>1. Receipts!Written(Installed, ahead, ttl) \in StoredReceipts
    BY WrittenReceipt DEF Receipts!AttestationAssumption
  <2>2. s3' \in [Receipts!Kinds -> StoredReceipts] /\ s3'["contracts"] = s3["contracts"]
    BY <1>1, <2>1 DEF Receipts!AttestRuntime, ReceiptTypes, Receipts!Kinds
  <2> QED
    BY <1>1, <2>2
    DEF Receipts!AttestRuntime, ReceiptTypes, CheckedBefore, ReceiptIsFresh, CapabilityIsFresh,
        StopsInTime, LatestExpiry
<1>2. ASSUME NEW ahead \in 0..Skew, NEW ttl \in Lifetimes, Receipts!AttestContracts(ahead, ttl)
      PROVE  ReceiptInv'
  <2> DEFINE w == Receipts!Written(s2, ahead, ttl)
  <2>1. w \in StoredReceipts /\ w.contract = s2 /\ w.expires <= s1 + Skew + MaxAge
    BY WrittenReceipt DEF ReceiptTypes
  <2>2. /\ s3' \in [Receipts!Kinds -> StoredReceipts] /\ s3'["contracts"] = w
        /\ UNCHANGED <<s1, s2, s5>>
    BY <1>2, <2>1 DEF Receipts!AttestContracts, ReceiptTypes, Receipts!Kinds
  <2>3. s4' = IF s2 = Installed THEN s1 ELSE s4
    BY <1>2 DEF Receipts!AttestContracts
  <2> HIDE DEF w
  <2>4. ReceiptTypes' /\ CheckedBefore'
    BY <2>2, <2>3 DEF ReceiptTypes, CheckedBefore, Expiries
  <2>5. ReceiptIsFresh'
    BY <2>1, <2>2, <2>3 DEF ReceiptIsFresh, LatestExpiry, ReceiptTypes, Receipts!Never
  <2>6. s4 # Receipts!Never => s4' # Receipts!Never /\ LatestExpiry <= LatestExpiry'
    BY <2>2, <2>3 DEF ReceiptTypes, CheckedBefore, LatestExpiry, Expiries, Receipts!Never,
        Receipts!AttestationAssumption
  <2>7. CapabilityIsFresh' /\ StopsInTime'
    <3>1. CASE s4 = Receipts!Never
      BY <2>2, <3>1 DEF CapabilityIsFresh, StopsInTime
    <3>2. CASE s4 # Receipts!Never
      <4>1. LatestExpiry \in Int /\ LatestExpiry' \in Int
        BY <2>4 DEF LatestExpiry, ReceiptTypes, Expiries, Receipts!Never,
            Receipts!AttestationAssumption
      <4> QED
        BY <2>2, <2>6, <3>2, <4>1 DEF CapabilityIsFresh, StopsInTime
    <3> QED
      BY <3>1, <3>2
  <2> QED
    BY <2>4, <2>5, <2>7
<1>3. ASSUME NEW k \in Receipts!Kinds, Receipts!Alter(k)
      PROVE  ReceiptInv'
  <2>1. PICK r \in {[s3[k] EXCEPT !.intact = FALSE], [s3[k] EXCEPT !.ours = FALSE]} :
               s3' = [s3 EXCEPT ![k] = r]
    BY <1>3 DEF Receipts!Alter
  <2>2. /\ r \in StoredReceipts /\ r.there = s3[k].there
        /\ r.contract = s3[k].contract /\ r.expires = s3[k].expires
    <3>1. s3[k] \in StoredReceipts
      BY DEF ReceiptTypes
    <3> QED
      BY <2>1, <3>1 DEF StoredReceipts
  <2>3. /\ s3' \in [Receipts!Kinds -> StoredReceipts]
        /\ s3'["contracts"].there = s3["contracts"].there
        /\ s3'["contracts"].contract = s3["contracts"].contract
        /\ s3'["contracts"].expires = s3["contracts"].expires
    BY <2>1, <2>2 DEF ReceiptTypes, Receipts!Kinds
  <2> QED
    BY <1>3, <2>3
    DEF Receipts!Alter, ReceiptTypes, CheckedBefore, ReceiptIsFresh, CapabilityIsFresh,
        StopsInTime, LatestExpiry
<1>4. ASSUME NEW c \in Contracts, Receipts!Drift(c)
      PROVE  ReceiptInv'
  BY <1>4
  DEF Receipts!Drift, ReceiptTypes, CheckedBefore, ReceiptIsFresh, CapabilityIsFresh,
      StopsInTime, LatestExpiry
<1>5. CASE Receipts!StartStep
  <2>1. Receipts!Probe("contracts") = "attested"
    BY <1>5 DEF Receipts!StartStep, Receipts!Kinds
  <2>2. s3["contracts"].there /\ s3["contracts"].contract = Installed
    BY <2>1, AttestedReceipt
  <2>3. s3["contracts"].expires \in Nat /\ s3["runtime"].expires \in Nat
    BY DEF ReceiptTypes, StoredReceipts, Receipts!Kinds
  <2>4. ReceiptTypes'
    BY <1>5, <2>3 DEF Receipts!StartStep, ReceiptTypes, Workers, Expiries
  <2>5. CapabilityIsFresh' /\ StopsInTime'
    BY <1>5, <2>2, <2>3 DEF Receipts!StartStep, ReceiptIsFresh, CapabilityIsFresh, StopsInTime,
        LatestExpiry
  <2> QED
    BY <1>5, <2>4, <2>5 DEF Receipts!StartStep, CheckedBefore, ReceiptIsFresh, LatestExpiry
<1>6. CASE Receipts!SpendCapabilities
  <2>1. /\ s5.stage = "capable" /\ UNCHANGED <<s1, s2, s3, s4>>
        /\ \/ s5' = Receipts!Idle
           \/ /\ s5' = [s5 EXCEPT !.stage = "paying", !.since = s1]
              /\ s5.contracts > s1 + MinRemaining
    BY <1>6 DEF Receipts!SpendCapabilities, Receipts!Spendable, Receipts!Remaining
  <2>2. CASE s5' = Receipts!Idle
    BY <2>1, <2>2
    DEF Receipts!Idle, ReceiptTypes, Workers, Expiries, CheckedBefore, ReceiptIsFresh,
        CapabilityIsFresh, StopsInTime,
        LatestExpiry
  <2>3. CASE /\ s5' = [s5 EXCEPT !.stage = "paying", !.since = s1]
             /\ s5.contracts > s1 + MinRemaining
    <3>1. /\ s5' \in Workers /\ s5'.stage = "paying" /\ s5'.since = s1
          /\ s5'.contracts = s5.contracts
      BY <2>3 DEF ReceiptTypes, Workers, Expiries
    <3>2. ReceiptTypes' /\ CheckedBefore' /\ ReceiptIsFresh' /\ CapabilityIsFresh'
      BY <2>1, <3>1 DEF ReceiptTypes, CheckedBefore, ReceiptIsFresh, CapabilityIsFresh,
          LatestExpiry
    <3>3. s5.contracts \in Nat
      BY <2>1 DEF CapabilityIsFresh
    <3>4. StopsInTime'
      BY <2>1, <2>3, <3>1, <3>3 DEF StopsInTime, ReceiptTypes, Receipts!AttestationAssumption
    <3> QED
      BY <3>2, <3>4
  <2> QED
    BY <2>1, <2>2, <2>3
<1>7. CASE Receipts!FinishStep
  BY <1>7
  DEF Receipts!FinishStep, Receipts!Idle, ReceiptTypes, Workers, Expiries, CheckedBefore,
      ReceiptIsFresh, CapabilityIsFresh,
      StopsInTime, LatestExpiry
<1>8. CASE Receipts!Tick
  <2>1. /\ s1' = s1 + 1 /\ UNCHANGED <<s2, s3, s4>>
        /\ \/ s5' = Receipts!Idle
           \/ s5' = s5 /\ ~(s5.stage = "paying" /\ s1 + 1 > s5.since + Deadline)
    BY <1>8 DEF Receipts!Tick
  <2>2. ReceiptTypes' /\ CheckedBefore' /\ ReceiptIsFresh' /\ CapabilityIsFresh'
    BY <2>1
    DEF Receipts!Idle, ReceiptTypes, Workers, Expiries, Receipts!Never, CheckedBefore,
        ReceiptIsFresh, CapabilityIsFresh, LatestExpiry
  <2>3. StopsInTime'
    BY <2>1 DEF Receipts!Idle, StopsInTime, ReceiptTypes, Receipts!AttestationAssumption
  <2> QED
    BY <2>2, <2>3
<1>9. CASE UNCHANGED Receipts!vars
  BY <1>9
  DEF Receipts!vars, ReceiptTypes, CheckedBefore, ReceiptIsFresh, CapabilityIsFresh,
      StopsInTime, LatestExpiry
<1> QED
  BY <1>1, <1>2, <1>3, <1>4, <1>5, <1>6, <1>7, <1>8, <1>9 DEF Receipts!Next

\* The deadline of the worker comes before the expiry of its capability, and that
\* within a receipt's life of the check.
LEMMA ReceiptChain == ASSUME Receipts!AttestationAssumption, ReceiptInv
                      PROVE  Receipts!PaidContractWasChecked
<1> SUFFICES ASSUME s5.stage = "paying"
             PROVE  s4 # Receipts!Never /\ s1 < s4 + MaxAge + Skew
  BY DEF Receipts!PaidContractWasChecked
<1>1. s4 # Receipts!Never /\ s5.contracts \in Nat /\ s5.contracts <= LatestExpiry
  BY DEF ReceiptInv, CapabilityIsFresh
<1>2. s5.since \in Nat /\ s5.since + MinRemaining < s5.contracts
      /\ s1 <= s5.since + Deadline
  BY DEF ReceiptInv, StopsInTime
<1>3. s1 \in Nat /\ s4 \in Int
  BY DEF ReceiptInv, ReceiptTypes, Expiries, Receipts!Never
<1> QED
  BY <1>1, <1>2, <1>3 DEF LatestExpiry, Receipts!AttestationAssumption


-----------------------------------------------------------------------------
(*****************************************************************************)
(* The probe of the bucket (BucketProbe): what each command relies on, and   *)
(* what a refusal has shown.                                                 *)
(*****************************************************************************)

\* The commands of the probe in their order, and what each of them relies on.
ProbeSteps ==
  {"versioning", "lock", "cors", "upload", "size", "replay", "fence", "confirm", "refence",
   "delete", "versions", "issue", "clean", "over"}

BucketTypes ==
  /\ s1 \in Bucket!Buckets /\ s2 \in {"none", "body", "fence"} /\ s3 \in BOOLEAN
  /\ s4 \in ProbeSteps /\ s5 \in BOOLEAN /\ s8 \in {"none", "issued"} /\ s9 \in Nat

\* The object is where the next command expects it, and stays gone once it is.
ObjectInPlace ==
  /\ s4 = "replay" => s2 = "body"
  /\ s4 = "refence" => s2 = "fence"
  /\ s4 \in {"versions", "issue"} => s5
  /\ s5 => s2 = "none" /\ s4 \in {"versions", "issue", "clean", "over"}

\* What a refused replay has shown is true of the bucket.
RefusalsAreReal ==
  /\ s4 \in {"fence", "confirm", "refence", "delete", "versions", "issue"} => s1.createOnly
  /\ s4 \in {"delete", "versions", "issue"} => s1.overFence
  /\ s4 = "issue" => (s1.lists => ~s3)

\* Nothing is left to be done to the object of a bucket that is attested.
TokenIsFinal ==
  s8 = "issued" =>
    /\ s1.createOnly /\ s1.overFence /\ (s1.lists => ~s3)
    /\ s5 /\ s4 \in {"clean", "over"}

BucketInv ==
  BucketTypes /\ ObjectInPlace /\ RefusalsAreReal /\ TokenIsFinal /\ Bucket!ProbeObjectIsRemoved

LEMMA BucketInit == ASSUME Bucket!Init PROVE BucketInv
<1>1. /\ s1 \in Bucket!Buckets /\ s2 = "none" /\ s3 = FALSE /\ s4 = "versioning"
      /\ s5 = FALSE /\ s8 = "none" /\ s9 = 0
  BY DEF Bucket!Init
<1> QED
  BY <1>1 DEF BucketInv, BucketTypes, ProbeSteps, ObjectInPlace, RefusalsAreReal, TokenIsFinal,
       Bucket!ProbeObjectIsRemoved

\* A PUT with the signed URL: refused, it shows what the bucket does.
LEMMA SignedPuts ==
  ASSUME BucketInv, NEW taken, NEW spurned, Bucket!SignedPut(taken, spurned)
  PROVE  \/ /\ s4' = spurned /\ UNCHANGED <<s2, s3>>
            /\ s2 = "body" => s1.createOnly
            /\ s2 = "fence" => s1.overFence
         \/ s4' = taken /\ s2' = "body" /\ s3' \in BOOLEAN
BY DEF BucketInv, BucketTypes, Bucket!SignedPut, Bucket!Refuses, Bucket!Goto, Bucket!Keeps

\* The commands that only look, and those that write.
LEMMA BucketLooks ==
  ASSUME BucketInv,
         \/ Bucket!CheckVersioning \/ Bucket!CheckLock \/ Bucket!CheckCors \/ Bucket!ConfirmSize
         \/ Bucket!ConfirmFence \/ Bucket!ListVersions \/ Bucket!Issue
  PROVE  BucketInv'
BY DEF BucketInv, BucketTypes, ProbeSteps, ObjectInPlace, RefusalsAreReal, TokenIsFinal,
       Bucket!ProbeObjectIsRemoved, Bucket!CheckVersioning, Bucket!CheckLock, Bucket!CheckCors,
       Bucket!ConfirmSize, Bucket!ConfirmFence, Bucket!ListVersions, Bucket!Issue, Bucket!Goto,
       Bucket!Found

LEMMA BucketWrites ==
  ASSUME BucketInv, Bucket!Upload \/ Bucket!Replay \/ Bucket!Fence \/ Bucket!ReplayOverFence
  PROVE  BucketInv'
<1> USE DEF BucketInv, BucketTypes, ProbeSteps, ObjectInPlace, RefusalsAreReal, TokenIsFinal,
            Bucket!ProbeObjectIsRemoved, Bucket!Found
<1>1. CASE Bucket!Upload
  BY <1>1, SignedPuts DEF Bucket!Upload
<1>2. CASE Bucket!Replay
  BY <1>2, SignedPuts DEF Bucket!Replay
<1>3. CASE Bucket!Fence
  BY <1>3 DEF Bucket!Fence, Bucket!Keeps, Bucket!Goto
<1>4. CASE Bucket!ReplayOverFence
  BY <1>4, SignedPuts DEF Bucket!ReplayOverFence
<1> QED
  BY <1>1, <1>2, <1>3, <1>4

LEMMA BucketRemoves ==
  ASSUME BucketInv, Bucket!Delete \/ Bucket!CleanUp
  PROVE  BucketInv'
<1> USE DEF BucketInv, BucketTypes, ProbeSteps, ObjectInPlace, RefusalsAreReal, TokenIsFinal,
            Bucket!ProbeObjectIsRemoved, Bucket!Found, Bucket!ConditionalDelete, Bucket!Goto
<1>1. CASE Bucket!Delete
  BY <1>1 DEF Bucket!Delete, Bucket!Keeps
<1>2. CASE Bucket!CleanUp
  BY <1>2 DEF Bucket!CleanUp, Bucket!Keeps
<1> QED
  BY <1>1, <1>2

LEMMA BucketFails ==
  ASSUME BucketInv, Bucket!Fault \/ Bucket!SwitchVersioning
  PROVE  BucketInv'
<1>1. CASE Bucket!Fault
  <2>1. /\ s9 \in Nat /\ s9' = s9 + 1 /\ s4 # "over" /\ s4 # "issue"
        /\ s4' = IF s4 = "clean" THEN "over" ELSE "clean"
        /\ UNCHANGED <<s1, s5, s6, s7, s8>>
        /\ s2' \in {"none", "body", "fence"} /\ s3' \in BOOLEAN
        /\ s4 \in {"versions", "issue", "clean", "over"} => UNCHANGED <<s2, s3>>
    BY <1>1 DEF BucketInv, BucketTypes, Bucket!Fault, Bucket!Goto, Bucket!Found, Bucket!Keeps
  <2>2. s9' \in Nat /\ s9' # 0
    BY <2>1
  <2> QED
    BY <2>1, <2>2 DEF BucketInv, BucketTypes, ProbeSteps, ObjectInPlace, RefusalsAreReal,
        TokenIsFinal,
       Bucket!ProbeObjectIsRemoved
<1>2. CASE Bucket!SwitchVersioning
  <2>1. /\ s1' \in Bucket!Buckets
        /\ s1'.createOnly = s1.createOnly /\ s1'.overFence = s1.overFence
        /\ s1'.lists = s1.lists /\ s1'.deletes = s1.deletes
        /\ UNCHANGED <<s2, s3, s4, s5, s6, s7, s8, s9>>
    BY <1>2 DEF BucketInv, BucketTypes, Bucket!SwitchVersioning, Bucket!Buckets, Bucket!Found
  <2> QED
    BY <2>1 DEF BucketInv, BucketTypes, ObjectInPlace, RefusalsAreReal, TokenIsFinal,
       Bucket!ProbeObjectIsRemoved
<1> QED
  BY <1>1, <1>2

LEMMA BucketStep ==
  ASSUME BucketInv, Bucket!Next \/ UNCHANGED <<s1, s2, s3, s4, s5, s6, s7, s8, s9>>
  PROVE  BucketInv'
<1>1. CASE UNCHANGED <<s1, s2, s3, s4, s5, s6, s7, s8, s9>>
  BY <1>1 DEF BucketInv, BucketTypes, ObjectInPlace, RefusalsAreReal, TokenIsFinal,
       Bucket!ProbeObjectIsRemoved
<1> QED
  BY <1>1, BucketLooks, BucketWrites, BucketRemoves, BucketFails DEF Bucket!Next

LEMMA BucketIsClean == BucketInv => Bucket!AttestedBucketIsSafe /\ Bucket!ProbeObjectIsRemoved
BY DEF BucketInv, ObjectInPlace, TokenIsFinal, Bucket!AttestedBucketIsSafe

-----------------------------------------------------------------------------
(*****************************************************************************)
(* The paid campaign (ReleaseCampaign): sums first, as CostLedgerProofs has  *)
(* them, then what the file knows of each case and of the one in hand.       *)
(*****************************************************************************)

\* What a sum over a set is, the terms given as a function.
IsSum(v, f, S) == \E g : Paid!Sums(g, f, S) /\ v = g[S]

FiniteThere(S) == Paid!IsFiniteSet(S) = IsFiniteSet(S)

LEMMA FiniteToo == \A S : FiniteThere(S)
BY DEF FiniteThere, Paid!IsFiniteSet, IsFiniteSet

LEMMA SumIsThere ==
  ASSUME NEW S, IsFiniteSet(S), NEW f, \A x \in S : f[x] \in Nat
  PROVE  \E v \in Nat : IsSum(v, f, S)
<1>1. Paid!IsFiniteSet(S)
  BY FiniteToo DEF FiniteThere
<1>2. PICK g : Paid!Sums(g, f, S)
  BY <1>1, OverchargeAssumed, Paid!SumExists
<1>3. g[S] \in Nat
  BY <1>1, <1>2, OverchargeAssumed, Paid!SumIsNatural
<1> QED
  BY <1>2, <1>3 DEF IsSum

LEMMA SumsAreNatural ==
  ASSUME NEW S, IsFiniteSet(S), NEW f, \A x \in S : f[x] \in Nat, NEW v, IsSum(v, f, S)
  PROVE  v \in Nat
<1>1. Paid!IsFiniteSet(S)
  BY FiniteToo DEF FiniteThere
<1>2. PICK g : Paid!Sums(g, f, S) /\ v = g[S]
  BY DEF IsSum
<1> QED
  BY <1>1, <1>2, OverchargeAssumed, Paid!SumIsNatural

LEMMA SumsCompare ==
  \A S, f, g, h, k :
    /\ Paid!IsFiniteSet(S) /\ Paid!Sums(g, f, S) /\ Paid!Sums(k, h, S)
    /\ \A x \in S : f[x] \in Nat /\ h[x] \in Nat
    => \A s \in SUBSET S : s \subseteq S /\ (\A x \in s : f[x] <= h[x]) => g[s] <= k[s]
<1>1. Paid!LedgerAssumption
  BY OverchargeAssumed
<1> QED
  BY <1>1, Paid!SumsCompare

LEMMA SumsGrow ==
  ASSUME NEW S, IsFiniteSet(S), NEW f, \A x \in S : f[x] \in Nat, NEW v, IsSum(v, f, S),
         NEW h, \A x \in S : h[x] \in Nat, NEW w, IsSum(w, h, S),
         \A x \in S : f[x] <= h[x]
  PROVE  v <= w
<1>1. Paid!IsFiniteSet(S)
  BY FiniteToo DEF FiniteThere
<1>2. PICK g : Paid!Sums(g, f, S) /\ v = g[S]
  BY DEF IsSum
<1>3. PICK k : Paid!Sums(k, h, S) /\ w = k[S]
  BY DEF IsSum
<1>4. S \in SUBSET S
  OBVIOUS
<1> QED
  BY <1>1, <1>2, <1>3, <1>4, SumsCompare

LEMMA SumsAgree ==
  ASSUME NEW S, IsFiniteSet(S), NEW f, \A x \in S : f[x] \in Nat, NEW v, IsSum(v, f, S),
         NEW h, \A x \in S : h[x] = f[x], NEW w, IsSum(w, h, S)
  PROVE  v = w
<1>1. \A x \in S : h[x] \in Nat /\ h[x] <= f[x] /\ f[x] <= h[x]
  OBVIOUS
<1>2. v \in Nat /\ w \in Nat
  BY <1>1, SumsAreNatural
<1>3. v <= w
  BY <1>1, SumsGrow
<1>4. w <= v
  BY <1>1, SumsGrow
<1> QED
  BY <1>2, <1>3, <1>4

LEMMA SumTakesOut ==
  \A S, f, g : /\ Paid!IsFiniteSet(S) /\ Paid!Sums(g, f, S)
               /\ (\A x \in S : f[x] \in Nat)
               => \A y \in S : g[S] = f[y] + g[S \ {y}]
<1>1. Paid!LedgerAssumption
  BY OverchargeAssumed
<1> QED
  BY <1>1, Paid!SumOfRest, SMT

LEMMA SumsOfParts ==
  \A S, f, g : /\ Paid!IsFiniteSet(S) /\ Paid!Sums(g, f, S)
               /\ (\A x \in S : f[x] \in Nat)
               => \A s \in SUBSET S : g[s] \in Nat
<1>1. Paid!LedgerAssumption
  BY OverchargeAssumed
<1> QED
  BY <1>1, Paid!SumIsNatural, SMT

LEMMA SumSplits ==
  ASSUME NEW S, IsFiniteSet(S), NEW f, \A x \in S : f[x] \in Nat, NEW g, Paid!Sums(g, f, S),
         NEW a \in S
  PROVE  g[S] = f[a] + g[S \ {a}] /\ g[S \ {a}] \in Nat
<1>1. Paid!IsFiniteSet(S) /\ S \in SUBSET S /\ S \ {a} \in SUBSET S
  BY FiniteToo DEF FiniteThere
<1>2. g[S] = f[a] + g[S \ {a}]
  BY <1>1, SumTakesOut
<1>3. \A s \in SUBSET S : g[s] \in Nat
  BY <1>1, SumsOfParts
<1> QED
  BY <1>1, <1>2, <1>3

LEMMA PartsGrow ==
  ASSUME NEW S, IsFiniteSet(S), NEW f, \A x \in S : f[x] \in Nat, NEW g, Paid!Sums(g, f, S),
         NEW h, \A x \in S : h[x] \in Nat, NEW k, Paid!Sums(k, h, S),
         NEW T \in SUBSET S, \A x \in T : f[x] <= h[x]
  PROVE  g[T] <= k[T]
<1>1. Paid!IsFiniteSet(S)
  BY FiniteToo DEF FiniteThere
<1>2. \A s \in SUBSET S : s \subseteq S /\ (\A x \in s : f[x] <= h[x]) => g[s] <= k[s]
  BY <1>1, SumsCompare
<1> QED
  BY <1>2

\* One term is another.
LEMMA SumsReplace ==
  ASSUME NEW S, IsFiniteSet(S), NEW f, \A x \in S : f[x] \in Nat, NEW v, IsSum(v, f, S),
         NEW h, \A x \in S : h[x] \in Nat, NEW w, IsSum(w, h, S),
         NEW a \in S, \A x \in S \ {a} : h[x] = f[x]
  PROVE  w = v - f[a] + h[a] /\ v \in Nat /\ w \in Nat
<1>1. PICK g : Paid!Sums(g, f, S) /\ v = g[S]
  BY DEF IsSum
<1>2. PICK k : Paid!Sums(k, h, S) /\ w = k[S]
  BY DEF IsSum
<1> DEFINE rest == S \ {a}
<1>3. v = f[a] + g[rest] /\ g[rest] \in Nat
  BY <1>1, SumSplits
<1>4. w = h[a] + k[rest] /\ k[rest] \in Nat
  BY <1>2, SumSplits
<1>5. rest \in SUBSET S /\ \A x \in rest : f[x] <= h[x] /\ h[x] <= f[x]
  OBVIOUS
<1> HIDE DEF rest
<1>6. g[rest] <= k[rest]
  BY <1>1, <1>2, <1>5, PartsGrow
<1>7. k[rest] <= g[rest]
  BY <1>1, <1>2, <1>5, PartsGrow
<1> QED
  BY <1>3, <1>4, <1>6, <1>7

\* The sums of the campaign: what the service has debited, what a file has spent and reported.
DebitOf(held) == Campaign!MapThenSumSet(LAMBDA k : held[k].cost, Campaign!Keys)
SpentOf(runs) == Campaign!MapThenSumSet(LAMBDA c : runs[c].cost, Cases)
ReportedOf(runs) == Campaign!MapThenSumSet(LAMBDA c : runs[c].reported, Cases)
Debits(held) == [k \in Campaign!Keys |-> held[k].cost]
Costs(runs) == [c \in Cases |-> runs[c].cost]
Reports(runs) == [c \in Cases |-> runs[c].reported]

LEMMA DebitIsSum ==
  ASSUME NEW held, IsFiniteSet(Campaign!Keys), \A k \in Campaign!Keys : held[k].cost \in Nat
  PROVE  IsSum(DebitOf(held), Debits(held), Campaign!Keys)
<1> DEFINE S == Campaign!Keys
<1> USE DEF Paid!Pick
<1>1. Paid!IsFiniteSet(S) /\ \A k \in S : Debits(held)[k] = held[k].cost
  BY FiniteToo DEF FiniteThere, Debits
<1> HIDE DEF S
<1>2. PICK g : Paid!Sums(g, Debits(held), S)
  BY <1>1, OverchargeAssumed, Paid!SumExists DEF S
<1>3. g = [s \in SUBSET S |-> IF s = {} THEN 0
                              ELSE held[Paid!Pick(s)].cost + g[s \ {Paid!Pick(s)}]]
  <2>1. \A s \in SUBSET S : s # {} => Paid!Pick(s) \in S
    OBVIOUS
  <2> QED
    BY <1>1, <1>2, <2>1 DEF OverchargeAssumed, Paid!Sums
<1>4. \E h : /\ h = [s \in SUBSET S |-> IF s = {} THEN 0
                                        ELSE held[Paid!Pick(s)].cost + h[s \ {Paid!Pick(s)}]]
             /\ DebitOf(held) = h[S]
  BY <1>3 DEF DebitOf, Campaign!MapThenSumSet, Campaign!MapThenFoldSet, S
<1>5. PICK h : /\ h = [s \in SUBSET S |-> IF s = {} THEN 0
                                        ELSE held[Paid!Pick(s)].cost + h[s \ {Paid!Pick(s)}]]
               /\ DebitOf(held) = h[S]
  BY <1>4
<1>6. Paid!Sums(h, Debits(held), S)
  <2>1. \A s \in SUBSET S : s # {} => Paid!Pick(s) \in S
    OBVIOUS
  <2> QED
    BY <1>1, <1>5, <2>1 DEF OverchargeAssumed, Paid!Sums
<1> QED
  BY <1>5, <1>6 DEF IsSum, S

LEMMA SpentIsSum ==
  ASSUME NEW runs, IsFiniteSet(Cases), \A c \in Cases : runs[c].cost \in Nat
  PROVE  IsSum(SpentOf(runs), Costs(runs), Cases)
<1> DEFINE S == Cases
<1> USE DEF Paid!Pick
<1>1. Paid!IsFiniteSet(S) /\ \A c \in S : Costs(runs)[c] = runs[c].cost
  BY FiniteToo DEF FiniteThere, Costs
<1> HIDE DEF S
<1>2. PICK g : Paid!Sums(g, Costs(runs), S)
  BY <1>1, OverchargeAssumed, Paid!SumExists DEF S
<1>3. g = [s \in SUBSET S |-> IF s = {} THEN 0
                              ELSE runs[Paid!Pick(s)].cost + g[s \ {Paid!Pick(s)}]]
  <2>1. \A s \in SUBSET S : s # {} => Paid!Pick(s) \in S
    OBVIOUS
  <2> QED
    BY <1>1, <1>2, <2>1 DEF OverchargeAssumed, Paid!Sums
<1>4. \E h : /\ h = [s \in SUBSET S |-> IF s = {} THEN 0
                                        ELSE runs[Paid!Pick(s)].cost + h[s \ {Paid!Pick(s)}]]
             /\ SpentOf(runs) = h[S]
  BY <1>3 DEF SpentOf, Campaign!MapThenSumSet, Campaign!MapThenFoldSet, S
<1>5. PICK h : /\ h = [s \in SUBSET S |-> IF s = {} THEN 0
                                        ELSE runs[Paid!Pick(s)].cost + h[s \ {Paid!Pick(s)}]]
               /\ SpentOf(runs) = h[S]
  BY <1>4
<1>6. Paid!Sums(h, Costs(runs), S)
  <2>1. \A s \in SUBSET S : s # {} => Paid!Pick(s) \in S
    OBVIOUS
  <2> QED
    BY <1>1, <1>5, <2>1 DEF OverchargeAssumed, Paid!Sums
<1> QED
  BY <1>5, <1>6 DEF IsSum, S

LEMMA ReportedIsSum ==
  ASSUME NEW runs, IsFiniteSet(Cases), \A c \in Cases : runs[c].reported \in Nat
  PROVE  IsSum(ReportedOf(runs), Reports(runs), Cases)
<1> DEFINE S == Cases
<1> USE DEF Paid!Pick
<1>1. Paid!IsFiniteSet(S) /\ \A c \in S : Reports(runs)[c] = runs[c].reported
  BY FiniteToo DEF FiniteThere, Reports
<1> HIDE DEF S
<1>2. PICK g : Paid!Sums(g, Reports(runs), S)
  BY <1>1, OverchargeAssumed, Paid!SumExists DEF S
<1>3. g = [s \in SUBSET S |-> IF s = {} THEN 0
                              ELSE runs[Paid!Pick(s)].reported + g[s \ {Paid!Pick(s)}]]
  <2>1. \A s \in SUBSET S : s # {} => Paid!Pick(s) \in S
    OBVIOUS
  <2> QED
    BY <1>1, <1>2, <2>1 DEF OverchargeAssumed, Paid!Sums
<1>4. \E h : /\ h = [s \in SUBSET S |-> IF s = {} THEN 0
                                        ELSE runs[Paid!Pick(s)].reported + h[s \ {Paid!Pick(s)}]]
             /\ ReportedOf(runs) = h[S]
  BY <1>3 DEF ReportedOf, Campaign!MapThenSumSet, Campaign!MapThenFoldSet, S
<1>5. PICK h : /\ h = [s \in SUBSET S |-> IF s = {} THEN 0
                                        ELSE runs[Paid!Pick(s)].reported + h[s \ {Paid!Pick(s)}]]
               /\ ReportedOf(runs) = h[S]
  BY <1>4
<1>6. Paid!Sums(h, Reports(runs), S)
  <2>1. \A s \in SUBSET S : s # {} => Paid!Pick(s) \in S
    OBVIOUS
  <2> QED
    BY <1>1, <1>5, <2>1 DEF OverchargeAssumed, Paid!Sums
<1> QED
  BY <1>5, <1>6 DEF IsSum, S
CampaignLabels ==
  {"idle", "preflight", "merge", "gate", "cases", "create", "poll", "checks", "sources",
   "golden", "question", "cleanup", "record", "failing"}
Driving == {"poll", "checks", "sources", "golden", "question"}
Hand == {"create", "cleanup", "record"} \cup Driving
CampaignRuns == [status : {"none", "running", "ready", "failed", "deleted"}, cost : 0..Cap]
CampaignAttempts ==
  [made : BOOLEAN, passed : BOOLEAN, complete : BOOLEAN, removed : BOOLEAN,
   cost : 0..Cap, reported : 0..Cap]
CampaignFiles ==
  [runs : [Cases -> CampaignAttempts], before : Int, reconciled : BOOLEAN,
   verdict : {"absent", "incomplete", "paid_gate_closed", "pass", "fail"}]

\* The keys a case has in a service, and what it costs.
HeldOf(held, c) == {k \in Campaign!Keys : k[1] = c /\ held[k] # Campaign!NoRun}
CostIn(held, c) ==
  IF HeldOf(held, c) = {} THEN 0 ELSE held[CHOOSE k \in HeldOf(held, c) : TRUE].cost
CostsIn(held) == [c \in Cases |-> CostIn(held, c)]

CampaignTypes ==
  /\ s1 \in CampaignLabels /\ s2 \in CampaignFiles /\ s3 \in CampaignFiles
  /\ s4 \in 0..MaxInvocations /\ s7 \in Cases /\ s9 \in BOOLEAN /\ s10 \in CampaignAttempts
  /\ s11 \in [Campaign!Keys -> CampaignRuns]

\* What an invocation has in memory is in the file, but for a case it failed to book.
MemoryIsKept ==
  /\ s1 \in {"preflight", "merge"} => s2 = Campaign!Fresh
  /\ s1 \in {"gate", "cases"} \cup Hand => s2.runs = s3.runs
  /\ s1 = "failing" =>
       /\ \A c \in Cases : \/ s2.runs[c] = s3.runs[c]
                           \/ ~s3.runs[c].made /\ s2.runs[c] = Campaign!Attempt
       /\ SpentOf(s2.runs) <= Budget
  /\ s1 # "idle" => s2.verdict = "incomplete"
  /\ SpentOf(s3.runs) <= Budget
  /\ s3.verdict = "pass" => \A c \in Cases : Campaign!Completed(s3.runs[c])

Earned(held, c) ==
  \E k \in Campaign!Keys : HeldOf(held, c) = {k} /\ held[k].status = "deleted"

\* A run is on record, one for each case, and without a complete ledger the file has no
\* less than it cost.
CaseIsKept(held, run, c) ==
  /\ ~run.made => HeldOf(held, c) = {} /\ run = Campaign!NoAttempt
  /\ \A k, l \in HeldOf(held, c) : k = l
  /\ ~run.complete => CostIn(held, c) <= run.cost
  /\ Campaign!Completed(run) => Earned(held, c)

KeyOf(c, n) == <<c, IF c \in Signed THEN n ELSE 0>>

\* The case in hand has one key, and what was found of it is so.
CaseInHand ==
  s1 \in Hand =>
    /\ HeldOf(s11, s7) \subseteq {KeyOf(s7, s4)}
    /\ s3.runs[s7] = Campaign!Attempt
    /\ s10.made /\ (~s10.complete => s10.cost = Cap)
    /\ s1 = "create" => s10 = Campaign!Attempt
    /\ s1 \in Driving => s9
    /\ s10.passed => s9
    /\ s1 = "record" /\ s10.passed /\ s10.removed => s11[KeyOf(s7, s4)].status = "deleted"

CampaignInv ==
  /\ CampaignTypes /\ MemoryIsKept /\ CaseInHand
  /\ \A c \in Cases : CaseIsKept(s11, s3.runs[c], c)
  /\ IsSum(DebitOf(s11), CostsIn(s11), Cases)

LEMMA CampaignConstants ==
  ASSUME Campaign!CampaignAssumption
  PROVE  /\ IsFiniteSet(Cases) /\ IsFiniteSet(Campaign!Keys)
         /\ Cap \in Nat \ {0} /\ Budget \in Nat /\ MaxInvocations \in Nat
         /\ Order[1] \in Cases
         /\ \A i \in DOMAIN Order : i \in Nat \ {0} /\ Order[i] \in Cases
<1>1. /\ Order \in Seq(Cases) /\ Order # <<>> /\ Cases = {Order[i] : i \in DOMAIN Order}
      /\ Cap \in Nat \ {0} /\ Budget \in Nat /\ MaxInvocations \in Nat
  BY DEF Campaign!CampaignAssumption
<1>2. DOMAIN Order = 1..Len(Order) /\ Len(Order) \in Nat \ {0}
  BY <1>1
<1>3. IsFiniteSet(1..Len(Order))
  BY <1>2, FS_Interval
<1>4. IsFiniteSet(Cases)
  <2>1. Order \in Surjection(1..Len(Order), Cases)
    BY <1>1, <1>2 DEF Surjection
  <2> QED
    BY <1>3, <2>1, FS_Surjection
<1>5. IsFiniteSet(0..MaxInvocations)
  BY <1>1, FS_Interval
<1>6. IsFiniteSet(Campaign!Keys)
  BY <1>4, <1>5, FS_Product DEF Campaign!Keys
<1> QED
  BY <1>1, <1>2, <1>4, <1>6

LEMMA DebitInState == Campaign!Debit = DebitOf(s11)
BY DEF Campaign!Debit, DebitOf, Campaign!MapThenSumSet, Campaign!MapThenFoldSet

LEMMA SpentInState ==
  \A m : Campaign!Spent(m) = SpentOf(m.runs) /\ Campaign!Reported(m) = ReportedOf(m.runs)
<1> TAKE m
<1>1. Campaign!Spent(m) = SpentOf(m.runs)
  BY DEF Campaign!Spent, SpentOf, Campaign!MapThenSumSet, Campaign!MapThenFoldSet
<1>2. Campaign!Reported(m) = ReportedOf(m.runs)
  BY DEF Campaign!Reported, ReportedOf, Campaign!MapThenSumSet, Campaign!MapThenFoldSet
<1> QED
  BY <1>1, <1>2

LEMMA HeldInState == \A c : Campaign!RunsOf(c) = HeldOf(s11, c)
BY DEF Campaign!RunsOf, HeldOf

LEMMA RunFields ==
  ASSUME Campaign!CampaignAssumption
  PROVE  /\ \A r \in CampaignRuns : r.cost \in 0..Cap /\ r.cost \in Nat
         /\ Campaign!NoRun \in CampaignRuns
         /\ Campaign!NoRun.cost = 0 /\ Campaign!NoRun.status = "none"
BY CampaignConstants DEF CampaignRuns, Campaign!NoRun

\* A case whose only key is k costs what the run of k costs.
LEMMA CostOfKey ==
  ASSUME Campaign!CampaignAssumption, NEW held \in [Campaign!Keys -> CampaignRuns],
         NEW c \in Cases, NEW k \in Campaign!Keys, k[1] = c, HeldOf(held, c) \subseteq {k}
  PROVE  CostIn(held, c) = held[k].cost
<1>1. CASE held[k] = Campaign!NoRun
  <2>1. HeldOf(held, c) = {}
    BY <1>1 DEF HeldOf
  <2> QED
    BY <1>1, <2>1, RunFields DEF CostIn
<1>2. CASE held[k] # Campaign!NoRun
  <2>1. HeldOf(held, c) = {k}
    BY <1>2 DEF HeldOf
  <2>2. (CHOOSE l \in HeldOf(held, c) : TRUE) = k
    BY <2>1
  <2> QED
    BY <2>1, <2>2 DEF CostIn
<1> QED
  BY <1>1, <1>2

LEMMA CostsAreNatural ==
  ASSUME Campaign!CampaignAssumption, NEW held \in [Campaign!Keys -> CampaignRuns], NEW c \in Cases
  PROVE  CostIn(held, c) \in 0..Cap /\ CostIn(held, c) \in Nat
<1>1. CASE HeldOf(held, c) = {}
  BY <1>1, CampaignConstants DEF CostIn
<1>2. CASE HeldOf(held, c) # {}
  <2>1. (CHOOSE k \in HeldOf(held, c) : TRUE) \in Campaign!Keys
    BY <1>2 DEF HeldOf
  <2> QED
    BY <1>2, <2>1, RunFields DEF CostIn
<1> QED
  BY <1>1, <1>2

\* The debit is the sum of what the cases cost, as long as runs change at a key that is the
\* only one of its case.
LEMMA DebitFollows ==
  ASSUME Campaign!CampaignAssumption, NEW held \in [Campaign!Keys -> CampaignRuns],
         NEW new \in [Campaign!Keys -> CampaignRuns], IsSum(DebitOf(held), CostsIn(held), Cases),
         NEW k \in Campaign!Keys, k[1] \in Cases,
         \A l \in Campaign!Keys \ {k} : new[l] = held[l],
         HeldOf(held, k[1]) \subseteq {k}
  PROVE  /\ IsSum(DebitOf(new), CostsIn(new), Cases)
         /\ HeldOf(new, k[1]) \subseteq {k} /\ CostIn(new, k[1]) = new[k].cost
         /\ \A c \in Cases \ {k[1]} : /\ HeldOf(new, c) = HeldOf(held, c)
                                      /\ CostIn(new, c) = CostIn(held, c)
<1>1. HeldOf(new, k[1]) \subseteq {k}
  BY DEF HeldOf
<1>2. CostIn(new, k[1]) = new[k].cost /\ CostIn(held, k[1]) = held[k].cost
  BY <1>1, CostOfKey
<1>3. ASSUME NEW c \in Cases \ {k[1]}
      PROVE  HeldOf(new, c) = HeldOf(held, c) /\ CostIn(new, c) = CostIn(held, c)
  <2>1. \A l \in Campaign!Keys : l[1] = c => new[l] = held[l]
    BY <1>3
  <2>2. HeldOf(new, c) = HeldOf(held, c)
    BY <2>1 DEF HeldOf
  <2>3. CASE HeldOf(held, c) = {}
    BY <2>2, <2>3 DEF CostIn
  <2>4. CASE HeldOf(held, c) # {}
    <3> DEFINE l == CHOOSE l \in HeldOf(held, c) : TRUE
    <3>1. l \in HeldOf(held, c)
      BY <2>4
    <3>2. new[l] = held[l]
      BY <2>1, <3>1 DEF HeldOf
    <3> QED
      BY <2>2, <2>4, <3>2 DEF CostIn
  <2> QED
    BY <2>2, <2>3, <2>4
<1>4. /\ IsFiniteSet(Cases) /\ IsFiniteSet(Campaign!Keys)
      /\ \A l \in Campaign!Keys : /\ held[l].cost \in Nat /\ new[l].cost \in Nat
                                  /\ Debits(held)[l] = held[l].cost
                                  /\ Debits(new)[l] = new[l].cost
  BY CampaignConstants, RunFields DEF Debits
<1>5. \A c \in Cases : /\ CostsIn(held)[c] = CostIn(held, c) /\ CostsIn(new)[c] = CostIn(new, c)
                       /\ CostIn(held, c) \in Nat /\ CostIn(new, c) \in Nat
  BY CostsAreNatural DEF CostsIn
<1>6. IsSum(DebitOf(held), Debits(held), Campaign!Keys)
  BY <1>4, DebitIsSum
<1>7. IsSum(DebitOf(new), Debits(new), Campaign!Keys)
  BY <1>4, DebitIsSum
<1>8. DebitOf(new) = DebitOf(held) - held[k].cost + new[k].cost
  <2>1. \A l \in Campaign!Keys : Debits(held)[l] \in Nat /\ Debits(new)[l] \in Nat
    BY <1>4
  <2>2. \A l \in Campaign!Keys \ {k} : Debits(new)[l] = Debits(held)[l]
    BY <1>4
  <2>3. DebitOf(new) = DebitOf(held) - Debits(held)[k] + Debits(new)[k]
    BY <1>4, <1>6, <1>7, <2>1, <2>2, SumsReplace
  <2> QED
    BY <1>4, <2>3
<1>9. PICK v \in Nat : IsSum(v, CostsIn(new), Cases)
  BY <1>4, <1>5, SumIsThere
<1>10. v = DebitOf(held) - held[k].cost + new[k].cost
  <2>1. \A c \in Cases : CostsIn(held)[c] \in Nat /\ CostsIn(new)[c] \in Nat
    BY <1>5
  <2>2. \A c \in Cases \ {k[1]} : CostsIn(new)[c] = CostsIn(held)[c]
    BY <1>3, <1>5
  <2>3. v = DebitOf(held) - CostsIn(held)[k[1]] + CostsIn(new)[k[1]]
    BY <1>4, <1>9, <2>1, <2>2, SumsReplace
  <2> QED
    BY <1>2, <1>5, <2>3
<1>11. v = DebitOf(new)
  BY <1>8, <1>10
<1> QED
  BY <1>1, <1>2, <1>3, <1>9, <1>11

LEMMA CampaignValues ==
  ASSUME Campaign!CampaignAssumption
  PROVE  /\ Campaign!Attempt \in CampaignAttempts /\ Campaign!NoAttempt \in CampaignAttempts
         /\ Campaign!Attempt.cost = Cap /\ Campaign!NoAttempt.cost = 0
         /\ Campaign!Attempt.made /\ ~Campaign!NoAttempt.made
         /\ ~Campaign!Completed(Campaign!Attempt) /\ ~Campaign!Completed(Campaign!NoAttempt)
         /\ Campaign!Fresh \in CampaignFiles /\ Campaign!NoFile \in CampaignFiles
         /\ Campaign!NoFile.runs = Campaign!Fresh.runs
         /\ Campaign!Fresh.verdict = "incomplete" /\ Campaign!NoFile.verdict = "absent"
         /\ \A c \in Cases : Campaign!Fresh.runs[c] = Campaign!NoAttempt
<1>1. Cap \in 0..Cap /\ 0 \in 0..Cap
  BY CampaignConstants
<1>2. /\ Campaign!Attempt \in CampaignAttempts /\ Campaign!NoAttempt \in CampaignAttempts
      /\ Campaign!Attempt.cost = Cap /\ Campaign!NoAttempt.cost = 0
      /\ Campaign!Attempt.made /\ ~Campaign!NoAttempt.made
      /\ ~Campaign!Attempt.passed /\ ~Campaign!NoAttempt.passed
  BY <1>1 DEF Campaign!Attempt, Campaign!NoAttempt, CampaignAttempts
<1>3. Campaign!Unread \in Int
  BY DEF Campaign!Unread
<1>4. /\ Campaign!Fresh \in CampaignFiles /\ Campaign!NoFile \in CampaignFiles
      /\ Campaign!NoFile.runs = Campaign!Fresh.runs
      /\ Campaign!Fresh.verdict = "incomplete" /\ Campaign!NoFile.verdict = "absent"
      /\ \A c \in Cases : Campaign!Fresh.runs[c] = Campaign!NoAttempt
  BY <1>2, <1>3 DEF Campaign!Fresh, Campaign!NoFile, CampaignFiles
<1> QED
  BY <1>2, <1>4 DEF Campaign!Completed

\* Of an attempt in a file, and of a file in which one is replaced.
LEMMA AttemptFields ==
  ASSUME Campaign!CampaignAssumption, NEW a \in CampaignAttempts
  PROVE  /\ a.cost \in 0..Cap /\ a.cost \in Nat /\ a.reported \in 0..Cap /\ a.reported \in Nat
         /\ a.made \in BOOLEAN /\ a.passed \in BOOLEAN /\ a.complete \in BOOLEAN
         /\ a.removed \in BOOLEAN
BY CampaignConstants DEF CampaignAttempts

LEMMA FileFields ==
  ASSUME NEW m \in CampaignFiles
  PROVE  /\ m.runs \in [Cases -> CampaignAttempts] /\ m.before \in Int
         /\ m.reconciled \in BOOLEAN
         /\ m.verdict \in {"absent", "incomplete", "paid_gate_closed", "pass", "fail"}
BY DEF CampaignFiles

LEMMA CaseIsSet ==
  ASSUME NEW m \in CampaignFiles, NEW c \in Cases, NEW a \in CampaignAttempts
  PROVE  /\ [m EXCEPT !.runs[c] = a] \in CampaignFiles
         /\ [m EXCEPT !.runs[c] = a].runs = [m.runs EXCEPT ![c] = a]
         /\ [m EXCEPT !.runs[c] = a].verdict = m.verdict
<1>1. [m.runs EXCEPT ![c] = a] \in [Cases -> CampaignAttempts]
  BY FileFields
<1>2. [m EXCEPT !.runs[c] = a] = [m EXCEPT !.runs = [m.runs EXCEPT ![c] = a]]
  BY DEF CampaignFiles
<1> DEFINE r == [m.runs EXCEPT ![c] = a]
<1> HIDE DEF r
<1>3. [m EXCEPT !.runs = r] \in CampaignFiles /\ [m EXCEPT !.runs = r].runs = r
      /\ [m EXCEPT !.runs = r].verdict = m.verdict
  BY <1>1 DEF CampaignFiles, r
<1> QED
  BY <1>2, <1>3 DEF r

\* What a file with one attempt replaced has spent.
LEMMA SpentFollows ==
  ASSUME Campaign!CampaignAssumption, NEW runs \in [Cases -> CampaignAttempts],
         NEW c \in Cases, NEW a \in CampaignAttempts
  PROVE  /\ SpentOf([runs EXCEPT ![c] = a]) = SpentOf(runs) - runs[c].cost + a.cost
         /\ SpentOf(runs) \in Nat
<1> DEFINE then == [runs EXCEPT ![c] = a]
<1>1. \A d \in Cases : runs[d] \in CampaignAttempts /\ then[d] \in CampaignAttempts
  OBVIOUS
<1>2. then[c] = a /\ \A d \in Cases \ {c} : then[d] = runs[d]
  OBVIOUS
<1> HIDE DEF then
<1>3. \A d \in Cases : runs[d].cost \in Nat /\ then[d].cost \in Nat
  BY <1>1, AttemptFields
<1>4. /\ \A d \in Cases : Costs(runs)[d] \in Nat /\ Costs(then)[d] \in Nat
      /\ \A d \in Cases \ {c} : Costs(then)[d] = Costs(runs)[d]
      /\ Costs(runs)[c] = runs[c].cost /\ Costs(then)[c] = a.cost
  BY <1>2, <1>3 DEF Costs
<1>5. IsSum(SpentOf(runs), Costs(runs), Cases) /\ IsSum(SpentOf(then), Costs(then), Cases)
  BY <1>3, CampaignConstants, SpentIsSum
<1>6. SpentOf(then) = SpentOf(runs) - Costs(runs)[c] + Costs(then)[c] /\ SpentOf(runs) \in Nat
  BY <1>4, <1>5, CampaignConstants, SumsReplace
<1> QED
  BY <1>4, <1>6 DEF then

\* Terms that are all zero.
LEMMA SetsGrowUp ==
  \A S, G : /\ Paid!IsFiniteSet(S)
            /\ \A s \in SUBSET S : (\A x \in s : s \ {x} \in G) => s \in G
            => SUBSET S \subseteq G
<1>1. Paid!LedgerAssumption
  BY OverchargeAssumed
<1> QED
  BY <1>1, Paid!SetInduction, Zenon

LEMMA SumTerms ==
  \A S, f, g : Paid!Sums(g, f, S) => \A s \in SUBSET S :
     /\ s = {} => g[s] = 0
     /\ s # {} => /\ Paid!Pick(s) \in s /\ s \ {Paid!Pick(s)} \in SUBSET S
                  /\ g[s] = f[Paid!Pick(s)] + g[s \ {Paid!Pick(s)}]
<1> TAKE S, f, g
<1> HAVE Paid!Sums(g, f, S)
<1> TAKE s \in SUBSET S
<1>1. g[s] = IF s = {} THEN 0 ELSE f[Paid!Pick(s)] + g[s \ {Paid!Pick(s)}]
  BY DEF Paid!Sums
<1>2. s # {} => Paid!Pick(s) \in s
  BY DEF Paid!Pick
<1> QED
  BY <1>1, <1>2

LEMMA ZeroSums ==
  ASSUME NEW S, IsFiniteSet(S), NEW f, \A x \in S : f[x] = 0, NEW v, IsSum(v, f, S)
  PROVE  v = 0
<1>1. PICK g : Paid!Sums(g, f, S) /\ v = g[S]
  BY DEF IsSum
<1> DEFINE G == {s \in SUBSET S : g[s] = 0}
<1>2. ASSUME NEW s \in SUBSET S, \A x \in s : s \ {x} \in G
      PROVE  s \in G
  <2>1. CASE s = {}
    <3>1. g[s] = 0
      BY <1>1, <2>1, SumTerms
    <3> QED
      BY <3>1
  <2>2. CASE s # {}
    <3>1. Paid!Pick(s) \in s /\ g[s] = f[Paid!Pick(s)] + g[s \ {Paid!Pick(s)}]
      BY <1>1, <2>2, SumTerms
    <3>2. f[Paid!Pick(s)] = 0 /\ s \ {Paid!Pick(s)} \in G
      BY <1>2, <3>1
    <3>3. g[s \ {Paid!Pick(s)}] = 0
      BY <3>2
    <3> QED
      BY <3>1, <3>2, <3>3
  <2> QED
    BY <2>1, <2>2
<1>3. Paid!IsFiniteSet(S)
  BY FiniteToo DEF FiniteThere
<1> HIDE DEF G
<1>4. SUBSET S \subseteq G
  BY <1>2, <1>3, SetsGrowUp
<1> QED
  BY <1>1, <1>4 DEF G

\* Nobody has spent anything yet.
LEMMA NothingSpent ==
  ASSUME Campaign!CampaignAssumption, NEW runs, \A c \in Cases : runs[c] = Campaign!NoAttempt
  PROVE  SpentOf(runs) <= Budget
<1>1. \A c \in Cases : runs[c].cost = 0 /\ Costs(runs)[c] = 0
  BY CampaignValues DEF Costs
<1>2. IsFiniteSet(Cases) /\ Budget \in Nat
  BY CampaignConstants
<1>3. IsSum(SpentOf(runs), Costs(runs), Cases)
  BY <1>1, <1>2, SpentIsSum
<1>4. SpentOf(runs) = 0
  BY <1>1, <1>2, <1>3, ZeroSums
<1> QED
  BY <1>2, <1>4

\* The campaign before its first invocation.
LEMMA CampaignStarts ==
  ASSUME Campaign!CampaignAssumption, Campaign!Init
  PROVE  CampaignInv
<1>1. /\ s1 = "idle" /\ s2 = Campaign!Fresh /\ s3 = Campaign!NoFile /\ s4 = 0
      /\ s7 = Order[1] /\ s9 = FALSE /\ s10 = Campaign!Attempt
      /\ s11 = [k \in Campaign!Keys |-> Campaign!NoRun]
  BY DEF Campaign!Init
<1>2. CampaignTypes
  <2>1. s11 \in [Campaign!Keys -> CampaignRuns]
    BY <1>1, RunFields
  <2>2. s1 \in CampaignLabels
    BY <1>1 DEF CampaignLabels
  <2>3. s2 \in CampaignFiles /\ s3 \in CampaignFiles /\ s10 \in CampaignAttempts
    BY <1>1, CampaignValues
  <2>4. s7 \in Cases
    BY <1>1, CampaignConstants
  <2>5. s9 \in BOOLEAN
    BY <1>1
  <2>6. MaxInvocations \in Nat
    BY CampaignConstants
  <2>7. s4 \in 0..MaxInvocations
    BY <1>1, <2>6
  <2> QED
    BY <2>1, <2>2, <2>3, <2>4, <2>5, <2>7 DEF CampaignTypes
<1>3. \A c \in Cases : s3.runs[c] = Campaign!NoAttempt
  BY <1>1, CampaignValues
<1>4. MemoryIsKept
  <2>1. SpentOf(s3.runs) <= Budget
    BY <1>3, NothingSpent
  <2>2. s3.verdict # "pass"
    BY <1>1, CampaignValues
  <2> QED
    BY <1>1, <2>1, <2>2 DEF MemoryIsKept, Hand, Driving
<1>5. \A c \in Cases : HeldOf(s11, c) = {} /\ CostIn(s11, c) = 0
  <2>1. \A c \in Cases : HeldOf(s11, c) = {}
    BY <1>1 DEF HeldOf
  <2> QED
    BY <2>1 DEF CostIn
<1>6. \A c \in Cases : CaseIsKept(s11, s3.runs[c], c)
  BY <1>3, <1>5, CampaignValues DEF CaseIsKept
<1>7. CaseInHand
  BY <1>1 DEF CaseInHand, Hand, Driving
<1>8. IsSum(DebitOf(s11), CostsIn(s11), Cases)
  <2>1. IsFiniteSet(Cases) /\ IsFiniteSet(Campaign!Keys)
    BY CampaignConstants
  <2>2. \A k \in Campaign!Keys : s11[k].cost = 0 /\ Debits(s11)[k] = 0
    BY <1>1, RunFields DEF Debits
  <2>3. IsSum(DebitOf(s11), Debits(s11), Campaign!Keys)
    BY <2>1, <2>2, DebitIsSum
  <2>4. DebitOf(s11) = 0
    BY <2>1, <2>2, <2>3, ZeroSums
  <2>5. \A c \in Cases : CostsIn(s11)[c] = 0
    BY <1>5 DEF CostsIn
  <2>6. PICK v \in Nat : IsSum(v, CostsIn(s11), Cases)
    BY <2>1, <2>5, SumIsThere
  <2>7. v = 0
    BY <2>1, <2>5, <2>6, ZeroSums
  <2> QED
    BY <2>4, <2>6, <2>7
<1> QED
  BY <1>2, <1>4, <1>6, <1>7, <1>8 DEF CampaignInv

\* A step of the invocation: the service stays as it is, and what becomes of a case in the
\* file is true of its runs.
LEMMA InvocationKeeps ==
  ASSUME CampaignInv, CampaignTypes', MemoryIsKept', CaseInHand', s11' = s11,
         \A c \in Cases : s3'.runs[c] = s3.runs[c] \/ CaseIsKept(s11, s3'.runs[c], c)
  PROVE  CampaignInv'
<1>1. \A c \in Cases : CaseIsKept(s11', s3'.runs[c], c)
  BY DEF CampaignInv
<1>2. IsSum(DebitOf(s11'), CostsIn(s11'), Cases)
  BY DEF CampaignInv
<1> QED
  BY <1>1, <1>2 DEF CampaignInv

\* Only the label of the invocation changes, or what it found.
LEMMA MemoryStays ==
  ASSUME MemoryIsKept, s2' = s2, s3' = s3,
         s1 \in {"gate", "cases"} \cup Hand,
         s1' \in {"cases", "failing", "idle"} \cup Hand
  PROVE  MemoryIsKept'
<1>1. s1' \notin {"preflight", "merge"} /\ s1 # "idle"
  BY DEF Hand, Driving
<1>2. s2.runs = s3.runs /\ SpentOf(s2.runs) <= Budget /\ s2.verdict = "incomplete"
  BY <1>1 DEF MemoryIsKept
<1> QED
  BY <1>1, <1>2 DEF MemoryIsKept

LEMMA NotInHand ==
  ASSUME s1' \in {"idle", "preflight", "merge", "gate", "cases", "failing"}
  PROVE  CaseInHand' /\ s1' \in CampaignLabels
BY DEF CaseInHand, Hand, Driving, CampaignLabels

\* The steps that only move the invocation on, or find something out.
LEMMA SameCases ==
  ASSUME CampaignInv, CampaignTypes', MemoryIsKept', CaseInHand', s11' = s11, s3' = s3
  PROVE  CampaignInv'
BY InvocationKeeps

LEMMA StartKeeps ==
  ASSUME Campaign!CampaignAssumption, CampaignInv, Campaign!Start
  PROVE  CampaignInv'
<1>1. /\ s4' = s4 + 1 /\ s4 < MaxInvocations /\ s2' = Campaign!Fresh /\ s1' = "preflight"
      /\ s3' = s3 /\ s11' = s11 /\ s7' = s7 /\ s9' = s9 /\ s10' = s10
  BY DEF Campaign!Start, Campaign!Goto
<1>2. CampaignTypes /\ MemoryIsKept /\ MaxInvocations \in Nat
  BY CampaignConstants DEF CampaignInv
<1>3. CampaignTypes'
  BY <1>1, <1>2, CampaignValues DEF CampaignTypes, CampaignLabels
<1>4. MemoryIsKept'
  BY <1>1, <1>2, CampaignValues DEF MemoryIsKept, Hand, Driving
<1>5. CaseInHand'
  BY <1>1, NotInHand
<1> QED
  BY <1>1, <1>3, <1>4, <1>5, SameCases

LEMMA PreflightKeeps ==
  ASSUME Campaign!CampaignAssumption, CampaignSlips = {}, CampaignInv, Campaign!Preflight
  PROVE  CampaignInv'
<1>1. /\ s1 = "preflight" /\ (s1' = "merge" \/ (s3 = Campaign!NoFile /\ s1' = "failing"))
      /\ s2' = s2 /\ s3' = s3 /\ s4' = s4 /\ s11' = s11 /\ s7' = s7 /\ s9' = s9 /\ s10' = s10
  <2>1. s1 = "preflight" /\ (s1' = "merge" \/ (s3 = Campaign!NoFile /\ s1' = "failing"))
    BY Zenon DEF Campaign!Preflight, Campaign!Goto
  <2> QED
    BY <2>1 DEF Campaign!Preflight, Campaign!Local
<1>2. CampaignTypes /\ MemoryIsKept
  BY DEF CampaignInv
<1>3. CampaignTypes'
  BY <1>1, <1>2, NotInHand DEF CampaignTypes
<1>4. MemoryIsKept'
  <2>1. s2 = Campaign!Fresh /\ s2.verdict = "incomplete" /\ SpentOf(s3.runs) <= Budget
    BY <1>1, <1>2, CampaignValues DEF MemoryIsKept
  <2>2. s1' = "failing" => s2.runs = s3.runs
    BY <1>1, <2>1, CampaignValues
  <2> QED
    BY <1>1, <1>2, <2>1, <2>2 DEF MemoryIsKept, Hand, Driving
<1>5. CaseInHand'
  BY <1>1, NotInHand
<1> QED
  BY <1>1, <1>3, <1>4, <1>5, SameCases

LEMMA MergeKeeps ==
  ASSUME Campaign!CampaignAssumption, CampaignSlips = {}, CampaignInv, Campaign!Merge
  PROVE  CampaignInv'
<1>1. /\ s1 = "merge" /\ s1' = "gate" /\ s2' = Campaign!Resumed
      /\ s3' = s3 /\ s4' = s4 /\ s11' = s11 /\ s7' = s7 /\ s9' = s9 /\ s10' = s10
  BY DEF Campaign!Merge, Campaign!Goto, Campaign!Local
<1>2. CampaignTypes /\ MemoryIsKept
  BY DEF CampaignInv
<1>3. s2 = Campaign!Fresh /\ SpentOf(s3.runs) <= Budget
  BY <1>1, <1>2 DEF MemoryIsKept
<1>4. s2' \in CampaignFiles /\ s2'.runs = s3.runs /\ s2'.verdict = "incomplete"
  <2>1. CASE s3 = Campaign!NoFile
    BY <1>1, <1>3, <2>1, CampaignValues DEF Campaign!Resumed
  <2>2. CASE s3 # Campaign!NoFile
    <3>1. s2' = [s2 EXCEPT !.runs = s3.runs, !.before = s3.before, !.reconciled = s3.reconciled]
      BY <1>1, <2>2 DEF Campaign!Resumed
    <3>2. s2 \in CampaignFiles /\ s3 \in CampaignFiles /\ s2.verdict = "incomplete"
      BY <1>2, <1>3, CampaignValues DEF CampaignTypes
    <3> QED
      BY <3>1, <3>2, FileFields DEF CampaignFiles
  <2> QED
    BY <2>1, <2>2
<1>5. CampaignTypes'
  BY <1>1, <1>2, <1>4, NotInHand DEF CampaignTypes
<1>6. MemoryIsKept'
  BY <1>1, <1>2, <1>3, <1>4 DEF MemoryIsKept
<1>7. CaseInHand'
  BY <1>1, NotInHand
<1> QED
  BY <1>1, <1>5, <1>6, <1>7, SameCases

\* A file with the attempts it had, and a verdict or a wallet of its own.
LEMMA VerdictIsSet ==
  ASSUME NEW m \in CampaignFiles, NEW v \in {"incomplete", "paid_gate_closed", "pass", "fail"}
  PROVE  /\ [m EXCEPT !.verdict = v] \in CampaignFiles
         /\ [m EXCEPT !.verdict = v].runs = m.runs /\ [m EXCEPT !.verdict = v].verdict = v
BY DEF CampaignFiles

LEMMA WalletIsSet ==
  ASSUME NEW m \in CampaignFiles, NEW v \in Int
  PROVE  /\ [m EXCEPT !.before = v] \in CampaignFiles
         /\ [m EXCEPT !.before = v].runs = m.runs
         /\ [m EXCEPT !.before = v].verdict = m.verdict
BY DEF CampaignFiles

LEMMA ReconciledIsSet ==
  ASSUME NEW m \in CampaignFiles, NEW v \in BOOLEAN
  PROVE  /\ [m EXCEPT !.reconciled = v] \in CampaignFiles
         /\ [m EXCEPT !.reconciled = v].runs = m.runs
         /\ [m EXCEPT !.reconciled = v].verdict = m.verdict
BY DEF CampaignFiles

LEMMA ReconciledIs == \A m : Campaign!Reconciled(m) \in BOOLEAN
BY DEF Campaign!Reconciled

\* An invocation that ends at the gate.
LEMMA GateKeeps ==
  ASSUME Campaign!CampaignAssumption, CampaignInv,
         Campaign!AlreadyComplete \/ Campaign!GateClosed
  PROVE  CampaignInv'
<1>1. /\ s1 = "gate" /\ s1' = "idle"
      /\ s4' = s4 /\ s11' = s11 /\ s7' = s7 /\ s9' = s9 /\ s10' = s10 /\ s2' = s3'
      /\ \/ s3' = [s2 EXCEPT !.verdict = "pass"] /\ Campaign!Passed(s2)
         \/ s3' = [s2 EXCEPT !.verdict = "paid_gate_closed"]
  BY DEF Campaign!AlreadyComplete, Campaign!GateClosed, Campaign!Goto, Campaign!Local,
         Campaign!Write
<1>2. CampaignTypes /\ MemoryIsKept /\ s2 \in CampaignFiles
  BY DEF CampaignInv, CampaignTypes
<1>3. s2.runs = s3.runs /\ SpentOf(s3.runs) <= Budget
  BY <1>1, <1>2 DEF MemoryIsKept
<1>4. /\ s3' \in CampaignFiles /\ s3'.runs = s3.runs
      /\ s3'.verdict = "pass" => Campaign!Passed(s2)
  <2>1. CASE s3' = [s2 EXCEPT !.verdict = "pass"] /\ Campaign!Passed(s2)
    BY <1>2, <1>3, <2>1, VerdictIsSet
  <2>2. CASE s3' = [s2 EXCEPT !.verdict = "paid_gate_closed"]
    BY <1>2, <1>3, <2>2, VerdictIsSet
  <2> QED
    BY <1>1, <2>1, <2>2
<1>5. CampaignTypes'
  BY <1>1, <1>2, <1>4, NotInHand DEF CampaignTypes
<1>6. MemoryIsKept'
  <2>1. s3'.verdict = "pass" => \A c \in Cases : Campaign!Completed(s3'.runs[c])
    BY <1>3, <1>4 DEF Campaign!Passed
  <2> QED
    BY <1>1, <1>3, <1>4, <2>1 DEF MemoryIsKept, Hand, Driving
<1>7. CaseInHand'
  BY <1>1, NotInHand
<1> QED
  BY <1>1, <1>4, <1>5, <1>6, <1>7, InvocationKeeps

LEMMA BaselineKeeps ==
  ASSUME Campaign!CampaignAssumption, CampaignInv, Campaign!Baseline
  PROVE  CampaignInv'
<1>1. /\ s1 = "gate" /\ s1' \in {"cases", "failing"}
      /\ s4' = s4 /\ s11' = s11 /\ s7' = s7 /\ s9' = s9 /\ s10' = s10
      /\ \/ s2' = s2 /\ s3' = s3
         \/ s2' = s3' /\ s2' = [s2 EXCEPT !.before = Campaign!Debit] /\ s1' = "cases"
  <2>1. s1 = "gate" /\ s1' \in {"cases", "failing"}
    BY Zenon DEF Campaign!Baseline, Campaign!Goto
  <2>2. \/ s2' = s2 /\ s3' = s3
        \/ s2' = s3' /\ s2' = [s2 EXCEPT !.before = Campaign!Debit] /\ s1' = "cases"
    BY DEF Campaign!Baseline, Campaign!Goto, Campaign!Write
  <2> QED
    BY <2>1, <2>2 DEF Campaign!Baseline, Campaign!Local
<1>2. CampaignTypes /\ MemoryIsKept /\ s2 \in CampaignFiles
  BY DEF CampaignInv, CampaignTypes
<1>3. s2.runs = s3.runs /\ SpentOf(s3.runs) <= Budget /\ s2.verdict = "incomplete"
  BY <1>1, <1>2 DEF MemoryIsKept
<1>4. CASE s2' = s2 /\ s3' = s3
  <2>1. CampaignTypes'
    BY <1>1, <1>2, <1>4, NotInHand DEF CampaignTypes
  <2>2. MemoryIsKept'
    BY <1>1, <1>2, <1>4, MemoryStays
  <2>3. CaseInHand'
    BY <1>1, NotInHand
  <2> QED
    BY <1>1, <1>4, <2>1, <2>2, <2>3, SameCases
<1>5. CASE s2' = s3' /\ s2' = [s2 EXCEPT !.before = Campaign!Debit] /\ s1' = "cases"
  <2>1. Campaign!Debit \in Int
    <3>1. IsSum(DebitOf(s11), CostsIn(s11), Cases) /\ IsFiniteSet(Cases)
      BY CampaignConstants DEF CampaignInv
    <3>2. \A c \in Cases : CostsIn(s11)[c] \in Nat
      BY <1>2, CostsAreNatural DEF CampaignTypes, CostsIn
    <3> QED
      BY <3>1, <3>2, SumsAreNatural, DebitInState
  <2>2. s2' \in CampaignFiles /\ s2'.runs = s3.runs /\ s2'.verdict = "incomplete"
    BY <1>2, <1>3, <1>5, <2>1, WalletIsSet
  <2>3. CampaignTypes'
    BY <1>1, <1>2, <1>5, <2>2, NotInHand DEF CampaignTypes
  <2>4. MemoryIsKept'
    BY <1>1, <1>3, <1>5, <2>2 DEF MemoryIsKept, Hand, Driving
  <2>5. CaseInHand'
    BY <1>1, NotInHand
  <2> QED
    BY <1>1, <1>5, <2>2, <2>3, <2>4, <2>5, InvocationKeeps
<1> QED
  BY <1>1, <1>4, <1>5

\* A case the money does not reach for, an interrupt, and the invocation that is killed.
LEMMA RefuseKeeps ==
  ASSUME Campaign!CampaignAssumption, CampaignInv, Campaign!Refuse \/ Campaign!Interrupted
  PROVE  CampaignInv'
<1>1. /\ s1 = "cases" /\ s1' = "failing" /\ s2' = s2 /\ s3' = s3
      /\ s4' = s4 /\ s11' = s11 /\ s7' = s7 /\ s9' = s9 /\ s10' = s10
  BY DEF Campaign!Refuse, Campaign!Interrupted, Campaign!Goto, Campaign!Local
<1>2. CampaignTypes /\ MemoryIsKept
  BY DEF CampaignInv
<1>3. CampaignTypes'
  BY <1>1, <1>2, NotInHand DEF CampaignTypes
<1>4. MemoryIsKept'
  BY <1>1, <1>2, MemoryStays
<1> QED
  BY <1>1, <1>3, <1>4, NotInHand, SameCases

LEMMA KilledKeeps ==
  ASSUME CampaignInv, Campaign!Killed
  PROVE  CampaignInv'
<1>1. /\ s1' = "idle" /\ s2' = s2 /\ s3' = s3
      /\ s4' = s4 /\ s11' = s11 /\ s7' = s7 /\ s9' = s9 /\ s10' = s10
  BY DEF Campaign!Killed, Campaign!Goto
<1>2. CampaignTypes /\ MemoryIsKept
  BY DEF CampaignInv
<1>3. CampaignTypes'
  BY <1>1, <1>2, NotInHand DEF CampaignTypes
<1>4. MemoryIsKept'
  BY <1>1, <1>2 DEF MemoryIsKept, Hand, Driving
<1> QED
  BY <1>1, <1>3, <1>4, NotInHand, SameCases

LEMMA CountsUp ==
  \A G \in SUBSET Nat : 0 \in G /\ (\A n \in G : n + 1 \in G) => G = Nat
<1>1. Paid!LedgerAssumption
  BY OverchargeAssumed
<1> QED
  BY <1>1, Paid!CountUp, Zenon

\* The case an invocation takes is the first that is not complete.
LEMMA UpcomingIsCase ==
  ASSUME Campaign!CampaignAssumption, Campaign!Open # {}
  PROVE  Campaign!Upcoming \in Cases
<1> DEFINE Open == Campaign!Open
           i == CHOOSE x \in Open : \A y \in Open : x <= y
<1>1. Open \subseteq Nat \ {0} /\ Open \subseteq DOMAIN Order
  BY CampaignConstants DEF Campaign!Open
<1>2. \E x \in Open : \A y \in Open : x <= y
  <2>1. PICK m \in Nat : m \in Open
    BY <1>1
  <2> DEFINE G == {n \in Nat : \A x \in 0..n : x \notin Open}
  <2>2. 0 \in G
    BY <1>1
  <2>3. PICK n \in G : n + 1 \notin G
    <3>1. m \notin G
      BY <2>1
    <3>2. Paid!LedgerAssumption /\ G \in SUBSET Nat
      BY OverchargeAssumed
    <3> HIDE DEF G
    <3> QED
      BY <2>1, <2>2, <3>1, <3>2, CountsUp
  <2>4. n + 1 \in Open /\ \A y \in Open : n + 1 <= y
    BY <1>1, <2>3
  <2> QED
    BY <2>4
<1>3. i \in Open
  BY <1>2
<1>4. Campaign!Min(Open) = i
  BY DEF Campaign!Min
<1> HIDE DEF i
<1> QED
  BY <1>1, <1>3, <1>4, CampaignConstants DEF Campaign!Upcoming

\* The key of the case in hand.
LEMMA KeyInState ==
  ASSUME Campaign!CampaignAssumption, CampaignTypes
  PROVE  /\ Campaign!Key = KeyOf(s7, s4)
         /\ KeyOf(s7, s4) \in Campaign!Keys /\ KeyOf(s7, s4)[1] = s7
         /\ s11[KeyOf(s7, s4)] \in CampaignRuns
<1>1. s4 \in 0..MaxInvocations /\ 0 \in 0..MaxInvocations /\ s7 \in Cases
  BY CampaignConstants DEF CampaignTypes
<1>2. KeyOf(s7, s4) \in Campaign!Keys /\ KeyOf(s7, s4)[1] = s7
  BY <1>1 DEF KeyOf, Campaign!Keys
<1>3. Campaign!Key = KeyOf(s7, s4)
  BY DEF Campaign!Key, KeyOf
<1> QED
  BY <1>2, <1>3 DEF CampaignTypes

LEMMA AnyKey ==
  ASSUME Campaign!CampaignAssumption, NEW c \in Cases, NEW n \in 0..MaxInvocations
  PROVE  KeyOf(c, n) \in Campaign!Keys
<1>1. 0 \in 0..MaxInvocations
  BY CampaignConstants
<1> QED
  BY <1>1 DEF KeyOf, Campaign!Keys

\* A case that is not on record has no run, and may be booked.
LEMMA BookedCase ==
  ASSUME Campaign!CampaignAssumption, CampaignInv, NEW c \in Cases, ~s3.runs[c].made
  PROVE  /\ HeldOf(s11, c) = {} /\ s3.runs[c] = Campaign!NoAttempt
         /\ CaseIsKept(s11, Campaign!Attempt, c)
<1>1. HeldOf(s11, c) = {} /\ s3.runs[c] = Campaign!NoAttempt
  BY DEF CampaignInv, CaseIsKept
<1>2. CostIn(s11, c) = 0
  BY <1>1 DEF CostIn
<1>3. Campaign!Attempt.made /\ Campaign!Attempt.cost = Cap /\ ~Campaign!Completed(Campaign!Attempt)
  BY CampaignValues
<1>4. 0 <= Cap
  BY CampaignConstants
<1> QED
  BY <1>1, <1>2, <1>3, <1>4 DEF CaseIsKept

LEMMA BookKeeps ==
  ASSUME Campaign!CampaignAssumption, CampaignInv, Campaign!Book
  PROVE  CampaignInv'
<1> DEFINE c == Campaign!Upcoming
           m == [s2 EXCEPT !.runs[c] = Campaign!Attempt]
<1>1. /\ s1 = "cases" /\ s7' = c /\ s9' = FALSE /\ s10' = Campaign!Attempt
      /\ s4' = s4 /\ s11' = s11 /\ c \in Cases /\ Campaign!Affordable(c)
  BY UpcomingIsCase DEF Campaign!Book
<1>2. \/ s2' = s3' /\ s1' = "create" /\ s3' = [m EXCEPT !.reconciled = Campaign!Reconciled(m)]
      \/ s2' = m /\ s1' = "failing" /\ s3' = s3
  BY DEF Campaign!Book, Campaign!Write, Campaign!Goto
<1>3. CampaignTypes /\ MemoryIsKept /\ s2 \in CampaignFiles /\ s3 \in CampaignFiles
  BY DEF CampaignInv, CampaignTypes
<1> HIDE DEF c
<1>4. /\ s2.runs = s3.runs /\ SpentOf(s3.runs) <= Budget /\ s2.verdict = "incomplete"
      /\ s3.verdict = "pass" => \A d \in Cases : Campaign!Completed(s3.runs[d])
  BY <1>1, <1>3 DEF MemoryIsKept
<1>5. ~s3.runs[c].made /\ SpentOf(s3.runs) + Cap <= Budget
  BY <1>1, <1>4, SpentInState DEF Campaign!Affordable
<1>6. m \in CampaignFiles /\ m.runs = [s3.runs EXCEPT ![c] = Campaign!Attempt]
      /\ m.verdict = "incomplete"
  BY <1>1, <1>3, <1>4, CampaignValues, CaseIsSet
<1> HIDE DEF m
<1>7. /\ m.runs[c] = Campaign!Attempt /\ \A d \in Cases \ {c} : m.runs[d] = s3.runs[d]
      /\ SpentOf(m.runs) <= Budget
  <2>1. s3.runs \in [Cases -> CampaignAttempts] /\ Campaign!Attempt \in CampaignAttempts
    BY <1>3, FileFields, CampaignValues
  <2>2. SpentOf(m.runs) = SpentOf(s3.runs) - s3.runs[c].cost + Campaign!Attempt.cost
        /\ SpentOf(s3.runs) \in Nat
    BY <1>1, <1>6, <2>1, SpentFollows
  <2>3. s3.runs[c].cost = 0 /\ Campaign!Attempt.cost = Cap
    BY <1>1, <1>5, BookedCase, CampaignValues
  <2>4. SpentOf(m.runs) <= Budget
    BY <1>5, <2>2, <2>3, CampaignConstants
  <2> QED
    BY <1>1, <1>6, <2>1, <2>4
<1>8. CASE s2' = s3' /\ s1' = "create" /\ s3' = [m EXCEPT !.reconciled = Campaign!Reconciled(m)]
  <2>1. s3' \in CampaignFiles /\ s3'.runs = m.runs /\ s3'.verdict = "incomplete"
    BY <1>6, <1>8, ReconciledIs, ReconciledIsSet
  <2>2. CampaignTypes'
    BY <1>1, <1>3, <1>8, <2>1, CampaignValues DEF CampaignTypes, CampaignLabels
  <2>3. MemoryIsKept'
    BY <1>7, <1>8, <2>1 DEF MemoryIsKept, Hand, Driving
  <2>4. CaseInHand'
    <3>1. HeldOf(s11', s7') = {}
      BY <1>1, <1>5, BookedCase
    <3>2. s3'.runs[s7'] = Campaign!Attempt
      BY <1>1, <1>7, <2>1
    <3>3. /\ Campaign!Attempt.made /\ Campaign!Attempt.cost = Cap
          /\ ~Campaign!Attempt.complete /\ ~Campaign!Attempt.passed
      BY CampaignValues DEF Campaign!Attempt
    <3> QED
      BY <1>1, <1>8, <3>1, <3>2, <3>3 DEF CaseInHand, Driving
  <2>5. \A d \in Cases : s3'.runs[d] = s3.runs[d] \/ CaseIsKept(s11, s3'.runs[d], d)
    BY <1>1, <1>5, <1>7, <2>1, BookedCase
  <2> QED
    BY <1>1, <2>2, <2>3, <2>4, <2>5, InvocationKeeps
<1>9. CASE s2' = m /\ s1' = "failing" /\ s3' = s3
  <2>1. CampaignTypes'
    BY <1>1, <1>3, <1>6, <1>9, CampaignValues, NotInHand DEF CampaignTypes
  <2>2. MemoryIsKept'
    <3>1. \A d \in Cases : \/ m.runs[d] = s3.runs[d]
                           \/ ~s3.runs[d].made /\ m.runs[d] = Campaign!Attempt
      BY <1>5, <1>7
    <3> QED
      BY <1>4, <1>6, <1>7, <1>9, <3>1 DEF MemoryIsKept, Hand, Driving
  <2>3. CaseInHand'
    BY <1>9, NotInHand
  <2> QED
    BY <1>1, <1>9, <2>1, <2>2, <2>3, SameCases
<1> QED
  BY <1>2, <1>8, <1>9

\* A case in hand is driven on, and what was found of it is still so.
LEMMA HandMoves ==
  ASSUME Campaign!CampaignAssumption, CampaignInv,
         s1 \in {"create"} \cup Driving,
         s1' \in {"checks", "sources", "golden", "question", "cleanup"},
         s1' = "cleanup" \/ s1 \in Driving,
         s2' = s2, s3' = s3, s4' = s4, s7' = s7, s9' = s9, s11' = s11,
         s10' \in CampaignAttempts, s10'.made, ~s10'.complete => s10'.cost = Cap,
         s10'.passed => s9
  PROVE  CampaignInv'
<1>1. CampaignTypes /\ MemoryIsKept /\ CaseInHand
  BY DEF CampaignInv
<1>2. CampaignTypes'
  BY <1>1 DEF CampaignTypes, CampaignLabels
<1>3. MemoryIsKept'
  BY <1>1, MemoryStays DEF Hand, Driving
<1>4. s1 \in Hand /\ s1' \notin {"create", "record"} /\ (s1 \in Driving => s9)
  BY <1>1 DEF Hand, Driving, CaseInHand
<1>5. s1' \in Driving => s9
  BY <1>4 DEF Driving
<1>6. HeldOf(s11, s7) \subseteq {KeyOf(s7, s4)} /\ s3.runs[s7] = Campaign!Attempt
  BY <1>1, <1>4 DEF CaseInHand
<1>7. CaseInHand'
  BY <1>4, <1>5, <1>6 DEF CaseInHand
<1> QED
  BY <1>2, <1>3, <1>7, SameCases

\* What CaseInHand says while a case is in hand.
LEMMA InHand ==
  ASSUME Campaign!CampaignAssumption, CampaignInv, s1 \in Hand
  PROVE  /\ CampaignTypes /\ s10 \in CampaignAttempts /\ s7 \in Cases
         /\ s10.made /\ (~s10.complete => s10.cost = Cap)
         /\ s10.passed => s9
         /\ s3.runs[s7] = Campaign!Attempt /\ HeldOf(s11, s7) \subseteq {KeyOf(s7, s4)}
         /\ Campaign!Key = KeyOf(s7, s4)
         /\ KeyOf(s7, s4) \in Campaign!Keys /\ KeyOf(s7, s4)[1] = s7
         /\ s11[KeyOf(s7, s4)].cost \in 0..Cap
<1>1. CampaignTypes /\ CaseInHand
  BY DEF CampaignInv
<1>2. /\ Campaign!Key = KeyOf(s7, s4) /\ s11[KeyOf(s7, s4)] \in CampaignRuns
      /\ KeyOf(s7, s4) \in Campaign!Keys /\ KeyOf(s7, s4)[1] = s7
  BY <1>1, KeyInState
<1>3. s11[KeyOf(s7, s4)].cost \in 0..Cap
  BY <1>2, RunFields
<1> QED
  BY <1>1, <1>2, <1>3 DEF CaseInHand, CampaignTypes

LEMMA MovesKeep ==
  ASSUME Campaign!CampaignAssumption, CampaignInv,
         Campaign!NotCreated \/ Campaign!Poll \/ Campaign!VerifySources \/ Campaign!VerifyGolden
  PROVE  CampaignInv'
<1>1. /\ s2' = s2 /\ s3' = s3 /\ s4' = s4 /\ s7' = s7 /\ s9' = s9 /\ s10' = s10 /\ s11' = s11
  BY DEF Campaign!NotCreated, Campaign!Poll, Campaign!VerifySources, Campaign!VerifyGolden,
         Campaign!Gate, Campaign!Local
<1>2. /\ s1 \in {"create"} \cup Driving
      /\ s1' \in {"checks", "sources", "golden", "question", "cleanup"}
      /\ s1' = "cleanup" \/ s1 \in Driving
  BY DEF Campaign!NotCreated, Campaign!Poll, Campaign!VerifySources, Campaign!VerifyGolden,
         Campaign!Gate, Campaign!Goto, Driving
<1>3. s1 \in Hand
  BY <1>2 DEF Hand
<1> QED
  BY <1>1, <1>2, <1>3, InHand, HandMoves

LEMMA AnalysisKeeps ==
  ASSUME Campaign!CampaignAssumption, CampaignInv, Campaign!FetchAnalysis
  PROVE  CampaignInv'
<1>1. /\ s2' = s2 /\ s3' = s3 /\ s4' = s4 /\ s7' = s7 /\ s9' = s9 /\ s11' = s11
      /\ s1 = "checks" /\ s1' \in {"sources", "cleanup"}
      /\ \/ s10' = s10
         \/ \E complete \in BOOLEAN, reported \in 0..Cap :
              s10' = [s10 EXCEPT !.complete = complete, !.reported = reported,
                                 !.cost = IF complete THEN reported ELSE Cap]
  BY DEF Campaign!FetchAnalysis, Campaign!Goto, Campaign!OneCase
<1>2. s1 \in Hand /\ s1 \in {"create"} \cup Driving /\ s1 \in Driving
      /\ s1' \in {"checks", "sources", "golden", "question", "cleanup"}
  BY <1>1 DEF Hand, Driving
<1>3. s10 \in CampaignAttempts /\ s10.made /\ (~s10.complete => s10.cost = Cap) /\ (s10.passed => s9)
  BY <1>2, InHand
<1>4. /\ s10' \in CampaignAttempts /\ s10'.made /\ (~s10'.complete => s10'.cost = Cap)
      /\ s10'.passed => s9
  <2>1. CASE s10' = s10
    BY <1>3, <2>1
  <2>2. ASSUME NEW complete \in BOOLEAN, NEW reported \in 0..Cap,
               s10' = [s10 EXCEPT !.complete = complete, !.reported = reported,
                                  !.cost = IF complete THEN reported ELSE Cap]
        PROVE  /\ s10' \in CampaignAttempts /\ s10'.made /\ (~s10'.complete => s10'.cost = Cap)
               /\ s10'.passed => s9
    <3>1. Cap \in 0..Cap
      BY CampaignConstants
    <3> QED
      BY <1>3, <2>2, <3>1 DEF CampaignAttempts
  <2> QED
    BY <1>1, <2>1, <2>2
<1> QED
  BY <1>1, <1>2, <1>4, HandMoves

LEMMA QuestionKeeps ==
  ASSUME Campaign!CampaignAssumption, CampaignInv, Campaign!VerifyQuestion
  PROVE  CampaignInv'
<1>1. /\ s2' = s2 /\ s3' = s3 /\ s4' = s4 /\ s7' = s7 /\ s9' = s9 /\ s11' = s11
      /\ s1 = "question" /\ s1' = "cleanup"
      /\ s10' = s10 \/ s10' = [s10 EXCEPT !.passed = TRUE]
  BY DEF Campaign!VerifyQuestion, Campaign!Goto, Campaign!OneCase
<1>2. s1 \in Hand /\ s1 \in {"create"} \cup Driving /\ s1 \in Driving
  BY <1>1 DEF Hand, Driving
<1>3. CaseInHand
  BY DEF CampaignInv
<1>4. s9
  BY <1>2, <1>3 DEF CaseInHand
<1>5. s10 \in CampaignAttempts /\ s10.made /\ (~s10.complete => s10.cost = Cap)
  BY <1>2, InHand
<1>6. /\ s10' \in CampaignAttempts /\ s10'.made = s10.made /\ s10'.cost = s10.cost
      /\ s10'.complete = s10.complete
  BY <1>1, <1>5 DEF CampaignAttempts
<1> QED
  BY <1>1, <1>2, <1>4, <1>5, <1>6, HandMoves

\* The file takes what was found of the case in hand.
LEMMA RecordKeeps ==
  ASSUME Campaign!CampaignAssumption, CampaignInv, Campaign!Record
  PROVE  CampaignInv'
<1>1. /\ s1 = "record" /\ s1' \in {"cases", "failing"}
      /\ s2' = s3' /\ s3' = [s2 EXCEPT !.runs[s7] = s10]
      /\ s4' = s4 /\ s7' = s7 /\ s9' = s9 /\ s10' = s10 /\ s11' = s11
  BY DEF Campaign!Record, Campaign!Write, Campaign!Goto, Campaign!Local
<1>2. s1 \in Hand
  BY <1>1 DEF Hand
<1>3. /\ CampaignTypes /\ MemoryIsKept /\ CaseInHand /\ s2 \in CampaignFiles
      /\ s3 \in CampaignFiles
      /\ s7 \in Cases /\ s10 \in CampaignAttempts
  BY DEF CampaignInv, CampaignTypes
<1>4. s2.runs = s3.runs /\ SpentOf(s3.runs) <= Budget /\ s2.verdict = "incomplete"
  BY <1>1, <1>2, <1>3 DEF MemoryIsKept
<1>5. /\ s3' \in CampaignFiles /\ s3'.runs = [s3.runs EXCEPT ![s7] = s10]
      /\ s3'.verdict = "incomplete"
  BY <1>1, <1>3, <1>4, CaseIsSet
<1>6. s3'.runs[s7] = s10 /\ \A d \in Cases \ {s7} : s3'.runs[d] = s3.runs[d]
  BY <1>3, <1>5, FileFields
<1>7. SpentOf(s3'.runs) <= Budget
  <2>1. s3.runs \in [Cases -> CampaignAttempts]
    BY <1>3, FileFields
  <2>2. SpentOf(s3'.runs) = SpentOf(s3.runs) - s3.runs[s7].cost + s10.cost
        /\ SpentOf(s3.runs) \in Nat
    BY <1>3, <1>5, <2>1, SpentFollows
  <2>3. s3.runs[s7].cost = Cap /\ s10.cost \in 0..Cap /\ Cap \in Nat /\ Budget \in Nat
    BY <1>2, InHand, AttemptFields, CampaignValues, CampaignConstants
  <2> QED
    BY <1>4, <2>2, <2>3
<1>8. CaseIsKept(s11, s10, s7)
  <2> DEFINE key == KeyOf(s7, s4)
  <2>1. /\ s10.made /\ (~s10.complete => s10.cost = Cap) /\ s11[key].cost \in 0..Cap
        /\ HeldOf(s11, s7) \subseteq {key} /\ key \in Campaign!Keys /\ key[1] = s7
    BY <1>2, InHand
  <2>2. s10.passed /\ s10.removed => s11[key].status = "deleted"
    BY <1>1, <1>2, <1>3 DEF CaseInHand
  <2>3. s11 \in [Campaign!Keys -> CampaignRuns]
    BY <1>3 DEF CampaignTypes
  <2> HIDE DEF key
  <2>4. CostIn(s11, s7) = s11[key].cost
    BY <1>3, <2>1, <2>3, CostOfKey
  <2>5. ASSUME Campaign!Completed(s10)
        PROVE  Earned(s11, s7)
    <3>1. s11[key].status = "deleted"
      BY <2>1, <2>2, <2>5 DEF Campaign!Completed
    <3>2. s11[key] # Campaign!NoRun
      BY <3>1, RunFields
    <3>3. HeldOf(s11, s7) = {key}
      BY <2>1, <3>2 DEF HeldOf
    <3> QED
      BY <2>1, <3>1, <3>3 DEF Earned
  <2>6. \A k, l \in HeldOf(s11, s7) : k = l
    BY <2>1
  <2>7. ~s10.complete => CostIn(s11, s7) <= s10.cost
    BY <2>1, <2>4, CampaignConstants
  <2> QED
    BY <2>1, <2>5, <2>6, <2>7 DEF CaseIsKept
<1>9. CampaignTypes'
  BY <1>1, <1>3, <1>5, NotInHand DEF CampaignTypes
<1>10. MemoryIsKept'
  BY <1>1, <1>5, <1>7 DEF MemoryIsKept, Hand, Driving
<1>11. CaseInHand'
  BY <1>1, NotInHand
<1>12. \A d \in Cases : s3'.runs[d] = s3.runs[d] \/ CaseIsKept(s11, s3'.runs[d], d)
  BY <1>6, <1>8
<1> QED
  BY <1>1, <1>9, <1>10, <1>11, <1>12, InvocationKeeps

\* The end of an invocation that finds no case open.
LEMMA FinishKeeps ==
  ASSUME Campaign!CampaignAssumption, CampaignInv, Campaign!Finish
  PROVE  CampaignInv'
<1> DEFINE m == [s2 EXCEPT !.reconciled = Campaign!Reconciled(s2)]
<1>1. /\ s1 = "cases"
      /\ s4' = s4 /\ s7' = s7 /\ s9' = s9 /\ s10' = s10 /\ s11' = s11
  BY DEF Campaign!Finish, Campaign!Local
<1>2. \/ /\ s2' = s3' /\ s3' = [m EXCEPT !.verdict = "pass"] /\ s1' = "idle"
         /\ Campaign!Passed(m)
      \/ s2' \in {s2, m} /\ s3' = s3 /\ s1' = "failing"
  BY DEF Campaign!Finish, Campaign!Write, Campaign!Goto
<1>3. CampaignTypes /\ MemoryIsKept /\ s2 \in CampaignFiles
  BY DEF CampaignInv, CampaignTypes
<1>4. /\ s2.runs = s3.runs /\ SpentOf(s3.runs) <= Budget /\ s2.verdict = "incomplete"
      /\ s3.verdict = "pass" => \A d \in Cases : Campaign!Completed(s3.runs[d])
  BY <1>1, <1>3 DEF MemoryIsKept
<1>5. m \in CampaignFiles /\ m.runs = s3.runs /\ m.verdict = "incomplete"
  BY <1>3, <1>4, ReconciledIs, ReconciledIsSet
<1> HIDE DEF m
<1>6. CASE /\ s2' = s3' /\ s3' = [m EXCEPT !.verdict = "pass"] /\ s1' = "idle"
           /\ Campaign!Passed(m)
  <2>1. s3' \in CampaignFiles /\ s3'.runs = s3.runs
    BY <1>5, <1>6, VerdictIsSet
  <2>2. CampaignTypes'
    BY <1>1, <1>3, <1>6, <2>1, NotInHand DEF CampaignTypes
  <2>3. \A d \in Cases : Campaign!Completed(s3'.runs[d])
    BY <1>5, <1>6, <2>1 DEF Campaign!Passed
  <2>4. MemoryIsKept'
    BY <1>4, <1>6, <2>1, <2>3 DEF MemoryIsKept, Hand, Driving
  <2> QED
    BY <1>1, <1>6, <2>1, <2>2, <2>4, NotInHand, InvocationKeeps
<1>7. CASE s2' \in {s2, m} /\ s3' = s3 /\ s1' = "failing"
  <2>1. CampaignTypes'
    BY <1>1, <1>3, <1>5, <1>7, NotInHand DEF CampaignTypes
  <2>2. MemoryIsKept'
    BY <1>4, <1>5, <1>7 DEF MemoryIsKept, Hand, Driving
  <2> QED
    BY <1>1, <1>7, <2>1, <2>2, NotInHand, SameCases
<1> QED
  BY <1>2, <1>6, <1>7

\* The handler of a failure writes what is in memory.
LEMMA FailingKeeps ==
  ASSUME Campaign!CampaignAssumption, CampaignInv, Campaign!Failing
  PROVE  CampaignInv'
<1>1. /\ s1 = "failing" /\ s1' = "idle" /\ s2' = s3'
      /\ s4' = s4 /\ s7' = s7 /\ s9' = s9 /\ s10' = s10 /\ s11' = s11
  BY DEF Campaign!Failing, Campaign!Goto, Campaign!Local, Campaign!Write
<1>2. CampaignTypes /\ MemoryIsKept /\ s2 \in CampaignFiles
  BY DEF CampaignInv, CampaignTypes
<1>3. PICK r \in {s2.reconciled, Campaign!Reconciled(s2)} :
        s3' = [s2 EXCEPT !.verdict = "fail", !.reconciled = r]
  BY DEF Campaign!Failing, Campaign!Write
<1>4. r \in BOOLEAN
  BY <1>2, <1>3, FileFields, ReconciledIs
<1>5. s3' \in CampaignFiles /\ s3'.runs = s2.runs /\ s3'.verdict = "fail"
  BY <1>2, <1>3, <1>4 DEF CampaignFiles
<1>6. /\ \A c \in Cases : \/ s2.runs[c] = s3.runs[c]
                          \/ ~s3.runs[c].made /\ s2.runs[c] = Campaign!Attempt
      /\ SpentOf(s2.runs) <= Budget
  BY <1>1, <1>2 DEF MemoryIsKept
<1>7. CampaignTypes'
  BY <1>1, <1>2, <1>5, NotInHand DEF CampaignTypes
<1>8. MemoryIsKept'
  BY <1>1, <1>5, <1>6 DEF MemoryIsKept, Hand, Driving
<1>9. \A c \in Cases : s3'.runs[c] = s3.runs[c] \/ CaseIsKept(s11, s3'.runs[c], c)
  BY <1>5, <1>6, BookedCase
<1> QED
  BY <1>1, <1>7, <1>8, <1>9, NotInHand, InvocationKeeps

\* The run of a key changes, and its case has no other key.
LEMMA ServiceKeeps ==
  ASSUME Campaign!CampaignAssumption, CampaignInv, CampaignTypes', MemoryIsKept', CaseInHand',
         s3' = s3, NEW k \in Campaign!Keys, HeldOf(s11, k[1]) \subseteq {k},
         \A l \in Campaign!Keys \ {k} : s11'[l] = s11[l],
         s3.runs[k[1]].made, ~s3.runs[k[1]].complete => s11'[k].cost <= s3.runs[k[1]].cost,
         Campaign!Completed(s3.runs[k[1]]) => s11'[k] = s11[k]
  PROVE  CampaignInv'
<1>1. /\ s11 \in [Campaign!Keys -> CampaignRuns] /\ s11' \in [Campaign!Keys -> CampaignRuns]
      /\ IsSum(DebitOf(s11), CostsIn(s11), Cases) /\ k[1] \in Cases
  BY DEF CampaignInv, CampaignTypes, Campaign!Keys
<1>2. /\ IsSum(DebitOf(s11'), CostsIn(s11'), Cases)
      /\ HeldOf(s11', k[1]) \subseteq {k} /\ CostIn(s11', k[1]) = s11'[k].cost
      /\ \A c \in Cases \ {k[1]} : /\ HeldOf(s11', c) = HeldOf(s11, c)
                                   /\ CostIn(s11', c) = CostIn(s11, c)
  <2>1. PICK held, new : held = s11 /\ new = s11'
    OBVIOUS
  <2>2. /\ held \in [Campaign!Keys -> CampaignRuns] /\ new \in [Campaign!Keys -> CampaignRuns]
        /\ IsSum(DebitOf(held), CostsIn(held), Cases) /\ k[1] \in Cases
        /\ \A l \in Campaign!Keys \ {k} : new[l] = held[l]
        /\ HeldOf(held, k[1]) \subseteq {k}
    BY <1>1, <2>1
  <2>3. /\ IsSum(DebitOf(new), CostsIn(new), Cases)
        /\ HeldOf(new, k[1]) \subseteq {k} /\ CostIn(new, k[1]) = new[k].cost
        /\ \A c \in Cases \ {k[1]} : /\ HeldOf(new, c) = HeldOf(held, c)
                                     /\ CostIn(new, c) = CostIn(held, c)
    <3>1. IsSum(DebitOf(new), CostsIn(new), Cases)
      BY <2>2, DebitFollows
    <3>2. HeldOf(new, k[1]) \subseteq {k} /\ CostIn(new, k[1]) = new[k].cost
      BY <2>2, DebitFollows
    <3>3. \A c \in Cases \ {k[1]} : /\ HeldOf(new, c) = HeldOf(held, c)
                                    /\ CostIn(new, c) = CostIn(held, c)
      BY <2>2, DebitFollows
    <3> QED
      BY <3>1, <3>2, <3>3
  <2> QED
    BY <2>1, <2>3
<1>3. \A c \in Cases : CaseIsKept(s11, s3.runs[c], c)
  BY DEF CampaignInv
<1>4. ASSUME NEW c \in Cases, c # k[1]
      PROVE  CaseIsKept(s11', s3.runs[c], c)
  <2>1. HeldOf(s11', c) = HeldOf(s11, c) /\ CostIn(s11', c) = CostIn(s11, c)
    BY <1>2, <1>4
  <2>2. \A l \in HeldOf(s11, c) : l \in Campaign!Keys /\ s11'[l] = s11[l]
    BY <1>4 DEF HeldOf
  <2>3. Earned(s11, c) => Earned(s11', c)
    <3>1. SUFFICES ASSUME NEW l \in Campaign!Keys,
                          HeldOf(s11, c) = {l} /\ s11[l].status = "deleted"
                   PROVE  Earned(s11', c)
      BY DEF Earned
    <3>2. s11'[l] = s11[l]
      BY <2>2, <3>1
    <3> QED
      BY <2>1, <3>1, <3>2 DEF Earned
  <2> QED
    BY <1>3, <2>1, <2>3 DEF CaseIsKept
<1>5. CaseIsKept(s11', s3.runs[k[1]], k[1])
  <2>1. ASSUME Campaign!Completed(s3.runs[k[1]])
        PROVE  Earned(s11', k[1])
    <3>1. s11'[k] = s11[k]
      BY <2>1
    <3>2. s11' = s11
      BY <1>1, <3>1
    <3>3. Earned(s11, k[1])
      BY <1>1, <1>3, <2>1 DEF CaseIsKept
    <3> QED
      BY <3>2, <3>3
  <2>2. \A l, n \in HeldOf(s11', k[1]) : l = n
    BY <1>2
  <2> QED
    BY <1>2, <2>1, <2>2 DEF CaseIsKept
<1>6. \A c \in Cases : CaseIsKept(s11', s3'.runs[c], c)
  BY <1>4, <1>5
<1> QED
  BY <1>2, <1>6 DEF CampaignInv

\* A POST starts the run of the case in hand, or finds it.
LEMMA PostKeeps ==
  ASSUME Campaign!CampaignAssumption, CampaignInv, Campaign!Post
  PROVE  CampaignInv'
<1> DEFINE key == KeyOf(s7, s4)
<1>1. /\ s1 = "create" /\ s2' = s2 /\ s3' = s3 /\ s4' = s4 /\ s7' = s7 /\ s10' = s10
  BY DEF Campaign!Post, Campaign!OneCase
<1>2. s1' \in {"poll", "cleanup", "create"} /\ s9' \in BOOLEAN /\ (s1' = "poll" => s9')
  BY DEF Campaign!Post, Campaign!Goto
<1>3. \/ s11' = s11
      \/ \E cost \in 1..Cap :
           s11' = [s11 EXCEPT ![Campaign!Key] = [status |-> "running", cost |-> cost]]
  BY DEF Campaign!Post, Campaign!Admit
<1>4. s1 \in Hand
  BY <1>1 DEF Hand
<1>5. /\ CampaignTypes /\ MemoryIsKept /\ CaseInHand /\ s7 \in Cases
      /\ s11 \in [Campaign!Keys -> CampaignRuns]
  BY DEF CampaignInv, CampaignTypes
<1>6. /\ Campaign!Key = key /\ key \in Campaign!Keys /\ key[1] = s7
      /\ s11[key].cost \in 0..Cap /\ HeldOf(s11, s7) \subseteq {key}
      /\ s3.runs[s7] = Campaign!Attempt
  BY <1>4, InHand
<1>7. s10 = Campaign!Attempt
  BY <1>1, <1>4, <1>5 DEF CaseInHand
<1> HIDE DEF key
<1>8. /\ s11' \in [Campaign!Keys -> CampaignRuns]
      /\ \A l \in Campaign!Keys \ {key} : s11'[l] = s11[l]
  <2>1. CASE s11' = s11
    BY <1>5, <2>1
  <2>2. ASSUME NEW cost \in 1..Cap,
               s11' = [s11 EXCEPT ![key] = [status |-> "running", cost |-> cost]]
        PROVE  /\ s11' \in [Campaign!Keys -> CampaignRuns]
               /\ \A l \in Campaign!Keys \ {key} : s11'[l] = s11[l]
    <3>1. cost \in 0..Cap
      BY CampaignConstants
    <3>2. [status |-> "running", cost |-> cost] \in CampaignRuns
      BY <3>1 DEF CampaignRuns
    <3> QED
      BY <1>5, <1>6, <2>2, <3>2
  <2> QED
    BY <1>3, <1>6, <2>1, <2>2
<1>9. s11'[key].cost <= Cap
  BY <1>6, <1>8, RunFields, CampaignConstants
<1>10. /\ Campaign!Attempt.made /\ Campaign!Attempt.cost = Cap
       /\ ~Campaign!Attempt.complete /\ ~Campaign!Attempt.passed
       /\ ~Campaign!Completed(Campaign!Attempt)
  BY CampaignValues DEF Campaign!Attempt
<1>11. CampaignTypes'
  BY <1>1, <1>2, <1>5, <1>8 DEF CampaignTypes, CampaignLabels
<1>12. MemoryIsKept'
  BY <1>1, <1>2, <1>4, <1>5, MemoryStays DEF Hand, Driving
<1>13. HeldOf(s11', s7) \subseteq {key}
  BY <1>6, <1>8 DEF HeldOf
<1>14. CaseInHand'
  <2>1. s1' # "record" /\ (s1' \in Driving => s9')
    BY <1>2 DEF Driving
  <2>2. KeyOf(s7', s4') = key
    BY <1>1 DEF key
  <2> QED
    BY <1>1, <1>6, <1>7, <1>9, <1>10, <1>13, <2>1, <2>2 DEF CaseInHand
<1> QED
  BY <1>1, <1>6, <1>8, <1>9, <1>10, <1>11, <1>12, <1>14, ServiceKeeps

\* The run of the case in hand is deleted, or nobody knows.
LEMMA CleanupKeeps ==
  ASSUME Campaign!CampaignAssumption, CampaignInv, Campaign!Cleanup
  PROVE  CampaignInv'
<1> DEFINE key == KeyOf(s7, s4)
<1>1. /\ s1 = "cleanup" /\ s1' = "record"
      /\ s2' = s2 /\ s3' = s3 /\ s4' = s4 /\ s7' = s7 /\ s9' = s9
  BY DEF Campaign!Cleanup, Campaign!Goto, Campaign!OneCase
<1>2. s1 \in Hand
  BY <1>1 DEF Hand
<1>3. /\ CampaignTypes /\ MemoryIsKept /\ CaseInHand /\ s7 \in Cases
      /\ s11 \in [Campaign!Keys -> CampaignRuns]
  BY DEF CampaignInv, CampaignTypes
<1>4. /\ Campaign!Key = key /\ key \in Campaign!Keys /\ key[1] = s7
      /\ s11[key].cost \in 0..Cap /\ HeldOf(s11, s7) \subseteq {key}
      /\ s3.runs[s7] = Campaign!Attempt /\ s10 \in CampaignAttempts
      /\ s10.made /\ (~s10.complete => s10.cost = Cap)
      /\ s10.passed => s9
  BY <1>2, InHand
<1> HIDE DEF key
<1> DEFINE gone == [s11 EXCEPT ![key].status = "deleted"]
<1>5. \/ s11' = gone /\ s10' = [s10 EXCEPT !.removed = TRUE]
      \/ s11' \in {s11, gone} /\ s10' = [s10 EXCEPT !.passed = FALSE]
      \/ ~s9 /\ s11' = s11 /\ s10' = [s10 EXCEPT !.removed = TRUE]
  BY <1>4 DEF Campaign!Cleanup
<1>6. /\ gone \in [Campaign!Keys -> CampaignRuns] /\ gone[key].status = "deleted"
      /\ gone[key].cost = s11[key].cost
      /\ \A l \in Campaign!Keys \ {key} : gone[l] = s11[l]
  <2>1. s11[key] \in CampaignRuns
    BY <1>3, <1>4
  <2>2. [s11[key] EXCEPT !.status = "deleted"] \in CampaignRuns
        /\ [s11[key] EXCEPT !.status = "deleted"].status = "deleted"
        /\ [s11[key] EXCEPT !.status = "deleted"].cost = s11[key].cost
    BY <2>1 DEF CampaignRuns
  <2>3. gone = [s11 EXCEPT ![key] = [s11[key] EXCEPT !.status = "deleted"]]
    BY <1>3, <1>4
  <2> QED
    BY <1>3, <1>4, <2>2, <2>3
<1> HIDE DEF gone
<1>7. /\ s11' \in [Campaign!Keys -> CampaignRuns] /\ s11'[key].cost = s11[key].cost
      /\ \A l \in Campaign!Keys \ {key} : s11'[l] = s11[l]
  BY <1>3, <1>5, <1>6
<1>8. /\ s10' \in CampaignAttempts /\ s10'.made /\ s10'.cost = s10.cost
      /\ s10'.complete = s10.complete /\ (s10'.passed => s10.passed)
  BY <1>4, <1>5 DEF CampaignAttempts
<1>9. s10'.passed /\ s10'.removed => s11'[key].status = "deleted"
  <2>1. CASE s10' = [s10 EXCEPT !.passed = FALSE]
    BY <1>4, <2>1 DEF CampaignAttempts
  <2> QED
    BY <1>4, <1>5, <1>6, <1>8, <2>1
<1>10. CampaignTypes'
  BY <1>1, <1>3, <1>7, <1>8 DEF CampaignTypes, CampaignLabels
<1>11. MemoryIsKept'
  BY <1>1, <1>2, <1>3, MemoryStays DEF Hand, Driving
<1>12. HeldOf(s11', s7) \subseteq {key}
  BY <1>4, <1>7 DEF HeldOf
<1>13. CaseInHand'
  <2>1. KeyOf(s7', s4') = key
    BY <1>1 DEF key
  <2> QED
    BY <1>1, <1>4, <1>7, <1>8, <1>9, <1>12, <2>1 DEF CaseInHand, Driving
<1>14. /\ Campaign!Attempt.made /\ Campaign!Attempt.cost = Cap
       /\ ~Campaign!Completed(Campaign!Attempt)
  BY CampaignValues
<1>15. s11'[key].cost <= Cap
  BY <1>4, <1>7, CampaignConstants
<1> QED
  BY <1>1, <1>4, <1>7, <1>10, <1>11, <1>13, <1>14, <1>15, ServiceKeeps

\* A run of the service ends by itself.
LEMMA RunEndsKeeps ==
  ASSUME Campaign!CampaignAssumption, CampaignInv, Campaign!RunEnds
  PROVE  CampaignInv'
<1>1. PICK k \in Campaign!Keys, status \in {"ready", "failed"} :
        s11[k].status = "running" /\ s11' = [s11 EXCEPT ![k].status = status]
  BY DEF Campaign!RunEnds
<1>2. s1' = s1 /\ s2' = s2 /\ s3' = s3 /\ s4' = s4 /\ s7' = s7 /\ s9' = s9 /\ s10' = s10
  BY DEF Campaign!RunEnds
<1>3. /\ CampaignTypes /\ MemoryIsKept /\ CaseInHand
      /\ s11 \in [Campaign!Keys -> CampaignRuns] /\ k[1] \in Cases
      /\ s3 \in CampaignFiles
  BY DEF CampaignInv, CampaignTypes, Campaign!Keys
<1>4. /\ s11' \in [Campaign!Keys -> CampaignRuns] /\ s11'[k].cost = s11[k].cost
      /\ s11'[k].status = status /\ \A l \in Campaign!Keys \ {k} : s11'[l] = s11[l]
  <2>1. s11[k] \in CampaignRuns
    BY <1>3
  <2>2. [s11[k] EXCEPT !.status = status] \in CampaignRuns
        /\ [s11[k] EXCEPT !.status = status].status = status
        /\ [s11[k] EXCEPT !.status = status].cost = s11[k].cost
    BY <2>1 DEF CampaignRuns
  <2>3. s11' = [s11 EXCEPT ![k] = [s11[k] EXCEPT !.status = status]]
    BY <1>1, <1>3
  <2> QED
    BY <1>3, <2>2, <2>3
<1>5. CaseIsKept(s11, s3.runs[k[1]], k[1]) /\ k \in HeldOf(s11, k[1])
  BY <1>1, <1>3, RunFields DEF CampaignInv, HeldOf
<1>6. HeldOf(s11, k[1]) = {k} /\ s3.runs[k[1]].made
  BY <1>5 DEF CaseIsKept
<1>7. ~s3.runs[k[1]].complete => s11'[k].cost <= s3.runs[k[1]].cost
  <2>1. CostIn(s11, k[1]) = s11[k].cost
    BY <1>3, <1>6, CostOfKey
  <2> QED
    BY <1>4, <1>5, <2>1 DEF CaseIsKept
<1>8. ~Campaign!Completed(s3.runs[k[1]])
  <2>1. ASSUME Earned(s11, k[1])
        PROVE  FALSE
    BY <1>1, <1>6, <2>1 DEF Earned
  <2> QED
    BY <1>5, <2>1 DEF CaseIsKept
<1>9. CampaignTypes'
  BY <1>2, <1>3, <1>4 DEF CampaignTypes
<1>10. MemoryIsKept'
  BY <1>2, <1>3 DEF MemoryIsKept
<1>11. CaseInHand'
  <2>1. CASE s1 \in Hand
    <3> DEFINE key == KeyOf(s7, s4)
    <3>1. /\ s10.made /\ (~s10.complete => s10.cost = Cap)
          /\ s10.passed => s9
          /\ s3.runs[s7] = Campaign!Attempt /\ HeldOf(s11, s7) \subseteq {key}
          /\ key \in Campaign!Keys /\ key[1] = s7
      BY <2>1, InHand
    <3>2. /\ s1 = "create" => s10 = Campaign!Attempt
          /\ s1 \in Driving => s9
          /\ s1 = "record" /\ s10.passed /\ s10.removed => s11[key].status = "deleted"
      BY <1>3, <2>1 DEF CaseInHand
    <3>3. KeyOf(s7', s4') = key
      BY <1>2
    <3> HIDE DEF key
    <3>4. /\ s11'[key].cost = s11[key].cost
          /\ s11[key].status = "deleted" => s11'[key].status = "deleted"
      BY <1>1, <1>4, <3>1
    <3>5. HeldOf(s11', s7) \subseteq {key}
      <4>1. \A l \in Campaign!Keys : s11'[l] # Campaign!NoRun => s11[l] # Campaign!NoRun
        BY <1>1, <1>4, RunFields
      <4> QED
        BY <3>1, <4>1 DEF HeldOf
    <3> QED
      BY <1>2, <3>1, <3>2, <3>3, <3>4, <3>5 DEF CaseInHand
  <2>2. CASE s1 \notin Hand
    BY <1>2, <2>2 DEF CaseInHand
  <2> QED
    BY <2>1, <2>2
<1> QED
  BY <1>2, <1>4, <1>6, <1>7, <1>8, <1>9, <1>10, <1>11, ServiceKeeps

LEMMA CampaignKeeps ==
  ASSUME Campaign!CampaignAssumption, CampaignSlips = {}, CampaignInv,
         Campaign!Next \/ UNCHANGED shared
  PROVE  CampaignInv'
<1>1. CASE Campaign!Start \/ Campaign!Preflight \/ Campaign!Merge \/ Campaign!Baseline
  BY <1>1, StartKeeps, PreflightKeeps, MergeKeeps, BaselineKeeps
<1>2. CASE Campaign!AlreadyComplete \/ Campaign!GateClosed
  BY <1>2, GateKeeps
<1>3. CASE Campaign!Book \/ Campaign!Refuse \/ Campaign!Interrupted \/ Campaign!Post
  BY <1>3, BookKeeps, RefuseKeeps, PostKeeps
<1>4. CASE Campaign!NotCreated \/ Campaign!Poll \/ Campaign!VerifySources \/ Campaign!VerifyGolden
  BY <1>4, MovesKeep
<1>5. CASE Campaign!FetchAnalysis \/ Campaign!VerifyQuestion \/ Campaign!Cleanup
  BY <1>5, AnalysisKeeps, QuestionKeeps, CleanupKeeps
<1>6. CASE Campaign!Record \/ Campaign!Finish \/ Campaign!Failing
  BY <1>6, RecordKeeps, FinishKeeps, FailingKeeps
<1>7. CASE Campaign!RunEnds \/ Campaign!Killed
  BY <1>7, RunEndsKeeps, KilledKeeps
<1>8. CASE UNCHANGED shared
  <2>1. /\ s1' = s1 /\ s2' = s2 /\ s3' = s3 /\ s4' = s4 /\ s7' = s7 /\ s9' = s9 /\ s10' = s10
        /\ s11' = s11
    BY <1>8 DEF shared
  <2>2. CampaignTypes' /\ MemoryIsKept' /\ CaseInHand'
    BY <2>1 DEF CampaignInv, CampaignTypes, MemoryIsKept, CaseInHand
  <2> QED
    BY <2>1, <2>2, SameCases
<1> QED
  BY <1>1, <1>2, <1>3, <1>4, <1>5, <1>6, <1>7, <1>8 DEF Campaign!Next, Campaign!Invocation

\* The invariant is enough.
LEMMA CampaignIsPaidOnce ==
  ASSUME Campaign!CampaignAssumption, CampaignInv
  PROVE  Campaign!PaidOnce
<1>1. CampaignTypes /\ SpentOf(s3.runs) <= Budget
  BY DEF CampaignInv, MemoryIsKept
<1>2. s3.runs \in [Cases -> CampaignAttempts] /\ s11 \in [Campaign!Keys -> CampaignRuns]
  BY <1>1, FileFields DEF CampaignTypes
<1>3. ASSUME NEW c \in Cases
      PROVE  /\ Campaign!Cardinality(Campaign!RunsOf(c)) <= 1
             /\ Campaign!RunsOf(c) # {} => s3.runs[c].made
             /\ c \notin Campaign!Understated => CostIn(s11, c) <= s3.runs[c].cost
  <2>1. CaseIsKept(s11, s3.runs[c], c) /\ Campaign!RunsOf(c) = HeldOf(s11, c)
    BY HeldInState DEF CampaignInv
  <2>2. s3.runs[c].made \in BOOLEAN
    BY <1>2, AttemptFields
  <2>3. HeldOf(s11, c) # {} => s3.runs[c].made
    BY <2>1, <2>2 DEF CaseIsKept
  <2>4. Campaign!Cardinality(HeldOf(s11, c)) <= 1
    <3> DEFINE H == HeldOf(s11, c)
    <3>1. \A k, l \in H : k = l
      BY <2>1 DEF CaseIsKept
    <3> HIDE DEF H
    <3>2. Cardinality(H) <= 1
      <4>1. CASE H = {}
        BY <4>1, FS_EmptySet
      <4>2. CASE H # {}
        <5>1. PICK k : k \in H
          BY <4>2
        <5>2. H = {k}
          BY <3>1, <5>1
        <5>3. Cardinality({k}) = 1
          BY FS_Singleton
        <5> QED
          BY <5>2, <5>3
      <4> QED
        BY <4>1, <4>2
    <3>3. Campaign!Cardinality(H) = Cardinality(H)
      BY DEF Campaign!Cardinality, Campaign!IsFiniteSet, Cardinality, IsFiniteSet
    <3> QED
      BY <3>2, <3>3 DEF H
  <2>5. ASSUME c \notin Campaign!Understated, s3.runs[c].complete
        PROVE  CostIn(s11, c) <= s3.runs[c].cost
    <3>1. /\ s3.runs[c].cost \in Nat
          /\ \A k \in HeldOf(s11, c) : s11[k].cost \in Nat /\ ~(s3.runs[c].cost < s11[k].cost)
      BY <1>2, <2>1, <2>5, AttemptFields, RunFields DEF Campaign!Understated, HeldOf
    <3>2. CASE HeldOf(s11, c) = {}
      BY <3>1, <3>2 DEF CostIn
    <3>3. CASE HeldOf(s11, c) # {}
      <4>1. (CHOOSE k \in HeldOf(s11, c) : TRUE) \in HeldOf(s11, c)
        BY <3>3
      <4> QED
        BY <3>1, <3>3, <4>1 DEF CostIn
    <3> QED
      BY <3>2, <3>3
  <2>6. ~s3.runs[c].complete => CostIn(s11, c) <= s3.runs[c].cost
    BY <2>1 DEF CaseIsKept
  <2> QED
    BY <2>1, <2>3, <2>4, <2>5, <2>6
<1>4. ASSUME Campaign!Understated = {}
      PROVE  Campaign!Debit <= Budget
  <2>1. IsSum(DebitOf(s11), CostsIn(s11), Cases) /\ IsFiniteSet(Cases) /\ Budget \in Nat
    BY CampaignConstants DEF CampaignInv
  <2>2. \A c \in Cases : /\ CostsIn(s11)[c] \in Nat /\ Costs(s3.runs)[c] \in Nat
                         /\ s3.runs[c].cost \in Nat /\ CostsIn(s11)[c] <= Costs(s3.runs)[c]
    BY <1>2, <1>3, <1>4, CostsAreNatural, AttemptFields DEF CostsIn, Costs
  <2>3. IsSum(SpentOf(s3.runs), Costs(s3.runs), Cases)
    BY <2>1, <2>2, SpentIsSum
  <2>4. DebitOf(s11) <= SpentOf(s3.runs)
    BY <2>1, <2>2, <2>3, SumsGrow
  <2>5. DebitOf(s11) \in Nat /\ SpentOf(s3.runs) \in Nat
    BY <2>1, <2>2, <2>3, SumsAreNatural
  <2> QED
    BY <1>1, <2>1, <2>4, <2>5, DebitInState
<1> QED
  BY <1>3, <1>4 DEF Campaign!PaidOnce

LEMMA CampaignPassIsEarned ==
  ASSUME Campaign!CampaignAssumption, CampaignInv
  PROVE  Campaign!PassIsEarned
<1> SUFFICES ASSUME s3.verdict = "pass", NEW c \in Cases
             PROVE  \E k \in Campaign!Keys :
                      Campaign!RunsOf(c) = {k} /\ s11[k].status = "deleted"
  BY DEF Campaign!PassIsEarned
<1>1. Campaign!Completed(s3.runs[c])
  BY DEF CampaignInv, MemoryIsKept
<1>2. Earned(s11, c)
  BY <1>1 DEF CampaignInv, CaseIsKept
<1> QED
  BY <1>2, HeldInState DEF Earned

-----------------------------------------------------------------------------
(*****************************************************************************)
(* The wallet of a campaign: a comparison that came out even stays even but  *)
(* for the case that was booked last.                                        *)
(*****************************************************************************)

\* What the wallet lost and what the runs report, apart from those of one case.
Agrees(held, runs, c) == DebitOf(held) - CostIn(held, c) = ReportedOf(runs) - runs[c].reported
Agreement(held, runs) == DebitOf(held) = ReportedOf(runs) \/ \E c \in Cases : Agrees(held, runs, c)
ComparedAs(label, held, c, m) ==
  m.reconciled => IF label \in Hand THEN Agrees(held, m.runs, c) ELSE Agreement(held, m.runs)

WalletInv ==
  /\ s2.before \in {Campaign!Unread, 0} /\ s3.before \in {Campaign!Unread, 0}
  /\ ComparedAs(s1, s11, s7, s2) /\ ComparedAs(s1, s11, s7, s3)
  /\ s3.verdict = "pass" => s3.reconciled

LEMMA WalletTypes ==
  ASSUME CampaignInv
  PROVE  /\ s2 \in CampaignFiles /\ s3 \in CampaignFiles /\ s7 \in Cases
         /\ s2.runs \in [Cases -> CampaignAttempts] /\ s3.runs \in [Cases -> CampaignAttempts]
         /\ s2.reconciled \in BOOLEAN /\ s3.reconciled \in BOOLEAN
         /\ s11 \in [Campaign!Keys -> CampaignRuns]
BY FileFields DEF CampaignInv, CampaignTypes

LEMMA ReportsAdd ==
  ASSUME Campaign!CampaignAssumption, NEW runs \in [Cases -> CampaignAttempts]
  PROVE  /\ IsSum(ReportedOf(runs), Reports(runs), Cases) /\ IsFiniteSet(Cases)
         /\ \A c \in Cases : /\ Reports(runs)[c] = runs[c].reported
                             /\ Reports(runs)[c] \in Nat /\ runs[c].reported \in Nat
<1>1. \A c \in Cases : runs[c].reported \in Nat /\ Reports(runs)[c] = runs[c].reported
  BY AttemptFields DEF Reports
<1> QED
  BY <1>1, CampaignConstants, ReportedIsSum

\* Attempts that report the same.
LEMMA ReportsStay ==
  ASSUME Campaign!CampaignAssumption, NEW runs \in [Cases -> CampaignAttempts],
         NEW then \in [Cases -> CampaignAttempts],
         \A c \in Cases : then[c].reported = runs[c].reported
  PROVE  ReportedOf(then) = ReportedOf(runs)
<1>1. /\ IsSum(ReportedOf(runs), Reports(runs), Cases) /\ IsFiniteSet(Cases)
      /\ IsSum(ReportedOf(then), Reports(then), Cases)
      /\ \A c \in Cases : Reports(runs)[c] \in Nat /\ Reports(then)[c] = Reports(runs)[c]
  BY ReportsAdd
<1> QED
  BY <1>1, SumsAgree

\* What a file with one attempt replaced reports.
LEMMA ReportedFollows ==
  ASSUME Campaign!CampaignAssumption, NEW runs \in [Cases -> CampaignAttempts],
         NEW c \in Cases, NEW a \in CampaignAttempts
  PROVE  LET then == [runs EXCEPT ![c] = a]
         IN  ReportedOf(then) - then[c].reported = ReportedOf(runs) - runs[c].reported
<1> DEFINE then == [runs EXCEPT ![c] = a]
<1>1. then \in [Cases -> CampaignAttempts] /\ \A d \in Cases \ {c} : then[d] = runs[d]
  OBVIOUS
<1> HIDE DEF then
<1>2. /\ IsSum(ReportedOf(runs), Reports(runs), Cases) /\ IsFiniteSet(Cases)
      /\ \A d \in Cases : /\ Reports(runs)[d] = runs[d].reported
                          /\ Reports(runs)[d] \in Nat
  BY ReportsAdd
<1>3. /\ IsSum(ReportedOf(then), Reports(then), Cases)
      /\ \A d \in Cases : /\ Reports(then)[d] = then[d].reported
                          /\ Reports(then)[d] \in Nat
  BY <1>1, ReportsAdd
<1>4. \A d \in Cases \ {c} : Reports(then)[d] = Reports(runs)[d]
  BY <1>1, <1>2, <1>3
<1>5. /\ ReportedOf(then) = ReportedOf(runs) - Reports(runs)[c] + Reports(then)[c]
      /\ ReportedOf(runs) \in Nat /\ ReportedOf(then) \in Nat
  BY <1>2, <1>3, <1>4, SumsReplace
<1>6. ReportedOf(then) - then[c].reported = ReportedOf(runs) - runs[c].reported
  BY <1>2, <1>3, <1>5
<1> QED
  BY <1>6 DEF then

LEMMA SumsOfState ==
  ASSUME Campaign!CampaignAssumption, CampaignInv, NEW c \in Cases
  PROVE  DebitOf(s11) \in Nat /\ CostIn(s11, c) \in Nat
<1>1. IsSum(DebitOf(s11), CostsIn(s11), Cases) /\ IsFiniteSet(Cases)
  BY CampaignConstants DEF CampaignInv
<1>2. \A d \in Cases : CostIn(s11, d) \in Nat /\ CostsIn(s11)[d] \in Nat
  BY WalletTypes, CostsAreNatural DEF CostsIn
<1> QED
  BY <1>1, <1>2, SumsAreNatural

\* A comparison that is kept: nothing is paid, reported or booked.
LEMMA ComparedStays ==
  ASSUME Campaign!CampaignAssumption, NEW held, NEW m \in CampaignFiles, NEW n \in CampaignFiles,
         n.reconciled =>
           m.reconciled /\ \A d \in Cases : n.runs[d].reported = m.runs[d].reported,
         NEW c \in Cases, NEW e, NEW label, NEW next,
         next \in Hand => label \in Hand /\ e = c,
         ComparedAs(label, held, c, m)
  PROVE  ComparedAs(next, held, e, n)
<1> SUFFICES ASSUME n.reconciled
             PROVE  ComparedAs(next, held, e, n)
  BY DEF ComparedAs
<1>1. m.runs \in [Cases -> CampaignAttempts] /\ n.runs \in [Cases -> CampaignAttempts]
  BY FileFields
<1>2. ReportedOf(n.runs) = ReportedOf(m.runs)
  BY <1>1, ReportsStay
<1>3. \A d \in Cases : Agrees(held, m.runs, d) => Agrees(held, n.runs, d)
  BY <1>2 DEF Agrees
<1> QED
  BY <1>2, <1>3 DEF ComparedAs, Agreement

\* A comparison that is made: the wallet of a campaign counts from nothing.
LEMMA ComparedNow ==
  ASSUME Campaign!CampaignAssumption, CampaignInv, NEW m \in CampaignFiles,
         m.before \in {Campaign!Unread, 0}, Campaign!Reconciled(m)
  PROVE  DebitOf(s11) = ReportedOf(m.runs)
<1>1. m.before = 0 /\ Campaign!Debit - m.before = Campaign!Reported(m)
  BY DEF Campaign!Reconciled
<1>2. DebitOf(s11) \in Nat
  BY WalletTypes, SumsOfState
<1> QED
  BY <1>1, <1>2, DebitInState, SpentInState

\* Nothing is spent before a case is booked.
LEMMA NothingDebited ==
  ASSUME Campaign!CampaignAssumption, CampaignInv, \A c \in Cases : ~s3.runs[c].made
  PROVE  DebitOf(s11) = 0
<1>1. \A c \in Cases : CostsIn(s11)[c] = 0
  BY BookedCase DEF CostsIn, CostIn
<1>2. IsSum(DebitOf(s11), CostsIn(s11), Cases) /\ IsFiniteSet(Cases)
  BY CampaignConstants DEF CampaignInv
<1> QED
  BY <1>1, <1>2, ZeroSums

\* The runs of the service change, and cost what they did.
LEMMA CostsStay ==
  ASSUME NEW held, NEW new, NEW m, DebitOf(new) = DebitOf(held),
         \A d \in Cases : CostIn(new, d) = CostIn(held, d),
         NEW c \in Cases, NEW label, NEW next, next \in Hand => label \in Hand,
         ComparedAs(label, held, c, m)
  PROVE  ComparedAs(next, new, c, m)
<1>1. \A d \in Cases : Agrees(held, m.runs, d) => Agrees(new, m.runs, d)
  BY DEF Agrees
<1> QED
  BY <1>1 DEF ComparedAs, Agreement

\* What the runs cost when one of them changes that is its case's only one.
LEMMA DebitMoves ==
  ASSUME Campaign!CampaignAssumption, CampaignInv, NEW new \in [Campaign!Keys -> CampaignRuns],
         NEW k \in Campaign!Keys, \A l \in Campaign!Keys \ {k} : new[l] = s11[l],
         HeldOf(s11, k[1]) \subseteq {k}
  PROVE  /\ DebitOf(new) - CostIn(new, k[1]) = DebitOf(s11) - CostIn(s11, k[1])
         /\ DebitOf(new) \in Nat /\ CostIn(new, k[1]) \in Nat
         /\ CostIn(new, k[1]) = new[k].cost /\ CostIn(s11, k[1]) = s11[k].cost
         /\ \A c \in Cases \ {k[1]} : CostIn(new, c) = CostIn(s11, c)
<1>1. /\ s11 \in [Campaign!Keys -> CampaignRuns] /\ k[1] \in Cases
      /\ IsSum(DebitOf(s11), CostsIn(s11), Cases) /\ IsFiniteSet(Cases)
  BY CampaignConstants DEF CampaignInv, CampaignTypes, Campaign!Keys
<1>2. PICK held : held = s11
  OBVIOUS
<1>3. /\ held \in [Campaign!Keys -> CampaignRuns] /\ k[1] \in Cases
      /\ IsSum(DebitOf(held), CostsIn(held), Cases)
      /\ \A l \in Campaign!Keys \ {k} : new[l] = held[l]
      /\ HeldOf(held, k[1]) \subseteq {k}
  BY <1>1, <1>2
<1>4. IsSum(DebitOf(new), CostsIn(new), Cases)
  BY <1>3, DebitFollows
<1>5. CostIn(new, k[1]) = new[k].cost
  BY <1>3, DebitFollows
<1>6. \A c \in Cases \ {k[1]} : CostIn(new, c) = CostIn(held, c)
  BY <1>3, DebitFollows
<1>7. CostIn(held, k[1]) = held[k].cost
  BY <1>3, CostOfKey
<1>8. \A c \in Cases : /\ CostsIn(held)[c] = CostIn(held, c) /\ CostsIn(new)[c] = CostIn(new, c)
                       /\ CostsIn(held)[c] \in Nat /\ CostsIn(new)[c] \in Nat
  BY <1>3, CostsAreNatural DEF CostsIn
<1>9. \A c \in Cases \ {k[1]} : CostsIn(new)[c] = CostsIn(held)[c]
  BY <1>6, <1>8
<1>10. /\ DebitOf(new) = DebitOf(held) - CostsIn(held)[k[1]] + CostsIn(new)[k[1]]
       /\ DebitOf(held) \in Nat /\ DebitOf(new) \in Nat
  BY <1>1, <1>3, <1>4, <1>8, <1>9, SumsReplace
<1>11. DebitOf(new) - CostIn(new, k[1]) = DebitOf(held) - CostIn(held, k[1])
  BY <1>3, <1>8, <1>10
<1> QED
  BY <1>2, <1>3, <1>5, <1>6, <1>7, <1>8, <1>10, <1>11

\* The wallet of a campaign before its first invocation.
LEMMA WalletStarts ==
  ASSUME Campaign!CampaignAssumption, Campaign!Init
  PROVE  WalletInv
<1>1. s2 = Campaign!Fresh /\ s3 = Campaign!NoFile
  BY DEF Campaign!Init
<1>2. /\ s2.before = Campaign!Unread /\ s3.before = Campaign!Unread
      /\ ~s2.reconciled /\ ~s3.reconciled /\ s3.verdict = "absent"
  BY <1>1 DEF Campaign!Fresh, Campaign!NoFile
<1> QED
  BY <1>2 DEF WalletInv, ComparedAs

\* A step that pays nothing and takes its comparison from the memory or from the file.
LEMMA QuietKeeps ==
  ASSUME Campaign!CampaignAssumption, CampaignInv, CampaignInv', WalletInv, s11' = s11,
         s2'.before \in {Campaign!Unread, 0}, s3'.before \in {Campaign!Unread, 0},
         s3'.verdict = "pass" => s3'.reconciled,
         s1' \in Hand => s1 \in Hand /\ s7' = s7,
         s2'.reconciled => \E m \in {s2, s3} :
           m.reconciled /\ \A d \in Cases : s2'.runs[d].reported = m.runs[d].reported,
         s3'.reconciled => \E m \in {s2, s3} :
           m.reconciled /\ \A d \in Cases : s3'.runs[d].reported = m.runs[d].reported
  PROVE  WalletInv'
<1>1. /\ s2 \in CampaignFiles /\ s3 \in CampaignFiles /\ s7 \in Cases
      /\ s2' \in CampaignFiles /\ s3' \in CampaignFiles
  BY DEF CampaignInv, CampaignTypes
<1>2. \A m \in {s2, s3} : ComparedAs(s1, s11, s7, m)
  BY DEF WalletInv
<1>3. ASSUME NEW n \in {s2', s3'}
      PROVE  ComparedAs(s1', s11, s7', n)
  <2>1. CASE ~n.reconciled
    BY <2>1 DEF ComparedAs
  <2>2. CASE n.reconciled
    <3>1. PICK m \in {s2, s3} :
            m.reconciled /\ \A d \in Cases : n.runs[d].reported = m.runs[d].reported
      BY <1>3, <2>2
    <3> QED
      BY <1>1, <1>2, <1>3, <3>1, ComparedStays
  <2> QED
    BY <2>1, <2>2
<1> QED
  BY <1>3 DEF WalletInv

LEMMA WalletStays ==
  ASSUME Campaign!CampaignAssumption, CampaignInv, CampaignInv', WalletInv,
         s2' = s2, s3' = s3, s11' = s11, s1' \in Hand => s1 \in Hand /\ s7' = s7
  PROVE  WalletInv'
<1>1. /\ s2'.before \in {Campaign!Unread, 0} /\ s3'.before \in {Campaign!Unread, 0}
      /\ s3'.verdict = "pass" => s3'.reconciled
  BY DEF WalletInv
<1> QED
  BY <1>1, QuietKeeps

\* The steps that neither pay nor write.
LEMMA WalletMoves ==
  ASSUME Campaign!CampaignAssumption, CampaignInv, CampaignInv', WalletInv,
         \/ Campaign!Preflight \/ Campaign!Refuse \/ Campaign!Interrupted \/ Campaign!Killed
         \/ Campaign!NotCreated \/ Campaign!Poll \/ Campaign!VerifySources
         \/ Campaign!VerifyGolden \/ Campaign!FetchAnalysis \/ Campaign!VerifyQuestion
  PROVE  WalletInv'
<1>1. s2' = s2 /\ s3' = s3 /\ s11' = s11 /\ s7' = s7
  BY DEF Campaign!Preflight, Campaign!Refuse, Campaign!Interrupted, Campaign!Killed,
         Campaign!NotCreated, Campaign!Poll, Campaign!VerifySources, Campaign!VerifyGolden,
         Campaign!FetchAnalysis, Campaign!VerifyQuestion, Campaign!Gate, Campaign!Local,
         Campaign!OneCase
<1>2. s1' \in Hand => s1 \in Hand
  BY DEF Campaign!Preflight, Campaign!Refuse, Campaign!Interrupted, Campaign!Killed,
         Campaign!NotCreated, Campaign!Poll, Campaign!VerifySources, Campaign!VerifyGolden,
         Campaign!FetchAnalysis, Campaign!VerifyQuestion, Campaign!Gate, Campaign!Goto,
         Hand, Driving
<1> QED
  BY <1>1, <1>2, WalletStays

LEMMA WalletResumes ==
  ASSUME Campaign!CampaignAssumption, CampaignSlips = {}, CampaignInv, CampaignInv', WalletInv,
         Campaign!Start \/ Campaign!Merge
  PROVE  WalletInv'
<1>1. /\ s3' = s3 /\ s11' = s11 /\ s1' \notin Hand
      /\ s2' = Campaign!Fresh \/ s2' = Campaign!Resumed
  BY DEF Campaign!Start, Campaign!Merge, Campaign!Goto, Campaign!Local, Hand, Driving
<1>2. /\ s2 \in CampaignFiles /\ s2.before \in {Campaign!Unread, 0}
      /\ s3.before \in {Campaign!Unread, 0} /\ (s3.verdict = "pass" => s3.reconciled)
  BY DEF CampaignInv, CampaignTypes, WalletInv
<1>3. Campaign!Fresh.before = Campaign!Unread /\ ~Campaign!Fresh.reconciled
  BY DEF Campaign!Fresh
<1>4. \/ ~s2'.reconciled /\ s2'.before = Campaign!Unread
      \/ s2' = s2
      \/ /\ s2'.before = s3.before /\ s2'.reconciled = s3.reconciled /\ s2'.runs = s3.runs
  BY <1>1, <1>2, <1>3 DEF Campaign!Resumed, CampaignFiles
<1> QED
  BY <1>1, <1>2, <1>4, QuietKeeps

LEMMA WalletAtGate ==
  ASSUME Campaign!CampaignAssumption, CampaignInv, CampaignInv', WalletInv,
         Campaign!AlreadyComplete \/ Campaign!GateClosed
  PROVE  WalletInv'
<1>1. /\ s2' = s3' /\ s11' = s11 /\ s1' \notin Hand
      /\ \/ s3' = [s2 EXCEPT !.verdict = "pass"] /\ s2.reconciled
         \/ s3' = [s2 EXCEPT !.verdict = "paid_gate_closed"]
  BY DEF Campaign!AlreadyComplete, Campaign!GateClosed, Campaign!Goto, Campaign!Local,
         Campaign!Write, Campaign!Passed, Hand, Driving
<1>2. s2 \in CampaignFiles /\ s2.before \in {Campaign!Unread, 0}
  BY DEF CampaignInv, CampaignTypes, WalletInv
<1>3. /\ s3'.before = s2.before /\ s3'.reconciled = s2.reconciled /\ s3'.runs = s2.runs
      /\ s3'.verdict = "pass" => s2.reconciled
  BY <1>1, <1>2 DEF CampaignFiles
<1> QED
  BY <1>1, <1>2, <1>3, QuietKeeps

LEMMA WalletIsRead ==
  ASSUME Campaign!CampaignAssumption, CampaignInv, CampaignInv', WalletInv, Campaign!Baseline
  PROVE  WalletInv'
<1>1. /\ s1 = "gate" /\ s11' = s11 /\ s1' \notin Hand
      /\ \/ s2' = s2 /\ s3' = s3
         \/ /\ s2' = s3' /\ s3' = [s2 EXCEPT !.before = Campaign!Debit]
            /\ \A c \in Cases : ~s2.runs[c].made
  BY DEF Campaign!Baseline, Campaign!Goto, Campaign!Write, Campaign!Local, Hand, Driving
<1>2. CASE s2' = s2 /\ s3' = s3
  BY <1>1, <1>2, WalletStays
<1>3. CASE /\ s2' = s3' /\ s3' = [s2 EXCEPT !.before = Campaign!Debit]
           /\ \A c \in Cases : ~s2.runs[c].made
  <2>1. s2 \in CampaignFiles /\ s2.runs = s3.runs /\ s2.verdict = "incomplete"
    BY <1>1 DEF CampaignInv, CampaignTypes, MemoryIsKept
  <2>2. Campaign!Debit = 0
    BY <1>3, <2>1, NothingDebited, DebitInState
  <2>3. /\ s3'.before = 0 /\ s3'.reconciled = s2.reconciled /\ s3'.runs = s2.runs
        /\ s3'.verdict = "incomplete"
    BY <1>3, <2>1, <2>2 DEF CampaignFiles
  <2> QED
    BY <1>1, <1>3, <2>3, QuietKeeps
<1> QED
  BY <1>1, <1>2, <1>3

LEMMA WalletBooks ==
  ASSUME Campaign!CampaignAssumption, CampaignInv, CampaignInv', WalletInv, Campaign!Book
  PROVE  WalletInv'
<1> DEFINE c == Campaign!Upcoming
           m == [s2 EXCEPT !.runs[c] = Campaign!Attempt]
<1>1. s1 = "cases" /\ s7' = c /\ s11' = s11 /\ c \in Cases /\ Campaign!Affordable(c)
  BY UpcomingIsCase DEF Campaign!Book
<1>2. \/ s2' = s3' /\ s1' = "create" /\ s3' = [m EXCEPT !.reconciled = Campaign!Reconciled(m)]
      \/ s2' = m /\ s1' = "failing" /\ s3' = s3
  BY DEF Campaign!Book, Campaign!Write, Campaign!Goto
<1> HIDE DEF c
<1>3. /\ s2 \in CampaignFiles /\ s2.runs = s3.runs /\ s2.verdict = "incomplete"
      /\ s2.before \in {Campaign!Unread, 0} /\ (s3.verdict = "pass" => s3.reconciled)
      /\ s3.before \in {Campaign!Unread, 0}
  BY <1>1 DEF CampaignInv, CampaignTypes, MemoryIsKept, WalletInv, Hand
<1>4. ~s3.runs[c].made
  BY <1>1, <1>3 DEF Campaign!Affordable
<1>5. HeldOf(s11, c) = {} /\ s3.runs[c] = Campaign!NoAttempt /\ CostIn(s11, c) = 0
  BY <1>1, <1>4, BookedCase DEF CostIn
<1>6. /\ m \in CampaignFiles /\ m.runs = [s3.runs EXCEPT ![c] = Campaign!Attempt]
      /\ m.before = s2.before /\ m.reconciled = s2.reconciled
  <2>1. m \in CampaignFiles /\ m.runs = [s3.runs EXCEPT ![c] = Campaign!Attempt]
    BY <1>1, <1>3, CampaignValues, CaseIsSet
  <2> QED
    BY <1>3, <2>1 DEF CampaignFiles
<1> HIDE DEF m
<1>7. /\ m.runs[c].reported = 0 /\ s2.runs[c].reported = 0
      /\ \A d \in Cases \ {c} : m.runs[d] = s2.runs[d]
  BY <1>1, <1>3, <1>5, <1>6, FileFields DEF Campaign!Attempt, Campaign!NoAttempt
<1>8. CASE s2' = m /\ s1' = "failing" /\ s3' = s3
  <2>1. \A d \in Cases : s2'.runs[d].reported = s2.runs[d].reported
    BY <1>7, <1>8
  <2> QED
    BY <1>1, <1>3, <1>6, <1>8, <2>1, QuietKeeps DEF Hand, Driving
<1>9. CASE s2' = s3' /\ s1' = "create" /\ s3' = [m EXCEPT !.reconciled = Campaign!Reconciled(m)]
  <2>1. /\ s3'.runs = m.runs /\ s3'.before = m.before /\ s3'.reconciled = Campaign!Reconciled(m)
        /\ s3'.verdict # "pass"
    <3>1. m.verdict = "incomplete"
      BY <1>1, <1>3, CampaignValues, CaseIsSet DEF m
    <3> QED
      BY <1>6, <1>9, <3>1 DEF CampaignFiles
  <2>2. ASSUME Campaign!Reconciled(m)
        PROVE  Agrees(s11, m.runs, c)
    <3>1. DebitOf(s11) = ReportedOf(m.runs)
      BY <1>3, <1>6, <2>2, ComparedNow
    <3> QED
      BY <1>5, <1>7, <3>1 DEF Agrees
  <2>3. ComparedAs(s1', s11', s7', s3')
    BY <1>1, <1>9, <2>1, <2>2 DEF ComparedAs, Hand
  <2> QED
    BY <1>3, <1>6, <1>9, <2>1, <2>3 DEF WalletInv
<1> QED
  BY <1>2, <1>8, <1>9

\* The run of the case in hand may cost something, and no other does.
LEMMA WalletInHand ==
  ASSUME Campaign!CampaignAssumption, CampaignInv, CampaignInv', WalletInv,
         s1 \in Hand, s1' \in Hand, s2' = s2, s3' = s3, s7' = s7,
         \A l \in Campaign!Keys \ {KeyOf(s7, s4)} : s11'[l] = s11[l]
  PROVE  WalletInv'
<1> DEFINE key == KeyOf(s7, s4)
<1>1. key \in Campaign!Keys /\ key[1] = s7 /\ HeldOf(s11, s7) \subseteq {key}
  BY InHand
<1> HIDE DEF key
<1>2. PICK new : new = s11'
  OBVIOUS
<1>3. new \in [Campaign!Keys -> CampaignRuns] /\ \A l \in Campaign!Keys \ {key} : new[l] = s11[l]
  BY <1>2 DEF CampaignInv, CampaignTypes, key
<1>4. DebitOf(new) - CostIn(new, s7) = DebitOf(s11) - CostIn(s11, s7)
  BY <1>1, <1>3, DebitMoves
<1>5. ASSUME NEW m \in {s2, s3}
      PROVE  ComparedAs(s1', new, s7, m)
  BY <1>4 DEF WalletInv, ComparedAs, Agrees
<1> QED
  BY <1>2, <1>5 DEF WalletInv

LEMMA WalletPays ==
  ASSUME Campaign!CampaignAssumption, CampaignInv, CampaignInv', WalletInv,
         Campaign!Post \/ Campaign!Cleanup
  PROVE  WalletInv'
<1>1. /\ s2' = s2 /\ s3' = s3 /\ s7' = s7 /\ s1 \in Hand /\ s1' \in Hand
  BY DEF Campaign!Post, Campaign!Cleanup, Campaign!OneCase, Campaign!Goto, Hand, Driving
<1>2. \/ s11' = s11
      \/ \E run : s11' = [s11 EXCEPT ![Campaign!Key] = run]
  <2>1. CASE Campaign!Post
    BY <2>1 DEF Campaign!Post, Campaign!Admit
  <2>2. CASE Campaign!Cleanup
    <3>1. s11' = s11 \/ s11' = [s11 EXCEPT ![Campaign!Key].status = "deleted"]
      BY <2>2 DEF Campaign!Cleanup
    <3>2. [s11 EXCEPT ![Campaign!Key].status = "deleted"]
            = [s11 EXCEPT ![Campaign!Key] = [s11[Campaign!Key] EXCEPT !.status = "deleted"]]
      OBVIOUS
    <3> QED
      BY <3>1, <3>2
  <2> QED
    BY <2>1, <2>2
<1>3. Campaign!Key = KeyOf(s7, s4) /\ s11 \in [Campaign!Keys -> CampaignRuns]
  BY <1>1, InHand, WalletTypes
<1>4. \A l \in Campaign!Keys \ {KeyOf(s7, s4)} : s11'[l] = s11[l]
  BY <1>2, <1>3
<1> QED
  BY <1>1, <1>4, WalletInHand

\* A run that ends costs what it did.
LEMMA WalletWaits ==
  ASSUME Campaign!CampaignAssumption, CampaignInv, CampaignInv', WalletInv, Campaign!RunEnds
  PROVE  WalletInv'
<1>1. PICK k \in Campaign!Keys, status \in {"ready", "failed"} :
        s11[k].status = "running" /\ s11' = [s11 EXCEPT ![k].status = status]
  BY DEF Campaign!RunEnds
<1>2. s1' = s1 /\ s2' = s2 /\ s3' = s3 /\ s7' = s7
  BY DEF Campaign!RunEnds
<1>3. /\ s11 \in [Campaign!Keys -> CampaignRuns] /\ k[1] \in Cases /\ s7 \in Cases
      /\ s11[k] \in CampaignRuns
  BY WalletTypes DEF Campaign!Keys
<1>4. PICK new : new = s11'
  OBVIOUS
<1>5. /\ new \in [Campaign!Keys -> CampaignRuns] /\ new[k].cost = s11[k].cost
      /\ \A l \in Campaign!Keys \ {k} : new[l] = s11[l]
  <2>1. [s11[k] EXCEPT !.status = status].cost = s11[k].cost
    BY <1>3 DEF CampaignRuns
  <2>2. s11' = [s11 EXCEPT ![k] = [s11[k] EXCEPT !.status = status]]
    BY <1>1, <1>3
  <2> QED
    BY <1>3, <1>4, <2>1, <2>2 DEF CampaignInv, CampaignTypes
<1>6. HeldOf(s11, k[1]) \subseteq {k}
  <2>1. k \in HeldOf(s11, k[1])
    BY <1>1, <1>3, RunFields DEF HeldOf
  <2> QED
    BY <1>3, <2>1 DEF CampaignInv, CaseIsKept
<1>7. /\ DebitOf(new) - CostIn(new, k[1]) = DebitOf(s11) - CostIn(s11, k[1])
      /\ DebitOf(new) \in Nat /\ CostIn(new, k[1]) \in Nat
      /\ CostIn(new, k[1]) = new[k].cost /\ CostIn(s11, k[1]) = s11[k].cost
      /\ \A c \in Cases \ {k[1]} : CostIn(new, c) = CostIn(s11, c)
  BY <1>5, <1>6, DebitMoves
<1>8. DebitOf(new) = DebitOf(s11) /\ \A c \in Cases : CostIn(new, c) = CostIn(s11, c)
  <2>1. DebitOf(s11) \in Nat /\ CostIn(s11, k[1]) \in Nat
    BY <1>3, SumsOfState
  <2> QED
    BY <1>3, <1>5, <1>7, <2>1
<1>9. ASSUME NEW m \in {s2, s3}
      PROVE  ComparedAs(s1, new, s7, m)
  <2>1. ComparedAs(s1, s11, s7, m)
    BY <1>9 DEF WalletInv
  <2> QED
    BY <1>3, <1>8, <2>1, CostsStay
<1> QED
  BY <1>2, <1>4, <1>9 DEF WalletInv

LEMMA WalletRecords ==
  ASSUME Campaign!CampaignAssumption, CampaignInv, CampaignInv', WalletInv, Campaign!Record
  PROVE  WalletInv'
<1>1. /\ s1 = "record" /\ s1' \notin Hand /\ s2' = s3' /\ s11' = s11
      /\ s3' = [s2 EXCEPT !.runs[s7] = s10]
  BY DEF Campaign!Record, Campaign!Write, Campaign!Goto, Campaign!Local, Hand, Driving
<1>2. /\ s2 \in CampaignFiles /\ s2.runs \in [Cases -> CampaignAttempts] /\ s7 \in Cases
      /\ s10 \in CampaignAttempts
      /\ s2.verdict = "incomplete" /\ s2.before \in {Campaign!Unread, 0}
  BY <1>1, WalletTypes DEF CampaignInv, CampaignTypes, MemoryIsKept, WalletInv
<1>3. /\ s3'.runs = [s2.runs EXCEPT ![s7] = s10] /\ s3'.verdict = "incomplete"
      /\ s3'.before = s2.before /\ s3'.reconciled = s2.reconciled
  <2>1. s3'.runs = [s2.runs EXCEPT ![s7] = s10] /\ s3'.verdict = "incomplete"
    BY <1>1, <1>2, CaseIsSet
  <2> QED
    BY <1>1, <1>2, <2>1 DEF CampaignFiles
<1>4. ASSUME s2.reconciled
      PROVE  Agreement(s11, s3'.runs)
  <2>1. Agrees(s11, s2.runs, s7)
    BY <1>1, <1>4 DEF WalletInv, ComparedAs, Hand
  <2>2. ReportedOf(s3'.runs) - s3'.runs[s7].reported = ReportedOf(s2.runs) - s2.runs[s7].reported
    BY <1>2, <1>3, ReportedFollows
  <2> QED
    BY <1>2, <2>1, <2>2 DEF Agreement, Agrees
<1>5. ComparedAs(s1', s11', s7', s3')
  BY <1>1, <1>3, <1>4 DEF ComparedAs
<1> QED
  BY <1>1, <1>2, <1>3, <1>5 DEF WalletInv

\* The end of an invocation, and its failure: what was compared last is written.
LEMMA WalletEnds ==
  ASSUME Campaign!CampaignAssumption, CampaignInv, CampaignInv', WalletInv,
         Campaign!Finish \/ Campaign!Failing
  PROVE  WalletInv'
<1>1. /\ s2 \in CampaignFiles /\ s2.before \in {Campaign!Unread, 0}
      /\ s3.before \in {Campaign!Unread, 0} /\ (s3.verdict = "pass" => s3.reconciled)
  BY DEF CampaignInv, CampaignTypes, WalletInv
<1>2. /\ s11' = s11 /\ s1 \notin Hand /\ s1' \notin Hand
  BY DEF Campaign!Finish, Campaign!Failing, Campaign!Local, Campaign!Goto, Campaign!Write,
         Hand, Driving
<1>3. /\ s2'.before = s2.before /\ s2'.runs = s2.runs
      /\ s2'.reconciled => s2.reconciled \/ Campaign!Reconciled(s2)
      /\ \/ s3' = s3
         \/ s3' = s2' /\ (s3'.verdict = "pass" => s3'.reconciled)
  <2>1. CASE Campaign!Finish
    <3> DEFINE m == [s2 EXCEPT !.reconciled = Campaign!Reconciled(s2)]
    <3>1. m \in CampaignFiles /\ m.runs = s2.runs
      BY <1>1, ReconciledIs, ReconciledIsSet
    <3>2. m.before = s2.before /\ m.reconciled = Campaign!Reconciled(s2)
      BY <1>1 DEF CampaignFiles
    <3>3. \/ s2' = s3' /\ s3' = [m EXCEPT !.verdict = "pass"] /\ m.reconciled
          \/ s2' \in {s2, m} /\ s3' = s3
      BY <2>1 DEF Campaign!Finish, Campaign!Write, Campaign!Passed
    <3> HIDE DEF m
    <3>4. /\ [m EXCEPT !.verdict = "pass"].before = m.before
          /\ [m EXCEPT !.verdict = "pass"].runs = m.runs
          /\ [m EXCEPT !.verdict = "pass"].reconciled = m.reconciled
      BY <3>1 DEF CampaignFiles
    <3> QED
      BY <3>1, <3>2, <3>3, <3>4
  <2>2. CASE Campaign!Failing
    <3>1. PICK r \in {s2.reconciled, Campaign!Reconciled(s2)} :
            s2' = s3' /\ s3' = [s2 EXCEPT !.verdict = "fail", !.reconciled = r]
      BY <2>2 DEF Campaign!Failing, Campaign!Write
    <3> QED
      BY <1>1, <3>1 DEF CampaignFiles
  <2> QED
    BY <2>1, <2>2
<1>4. ComparedAs(s1', s11, s7', s2')
  <2>1. ASSUME Campaign!Reconciled(s2)
        PROVE  Agreement(s11, s2.runs)
    BY <1>1, <2>1, ComparedNow DEF Agreement
  <2>2. s2.reconciled => Agreement(s11, s2.runs)
    BY <1>2 DEF WalletInv, ComparedAs
  <2> QED
    BY <1>2, <1>3, <2>1, <2>2 DEF ComparedAs
<1>5. ComparedAs(s1', s11, s7', s3)
  BY <1>2 DEF WalletInv, ComparedAs
<1> QED
  BY <1>1, <1>2, <1>3, <1>4, <1>5 DEF WalletInv

LEMMA WalletKeeps ==
  ASSUME Campaign!CampaignAssumption, CampaignSlips = {}, CampaignInv, CampaignInv', WalletInv,
         Campaign!Next \/ UNCHANGED shared
  PROVE  WalletInv'
<1>1. CASE Campaign!Start \/ Campaign!Merge \/ Campaign!AlreadyComplete \/ Campaign!GateClosed
  BY <1>1, WalletResumes, WalletAtGate
<1>2. CASE Campaign!Baseline \/ Campaign!Book \/ Campaign!Record
  BY <1>2, WalletIsRead, WalletBooks, WalletRecords
<1>3. CASE \/ Campaign!Preflight \/ Campaign!Refuse \/ Campaign!Interrupted \/ Campaign!Killed
           \/ Campaign!NotCreated \/ Campaign!Poll \/ Campaign!VerifySources
           \/ Campaign!VerifyGolden \/ Campaign!FetchAnalysis \/ Campaign!VerifyQuestion
  BY <1>3, WalletMoves
<1>4. CASE Campaign!Post \/ Campaign!Cleanup \/ Campaign!RunEnds
  BY <1>4, WalletPays, WalletWaits
<1>5. CASE Campaign!Finish \/ Campaign!Failing
  BY <1>5, WalletEnds
<1>6. CASE UNCHANGED shared
  <2>1. s1' = s1 /\ s2' = s2 /\ s3' = s3 /\ s7' = s7 /\ s11' = s11
    BY <1>6 DEF shared
  <2> QED
    BY <2>1, WalletStays
<1> QED
  BY <1>1, <1>2, <1>3, <1>4, <1>5, <1>6 DEF Campaign!Next, Campaign!Invocation

LEMMA WalletIsCompared ==
  ASSUME Campaign!CampaignAssumption, CampaignInv, WalletInv
  PROVE  Campaign!PassIsCompared
<1> SUFFICES ASSUME s3.verdict = "pass", DebitOf(s11) # ReportedOf(s3.runs)
             PROVE  \E c \in Cases : \E k \in Campaign!RunsOf(c) :
                      DebitOf(s11) - s11[k].cost = ReportedOf(s3.runs) - s3.runs[c].reported
  BY DebitInState, SpentInState DEF Campaign!PassIsCompared
<1>1. PICK c \in Cases : Agrees(s11, s3.runs, c)
  BY DEF WalletInv, ComparedAs, Agreement, CampaignInv, CampaignTypes
<1>2. Earned(s11, c)
  BY DEF CampaignInv, MemoryIsKept, CaseIsKept
<1>3. PICK k \in Campaign!Keys : HeldOf(s11, c) = {k}
  BY <1>2 DEF Earned
<1>4. k[1] = c /\ k \in Campaign!RunsOf(c)
  BY <1>3, HeldInState DEF HeldOf
<1>5. CostIn(s11, c) = s11[k].cost
  BY <1>3, <1>4, WalletTypes, CostOfKey
<1> QED
  BY <1>1, <1>4, <1>5 DEF Agrees

-----------------------------------------------------------------------------
(*****************************************************************************)
(* The redelivery probe (RedeliveryProbe): which attempts a run may have     *)
(* had, and what its script is bound to.                                     *)
(*****************************************************************************)

EndKinds == {"killed", "threw", "lost", "completed"}
EventKinds == {"step_started", "step_completed", "step_retrying", "step_failed"}
ProbeEvents == [type : EventKinds, attempt : Nat]
RunStates == {"none", "running"} \cup Redelivery!Terminal

ProbeRuns ==
  [status : RunStates, attempt : Nat, in : Redelivery!Deployments, busy : BOOLEAN,
   events : Seq(ProbeEvents), ends : Seq(EndKinds), log : SUBSET {"SIGKILL"}]

Bound == s1.kind = "preview" /\ s1.commit = TRUE

Ended(w, how) == \E k \in 1..Len(w.ends) : w.ends[k] = how
Spoke(w) == \E k \in 1..Len(w.events) : w.events[k].type \in {"step_retrying", "step_failed"}

\* What every run keeps to: each attempt ended but the one in hand, only the second one
\* completes and it is the last, and one that threw left an event.
RunIsKept(w) ==
  /\ w.busy => w.status = "running" /\ w.attempt > 0
  /\ Len(w.ends) = IF w.busy THEN w.attempt - 1 ELSE w.attempt
  /\ \A k \in 1..Len(w.ends) :
       w.ends[k] = "completed" => k = 2 /\ Len(w.ends) = 2 /\ w.in = "preview" /\ ~w.busy
  /\ Ended(w, "threw") => Spoke(w)
  /\ w.status = "completed" => Ended(w, "completed")
  /\ w.log # {} => Ended(w, "killed")

ProbeTypes ==
  /\ s1 \in [kind : {"preview", "production"}, commit : BOOLEAN]
  /\ s2 \in [Invocations -> {"idle", "start", "poll", "read", "stopped"}]
  /\ s3 \in [Invocations -> Redelivery!Modes]
  /\ s4 \in SUBSET Invocations
  /\ s5 \in [Invocations -> Nat]
  /\ s6 \in [Invocations -> ProbeRuns]
  /\ s8 \in [Invocations -> SUBSET [start : BOOLEAN, by : Invocations]]
  /\ s9 \in [Invocations -> {"none", "exact_run", "deployment_window"}]

\* A script that went on is bound to its Preview, and starts one run at most.
ScriptIsBound ==
  \A i \in Invocations :
    /\ s2[i] \in {"start", "poll", "read"} => Bound
    /\ s2[i] = "start" => s3[i] = "start"
    /\ s2[i] \in {"idle", "start"} => s5[i] = 0
    /\ i \in s4 => s2[i] = "stopped" /\ s5[i] = 0 /\ s3[i] = "start" /\ Bound
    /\ s3[i] = "start" /\ s2[i] \in {"poll", "read"} => s5[i] = 1
    /\ s5[i] \in {0, 1}
    /\ s5[i] = 1 => s3[i] = "start"

RunsAreBound == \A r \in Invocations : RunIsKept(s6[r]) /\ (s6[r].status # "none" => Bound)

EvidenceIsKept ==
  \A r \in Invocations :
    /\ s8[r] # {} =>
         /\ s6[r].status = "completed"
         /\ s6[r].ends \in {<<"killed", "completed">>, <<"lost", "completed">>}
    /\ \A e \in s8[r] : e.start => s5[e.by] = 1 /\ e.by = r
    /\ s9[r] = "exact_run" => s6[r].status = "completed" /\ Ended(s6[r], "killed")

HitsAreBound == s7 \subseteq {"preview"} /\ (s7 # {} => Bound)

ProbeInv == ProbeTypes /\ ScriptIsBound /\ RunsAreBound /\ EvidenceIsKept /\ HitsAreBound

LEMMA ProbeInit == ASSUME Redelivery!Init PROVE ProbeInv
<1>1. /\ s1 \in [kind : {"preview", "production"}, commit : BOOLEAN]
      /\ s2 = [i \in Invocations |-> "idle"] /\ s3 \in [Invocations -> Redelivery!Modes]
      /\ s4 = {} /\ s5 = [i \in Invocations |-> 0]
      /\ s6 = [i \in Invocations |-> Redelivery!NewRun]
      /\ s7 = {} /\ s8 = [i \in Invocations |-> {}] /\ s9 = [i \in Invocations |-> "none"]
  BY DEF Redelivery!Init
<1>2. Redelivery!NewRun \in ProbeRuns
  <2>1. <<>> \in Seq(ProbeEvents) /\ <<>> \in Seq(EndKinds)
    OBVIOUS
  <2> QED
    BY <2>1 DEF Redelivery!NewRun, ProbeRuns, RunStates, Redelivery!Deployments
<1>3. RunIsKept(Redelivery!NewRun)
  BY DEF RunIsKept, Redelivery!NewRun, Ended, Spoke
<1>4. ProbeTypes
  BY <1>1, <1>2 DEF ProbeTypes
<1>5. Redelivery!NewRun.status = "none"
  BY DEF Redelivery!NewRun
<1> QED
  BY <1>1, <1>3, <1>4, <1>5 DEF ProbeInv, ScriptIsBound, RunsAreBound, EvidenceIsKept,
      HitsAreBound

\* A run that is under way goes on, and may kill a process of the Preview.
LEMMA ProbeRunMoves ==
  ASSUME ProbeInv, NEW r \in Invocations, s6[r].status = "running",
         NEW new \in ProbeRuns, RunIsKept(new),
         s6' = [s6 EXCEPT ![r] = new], s7' \in {s7, s7 \cup {"preview"}},
         UNCHANGED <<s1, s2, s3, s4, s5, s8, s9>>
  PROVE  ProbeInv'
<1>1. ProbeTypes'
  BY DEF ProbeInv, ProbeTypes
<1>2. Bound /\ Bound'
  BY DEF ProbeInv, RunsAreBound, Bound
<1>3. ScriptIsBound'
  BY DEF ProbeInv, ScriptIsBound, Bound
<1>4. s6'[r] = new /\ \A q \in Invocations \ {r} : s6'[q] = s6[q]
  BY DEF ProbeInv, ProbeTypes
<1>5. RunsAreBound'
  BY <1>2, <1>4 DEF ProbeInv, RunsAreBound
<1>6. EvidenceIsKept'
  BY <1>4 DEF ProbeInv, EvidenceIsKept
<1> QED
  BY <1>1, <1>2, <1>3, <1>5, <1>6 DEF ProbeInv, HitsAreBound

\* An attempt ends, one way or another.
LEMMA AttemptEnds ==
  ASSUME NEW w \in ProbeRuns, RunIsKept(w), w.busy,
         NEW end \in EndKinds, NEW events \in Seq(ProbeEvents), NEW log \in SUBSET {"SIGKILL"},
         end = "completed" => w.attempt = 2 /\ w.in = "preview",
         end = "threw" => events # <<>> /\ events[1].type \in {"step_retrying", "step_failed"},
         log # {} => end = "killed" \/ w.log # {},
         NEW status \in {"running", "failed"},
         NEW new \in ProbeRuns,
         new.status = status, new.attempt = w.attempt, new.in = w.in, new.busy = FALSE,
         new.ends = Append(w.ends, end), new.events = w.events \o events, new.log = log
  PROVE  RunIsKept(new)
<1>1. w.ends \in Seq(EndKinds) /\ w.events \in Seq(ProbeEvents) /\ w.attempt \in Nat
  BY DEF ProbeRuns
<1>2. /\ Len(new.ends) = Len(w.ends) + 1 /\ new.ends[Len(w.ends) + 1] = end
      /\ \A k \in 1..Len(w.ends) : new.ends[k] = w.ends[k]
  BY <1>1
<1>3. Len(w.ends) = w.attempt - 1 /\ w.attempt > 0
      /\ \A k \in 1..Len(w.ends) : w.ends[k] # "completed"
  BY DEF RunIsKept
<1>4. Len(new.ends) = new.attempt /\ Len(w.ends) \in Nat
  BY <1>1, <1>2, <1>3
<1>5. ASSUME NEW k \in 1..Len(new.ends), new.ends[k] = "completed"
      PROVE  k = 2 /\ Len(new.ends) = 2 /\ new.in = "preview" /\ ~new.busy
  <2>1. k \notin 1..Len(w.ends)
    BY <1>2, <1>3, <1>5
  <2>2. k = Len(w.ends) + 1
    BY <1>2, <1>4, <2>1
  <2> QED
    BY <1>2, <1>3, <1>5, <2>2
<1>6. ASSUME NEW how, Ended(w, how) PROVE Ended(new, how)
  BY <1>2, <1>4, <1>6 DEF Ended
<1>7. Ended(new, end)
  <2>1. Len(w.ends) + 1 \in 1..Len(new.ends)
    BY <1>2, <1>4
  <2> QED
    BY <1>2, <2>1 DEF Ended
<1>8. /\ Len(new.events) = Len(w.events) + Len(events)
      /\ Len(w.events) \in Nat /\ Len(events) \in Nat
      /\ \A k \in 1..Len(w.events) : new.events[k] = w.events[k]
      /\ \A k \in 1..Len(events) : new.events[Len(w.events) + k] = events[k]
  BY <1>1
<1>9. ASSUME Ended(new, "threw") PROVE Spoke(new)
  <2>1. CASE end = "threw"
    <3>1. 1 \in 1..Len(events)
      BY <2>1
    <3>2. Len(w.events) + 1 \in 1..Len(new.events) /\ new.events[Len(w.events) + 1] = events[1]
      BY <1>8, <3>1
    <3> QED
      BY <2>1, <3>2 DEF Spoke
  <2>2. CASE end # "threw"
    <3>1. PICK k \in 1..Len(new.ends) : new.ends[k] = "threw"
      BY <1>9 DEF Ended
    <3>2. k \in 1..Len(w.ends)
      BY <1>2, <1>4, <2>2, <3>1
    <3>3. Spoke(w)
      BY <1>2, <3>1, <3>2 DEF RunIsKept, Ended
    <3>4. PICK j \in 1..Len(w.events) : w.events[j].type \in {"step_retrying", "step_failed"}
      BY <3>3 DEF Spoke
    <3>5. j \in 1..Len(new.events) /\ new.events[j] = w.events[j]
      BY <1>8
    <3> QED
      BY <3>4, <3>5 DEF Spoke
  <2> QED
    BY <2>1, <2>2
<1>10. new.log # {} => Ended(new, "killed")
  BY <1>6, <1>7 DEF RunIsKept
<1> QED
  BY <1>4, <1>5, <1>9, <1>10 DEF RunIsKept

\* The records a run turns into.
LEMMA ProbeRunFields ==
  ASSUME NEW w \in ProbeRuns
  PROVE  /\ w.status \in RunStates /\ w.attempt \in Nat /\ w.in \in Redelivery!Deployments
         /\ w.busy \in BOOLEAN /\ w.events \in Seq(ProbeEvents) /\ w.ends \in Seq(EndKinds)
         /\ w.log \in SUBSET {"SIGKILL"}
BY DEF ProbeRuns

\* An attempt of a run that is under way ends.
LEMMA ProbeAttemptEnds ==
  ASSUME ProbeInv, NEW r \in Invocations, s6[r].busy,
         NEW end \in EndKinds, NEW events \in Seq(ProbeEvents), NEW new,
         end = "completed" => s6[r].attempt = 2 /\ s6[r].in = "preview",
         end = "threw" => events # <<>> /\ events[1].type \in {"step_retrying", "step_failed"},
         DOMAIN new = {"status", "attempt", "in", "busy", "events", "ends", "log"},
         new = [f \in DOMAIN new |-> new[f]],
         new.status \in {"running", "failed"}, new.attempt = s6[r].attempt, new.in = s6[r].in,
         new.busy = FALSE, new.ends = Append(s6[r].ends, end), new.events = s6[r].events \o events,
         new.log \in SUBSET {"SIGKILL"}, new.log # {} => end = "killed" \/ s6[r].log # {},
         s6' = [s6 EXCEPT ![r] = new],
         s7' \in {s7, s7 \cup {"preview"}}, UNCHANGED <<s1, s2, s3, s4, s5, s8, s9>>
  PROVE  ProbeInv'
<1> DEFINE w == s6[r]
<1>1. w \in ProbeRuns /\ RunIsKept(w) /\ w.status = "running"
  BY DEF ProbeInv, ProbeTypes, RunsAreBound, RunIsKept
<1>2. /\ w.ends \in Seq(EndKinds) /\ w.events \in Seq(ProbeEvents)
      /\ w.attempt \in Nat /\ w.in \in Redelivery!Deployments
  BY <1>1, ProbeRunFields
<1>3. Append(w.ends, end) \in Seq(EndKinds) /\ w.events \o events \in Seq(ProbeEvents)
      /\ new.status \in RunStates /\ FALSE \in BOOLEAN
  BY <1>2 DEF RunStates, Redelivery!Terminal
<1>4. new \in ProbeRuns
  BY <1>2, <1>3 DEF ProbeRuns
<1>5. RunIsKept(new)
  <2>1. w.busy /\ (end = "completed" => w.attempt = 2 /\ w.in = "preview")
        /\ (new.log # {} => end = "killed" \/ w.log # {})
    BY DEF w
  <2> HIDE DEF w
  <2>2. new.attempt = w.attempt /\ new.in = w.in /\ new.ends = Append(w.ends, end)
        /\ new.events = w.events \o events
    BY DEF w
  <2> QED
    BY <1>1, <1>4, <2>1, <2>2, AttemptEnds
<1> QED
  BY <1>1, <1>4, <1>5, ProbeRunMoves

\* An attempt that ends as the step's own answer or without one.
LEMMA ProbeEnds ==
  ASSUME ProbeInv, NEW r \in Invocations, s6[r].busy,
         NEW end \in {"threw", "lost", "completed"}, NEW events \in Seq(ProbeEvents),
         end = "completed" => s6[r].attempt = 2 /\ s6[r].in = "preview",
         end = "threw" => events # <<>> /\ events[1].type = "step_retrying",
         Redelivery!Ends(r, end, events), UNCHANGED <<s1, s2, s3, s4, s5, s7, s8, s9>>
  PROVE  ProbeInv'
<1> DEFINE w == s6[r]
<1> DEFINE new == [w EXCEPT !.busy = FALSE, !.ends = Append(@, end), !.events = @ \o events]
<1>1. w \in ProbeRuns /\ w.status = "running"
  BY DEF ProbeInv, ProbeTypes, RunsAreBound, RunIsKept
<1>2. s6' = [s6 EXCEPT ![r] = new]
  BY DEF Redelivery!Ends, Redelivery!Set
<1>3. /\ DOMAIN new = {"status", "attempt", "in", "busy", "events", "ends", "log"}
      /\ new = [f \in DOMAIN new |-> new[f]]
      /\ new.status = "running" /\ new.attempt = w.attempt /\ new.in = w.in /\ new.busy = FALSE
      /\ new.ends = Append(w.ends, end) /\ new.events = w.events \o events /\ new.log = w.log
  <2> HIDE DEF w
  <2> QED
    BY <1>1 DEF ProbeRuns
<1>4. w.log \in SUBSET {"SIGKILL"} /\ end \in EndKinds
  BY <1>1, ProbeRunFields DEF EndKinds
<1> HIDE DEF new
<1>5. s7' \in {s7, s7 \cup {"preview"}}
  OBVIOUS
<1>6. /\ new.status \in {"running", "failed"} /\ new.log \in SUBSET {"SIGKILL"}
      /\ new.log # {} => end = "killed" \/ w.log # {}
  BY <1>3, <1>4
<1>7. end = "threw" => events # <<>> /\ events[1].type \in {"step_retrying", "step_failed"}
  OBVIOUS
<1> QED
  BY <1>2, <1>3, <1>4, <1>5, <1>6, <1>7, ProbeAttemptEnds

LEMMA ProbeRetries ==
  ASSUME ProbeInv, NEW r \in Invocations, s6[r].busy,
         Redelivery!Ends(r, "threw", <<Redelivery!Event("step_retrying", s6[r].attempt)>>),
         UNCHANGED <<s1, s2, s3, s4, s5, s7, s8, s9>>
  PROVE  ProbeInv'
<1> DEFINE more == <<Redelivery!Event("step_retrying", s6[r].attempt)>>
<1>1. s6[r].attempt \in Nat
  BY ProbeRunFields DEF ProbeInv, ProbeTypes
<1>2. more \in Seq(ProbeEvents) /\ more # <<>> /\ more[1].type = "step_retrying"
  BY <1>1 DEF Redelivery!Event, ProbeEvents, EventKinds
<1>3. Redelivery!Ends(r, "threw", more)
  OBVIOUS
<1> HIDE DEF more
<1> QED
  BY <1>2, <1>3, ProbeEnds

LEMMA ProbeKills == ASSUME ProbeInv, NEW r \in Invocations, Redelivery!Kill(r) PROVE ProbeInv'
<1> DEFINE w == s6[r]
<1>1. /\ w.busy /\ w.in = "preview" /\ UNCHANGED <<s1, s2, s3, s4, s5, s8, s9>>
      /\ w \in ProbeRuns /\ s6 \in [Invocations -> ProbeRuns] /\ w.status = "running"
  BY DEF Redelivery!Kill, Redelivery!Decide, Redelivery!script, Redelivery!Findings, ProbeInv,
         ProbeTypes, RunsAreBound, RunIsKept
<1>2. w.events \in Seq(ProbeEvents) /\ w.log \in SUBSET {"SIGKILL"}
  BY <1>1, ProbeRunFields
<1>3. CASE /\ s6' = [s6 EXCEPT ![r].busy = FALSE, ![r].ends = Append(@, "killed"),
                              ![r].log = @ \cup {"SIGKILL"}]
           /\ s7' = s7 \cup {s6[r].in}
  <2> DEFINE new == [w EXCEPT !.busy = FALSE, !.ends = Append(@, "killed"),
                              !.log = @ \cup {"SIGKILL"}]
  <2>1. s6' = [s6 EXCEPT ![r] = new]
    BY <1>1, <1>3
  <2>2. /\ DOMAIN new = {"status", "attempt", "in", "busy", "events", "ends", "log"}
        /\ new = [f \in DOMAIN new |-> new[f]]
        /\ new.status = "running" /\ new.attempt = w.attempt /\ new.in = w.in
        /\ new.busy = FALSE /\ new.ends = Append(w.ends, "killed")
        /\ new.events = w.events \o <<>> /\ new.log = {"SIGKILL"}
    <3> HIDE DEF w
    <3>1. w.events \o <<>> = w.events
      BY <1>2
    <3>2. w.log \cup {"SIGKILL"} = {"SIGKILL"}
      BY <1>2
    <3>3. /\ DOMAIN new = {"status", "attempt", "in", "busy", "events", "ends", "log"}
          /\ new = [f \in DOMAIN new |-> new[f]]
          /\ new.status = w.status /\ new.attempt = w.attempt /\ new.in = w.in
          /\ new.busy = FALSE /\ new.ends = Append(w.ends, "killed")
          /\ new.events = w.events /\ new.log = w.log \cup {"SIGKILL"}
      BY <1>1 DEF ProbeRuns
    <3> HIDE DEF new
    <3> QED
      BY <1>1, <3>1, <3>2, <3>3
  <2> HIDE DEF new
  <2>3. "killed" \in EndKinds /\ s7' \in {s7, s7 \cup {"preview"}} /\ <<>> \in Seq(ProbeEvents)
        /\ {"SIGKILL"} \in SUBSET {"SIGKILL"}
    BY <1>1, <1>3 DEF EndKinds
  <2>4. "killed" # "completed" /\ "killed" # "threw"
    OBVIOUS
  <2> QED
    BY <1>1, <2>1, <2>2, <2>3, <2>4, ProbeAttemptEnds
<1>4. CASE /\ s7' = s7
           /\ Redelivery!Ends(r, "threw", <<Redelivery!Event("step_retrying", s6[r].attempt)>>)
  BY <1>1, <1>4, ProbeRetries
<1> QED
  BY <1>3, <1>4 DEF Redelivery!Kill

LEMMA ProbeCompletes ==
  ASSUME ProbeInv, NEW r \in Invocations, Redelivery!Complete(r)
  PROVE  ProbeInv'
<1> DEFINE more == <<Redelivery!Event("step_completed", s6[r].attempt)>>
<1>1. /\ s6[r].busy /\ s6[r].in = "preview" /\ s6[r].attempt = 2
      /\ UNCHANGED <<s1, s2, s3, s4, s5, s7, s8, s9>>
  BY DEF Redelivery!Complete, Redelivery!Decide, Redelivery!script, Redelivery!Findings
<1>2. more \in Seq(ProbeEvents)
  BY <1>1 DEF Redelivery!Event, ProbeEvents, EventKinds
<1>3. Redelivery!Ends(r, "completed", more)
  BY DEF Redelivery!Complete
<1> HIDE DEF more
<1>4. "completed" \in {"threw", "lost", "completed"} /\ "completed" # "threw"
  OBVIOUS
<1> QED
  BY <1>1, <1>2, <1>3, <1>4, ProbeEnds

LEMMA ProbeRejects == ASSUME ProbeInv, NEW r \in Invocations, Redelivery!Reject(r) PROVE ProbeInv'
<1> DEFINE w == s6[r]
<1>1. /\ w.busy /\ UNCHANGED <<s1, s2, s3, s4, s5, s7, s8, s9>>
      /\ w \in ProbeRuns /\ s6 \in [Invocations -> ProbeRuns] /\ w.status = "running"
  BY DEF Redelivery!Reject, Redelivery!script, Redelivery!Findings, ProbeInv,
         ProbeTypes, RunsAreBound, RunIsKept
<1>2. w.log \in SUBSET {"SIGKILL"} /\ w.attempt \in Nat /\ w.events \in Seq(ProbeEvents)
  BY <1>1, ProbeRunFields
<1>3. CASE Redelivery!Ends(r, "threw", <<Redelivery!Event("step_retrying", s6[r].attempt)>>)
  BY <1>1, <1>3, ProbeRetries
<1>4. CASE Redelivery!Set(r, [s6[r] EXCEPT !.busy = FALSE, !.ends = Append(@, "threw"),
                 !.status = "failed",
                 !.events = Append(@, Redelivery!Event("step_failed", s6[r].attempt))])
  <2> DEFINE last == Redelivery!Event("step_failed", s6[r].attempt)
  <2> DEFINE more == <<last>>
  <2>1. last \in ProbeEvents /\ last.type = "step_failed"
    BY <1>2 DEF Redelivery!Event, ProbeEvents, EventKinds
  <2> DEFINE new == [w EXCEPT !.busy = FALSE, !.ends = Append(@, "threw"), !.status = "failed",
                              !.events = Append(@, last)]
  <2>2. s6' = [s6 EXCEPT ![r] = new]
    BY <1>4 DEF Redelivery!Set
  <2> HIDE DEF last
  <2>3. more \in Seq(ProbeEvents) /\ more # <<>>
        /\ more[1].type \in {"step_retrying", "step_failed"}
        /\ Append(w.events, last) = w.events \o more
    BY <1>2, <2>1
  <2> HIDE DEF more
  <2>4. /\ DOMAIN new = {"status", "attempt", "in", "busy", "events", "ends", "log"}
        /\ new = [f \in DOMAIN new |-> new[f]]
        /\ new.status = "failed" /\ new.attempt = w.attempt /\ new.in = w.in
        /\ new.busy = FALSE /\ new.ends = Append(w.ends, "threw")
        /\ new.events = w.events \o more /\ new.log = w.log
    <3> HIDE DEF w
    <3> QED
      BY <1>1, <1>2, <2>3 DEF ProbeRuns
  <2> HIDE DEF new
  <2>5. "threw" \in EndKinds /\ "threw" # "completed" /\ s7' \in {s7, s7 \cup {"preview"}}
    BY <1>1 DEF EndKinds
  <2> QED
    BY <1>1, <1>2, <2>2, <2>3, <2>4, <2>5, ProbeAttemptEnds
<1> QED
  BY <1>3, <1>4 DEF Redelivery!Reject

LEMMA ProbeCrashes == ASSUME ProbeInv, NEW r \in Invocations, Redelivery!Crash(r) PROVE ProbeInv'
<1>1. /\ s6[r].busy /\ UNCHANGED <<s1, s2, s3, s4, s5, s7, s8, s9>>
      /\ Redelivery!Ends(r, "lost", <<>>)
  BY DEF Redelivery!Crash, Redelivery!script, Redelivery!Findings
<1>2. "lost" \in {"threw", "lost", "completed"} /\ <<>> \in Seq(ProbeEvents)
      /\ "lost" # "completed" /\ "lost" # "threw"
  OBVIOUS
<1> QED
  BY <1>1, <1>2, ProbeEnds

LEMMA ProbeDelivers == ASSUME ProbeInv, NEW r \in Invocations, Redelivery!Deliver(r) PROVE ProbeInv'
<1> DEFINE w == s6[r]
<1>1. /\ w.status = "running" /\ ~w.busy /\ "completed" \notin Redelivery!ToSet(w.ends)
      /\ UNCHANGED <<s1, s2, s3, s4, s5, s7, s8, s9>>
  BY DEF Redelivery!Deliver, Redelivery!Done, Redelivery!script, Redelivery!Findings
<1>2. w \in ProbeRuns /\ RunIsKept(w)
  BY DEF ProbeInv, ProbeTypes, RunsAreBound
<1>3. w.attempt \in Nat /\ w.events \in Seq(ProbeEvents) /\ w.ends \in Seq(EndKinds)
  BY <1>2, ProbeRunFields
<1> DEFINE last == Redelivery!Event("step_started", w.attempt + 1)
<1>4. PICK in \in Redelivery!Deployments :
        s6' = [s6 EXCEPT ![r] = [w EXCEPT !.attempt = @ + 1, !.in = in, !.busy = TRUE,
                                          !.events = Append(@, last)]]
  BY DEF Redelivery!Deliver, Redelivery!Set
<1> DEFINE new == [w EXCEPT !.attempt = @ + 1, !.in = in, !.busy = TRUE, !.events = Append(@, last)]
<1>5. last \in ProbeEvents
  BY <1>3 DEF Redelivery!Event, ProbeEvents, EventKinds
<1> HIDE DEF last, w
<1>6. /\ new.status = "running" /\ new.attempt = w.attempt + 1 /\ new.busy = TRUE
      /\ new.ends = w.ends /\ new.events = Append(w.events, last) /\ new.log = w.log
      /\ new \in ProbeRuns
  <2>1. Append(w.events, last) \in Seq(ProbeEvents) /\ w.attempt + 1 \in Nat /\ TRUE \in BOOLEAN
    BY <1>3, <1>5
  <2> QED
    BY <1>1, <1>2, <2>1 DEF ProbeRuns
<1> HIDE DEF new
<1>7. \A k \in 1..Len(w.ends) : w.ends[k] # "completed"
  BY <1>1, <1>3 DEF Redelivery!ToSet
<1>8. RunIsKept(new)
  <2>1. Len(new.ends) = new.attempt - 1 /\ new.attempt > 0
    BY <1>1, <1>2, <1>3, <1>6 DEF RunIsKept
  <2>2. Spoke(w) => Spoke(new)
    <3> SUFFICES ASSUME NEW k \in 1..Len(w.events),
                        w.events[k].type \in {"step_retrying", "step_failed"}
                 PROVE  Spoke(new)
      BY DEF Spoke
    <3>1. k \in 1..Len(new.events) /\ new.events[k] = w.events[k]
      BY <1>3, <1>5, <1>6
    <3> QED
      BY <3>1 DEF Spoke
  <2>3. \A how : Ended(new, how) <=> Ended(w, how)
    BY <1>6 DEF Ended
  <2> QED
    BY <1>2, <1>6, <1>7, <2>1, <2>2, <2>3 DEF RunIsKept
<1>9. s6' = [s6 EXCEPT ![r] = new]
  BY <1>4 DEF new
<1> QED
  BY <1>1, <1>6, <1>8, <1>9, ProbeRunMoves DEF w

LEMMA ProbeRunEnds == ASSUME ProbeInv, NEW r \in Invocations, Redelivery!RunEnds(r) PROVE ProbeInv'
<1> DEFINE w == s6[r]
<1>1. /\ w.status = "running" /\ ~w.busy /\ UNCHANGED <<s1, s2, s3, s4, s5, s7, s8, s9>>
  BY DEF Redelivery!RunEnds, Redelivery!script, Redelivery!Findings
<1>2. w \in ProbeRuns /\ RunIsKept(w)
  BY DEF ProbeInv, ProbeTypes, RunsAreBound
<1>3. w.ends \in Seq(EndKinds)
  BY <1>2, ProbeRunFields
<1>4. PICK status \in {"completed", "failed", "cancelled"} :
        /\ s6' = [s6 EXCEPT ![r] = [w EXCEPT !.status = status]]
        /\ status = "completed" => "completed" \in Redelivery!ToSet(w.ends)
  BY DEF Redelivery!RunEnds, Redelivery!Set, Redelivery!Done
<1> DEFINE new == [w EXCEPT !.status = status]
<1> HIDE DEF w
<1>5. /\ new.status = status /\ new.attempt = w.attempt /\ new.in = w.in /\ new.busy = w.busy
      /\ new.events = w.events /\ new.ends = w.ends /\ new.log = w.log
      /\ new \in ProbeRuns
  <2>1. status \in RunStates
    BY DEF RunStates, Redelivery!Terminal
  <2> QED
    BY <1>2, <2>1 DEF ProbeRuns
<1> HIDE DEF new
<1>6. RunIsKept(new)
  <2>1. \A how : Ended(new, how) <=> Ended(w, how)
    BY <1>5 DEF Ended
  <2>2. Spoke(new) <=> Spoke(w)
    BY <1>5 DEF Spoke
  <2>3. status = "completed" => Ended(w, "completed")
    BY <1>3, <1>4 DEF Ended, Redelivery!ToSet
  <2> QED
    BY <1>1, <1>2, <1>5, <2>1, <2>2, <2>3 DEF RunIsKept
<1>7. s6' = [s6 EXCEPT ![r] = new]
  BY <1>4 DEF new
<1> QED
  BY <1>1, <1>5, <1>6, <1>7, ProbeRunMoves DEF w

\* A start reaches the platform.
LEMMA ProbeAccepts ==
  ASSUME ProbeInv, NEW i \in Invocations, Redelivery!Accepted(i), s5[i] = 0, Bound,
         s3[i] = "start", UNCHANGED <<s1, s3, s8, s9>>
  PROVE  /\ s5' \in [Invocations -> Nat] /\ s5'[i] = 1
         /\ \A j \in Invocations \ {i} : s5'[j] = s5[j]
         /\ s6' \in [Invocations -> ProbeRuns]
         /\ RunsAreBound' /\ EvidenceIsKept'
<1> DEFINE w == s6[i]
<1> DEFINE new == [w EXCEPT !.status = IF @ = "none" THEN "running" ELSE @]
<1>1. /\ s5 \in [Invocations -> Nat] /\ s6 \in [Invocations -> ProbeRuns] /\ w \in ProbeRuns
      /\ RunIsKept(w)
      /\ s8 \in [Invocations -> SUBSET [start : BOOLEAN, by : Invocations]]
  BY DEF ProbeInv, ProbeTypes, RunsAreBound
<1>2. s5' = [s5 EXCEPT ![i] = @ + 1] /\ s6' = [s6 EXCEPT ![i] = new]
  BY <1>1 DEF Redelivery!Accepted
<1>3. /\ new \in ProbeRuns
      /\ new.status = IF w.status = "none" THEN "running" ELSE w.status
      /\ new.attempt = w.attempt /\ new.in = w.in /\ new.busy = w.busy
      /\ new.events = w.events /\ new.ends = w.ends /\ new.log = w.log
  <2> HIDE DEF w
  <2>1. "running" \in RunStates /\ w.status \in RunStates
    BY <1>1, ProbeRunFields DEF RunStates
  <2>2. (IF w.status = "none" THEN "running" ELSE w.status) \in RunStates
    BY <2>1
  <2> QED
    BY <1>1, <2>2 DEF ProbeRuns
<1> HIDE DEF new
<1>4. RunIsKept(new)
  <2> HIDE DEF w
  <2>1. \A how : Ended(new, how) <=> Ended(w, how)
    BY <1>3 DEF Ended
  <2>2. Spoke(new) <=> Spoke(w)
    BY <1>3 DEF Spoke
  <2> QED
    BY <1>1, <1>3, <2>1, <2>2 DEF RunIsKept
<1>5. s5'[i] = 1 /\ \A j \in Invocations \ {i} : s5'[j] = s5[j]
  BY <1>1, <1>2
<1>6. s6'[i] = new /\ \A j \in Invocations \ {i} : s6'[j] = s6[j]
  BY <1>1, <1>2
<1>7. RunsAreBound'
  BY <1>4, <1>6 DEF ProbeInv, RunsAreBound, Bound
<1>8. EvidenceIsKept'
  <2>1. ASSUME NEW r \in Invocations
        PROVE  /\ s6'[r].ends = s6[r].ends
               /\ s6[r].status = "completed" => s6'[r].status = "completed"
    BY <1>3, <1>6
  <2>2. ASSUME NEW r \in Invocations, NEW e \in s8[r], e.start
        PROVE  s5'[e.by] = 1 /\ e.by = r
    BY <1>5, <2>2 DEF ProbeInv, EvidenceIsKept
  <2>3. ASSUME NEW r \in Invocations, Ended(s6[r], "killed") PROVE Ended(s6'[r], "killed")
    BY <2>1, <2>3 DEF Ended
  <2> QED
    BY <2>1, <2>2, <2>3 DEF ProbeInv, EvidenceIsKept
<1>9. s5' \in [Invocations -> Nat] /\ s6' \in [Invocations -> ProbeRuns]
  BY <1>1, <1>2, <1>3
<1> QED
  BY <1>5, <1>7, <1>8, <1>9

\* The steps of the script.
ScriptMoves(i) ==
  \/ Redelivery!VerifyPreviewDeployment(i) \/ Redelivery!StartWorkflow(i)
  \/ Redelivery!StartLost(i) \/ Redelivery!PollTerminalRun(i) \/ Redelivery!AcceptLate(i)

LEMMA ScriptSteps == ASSUME ProbeInv, NEW i \in Invocations, ScriptMoves(i) PROVE ProbeInv'
<1> USE DEF Redelivery!script, Redelivery!World, Redelivery!Findings, Redelivery!Move
<1>1. /\ s1 \in [kind : {"preview", "production"}, commit : BOOLEAN]
      /\ s2 \in [Invocations -> {"idle", "start", "poll", "read", "stopped"}]
      /\ s3 \in [Invocations -> Redelivery!Modes] /\ s4 \in SUBSET Invocations
  BY DEF ProbeInv, ProbeTypes
<1>2. CASE Redelivery!VerifyPreviewDeployment(i)
  <2>1. PICK step \in {"stopped", "start", "poll"} :
          /\ s2' = [s2 EXCEPT ![i] = step]
          /\ step # "stopped" => Bound
          /\ step = "start" <=> step # "stopped" /\ s3[i] = "start"
    BY <1>1, <1>2 DEF Redelivery!VerifyPreviewDeployment, Bound
  <2>2. s2[i] = "idle" /\ UNCHANGED <<s1, s3, s4, s5, s6, s7, s8, s9>>
    BY <1>2 DEF Redelivery!VerifyPreviewDeployment
  <2>3. ProbeTypes' /\ Bound' = Bound
    BY <1>1, <2>1, <2>2 DEF ProbeInv, ProbeTypes, Bound
  <2>4. ScriptIsBound'
    BY <1>1, <2>1, <2>2, <2>3 DEF ProbeInv, ScriptIsBound
  <2> QED
    BY <2>2, <2>3, <2>4 DEF ProbeInv, RunsAreBound, EvidenceIsKept, HitsAreBound
<1>3. ASSUME Redelivery!Accepted(i), s2[i] = "start" \/ i \in s4, UNCHANGED <<s1, s3, s7, s8, s9>>,
             \/ s2' = [s2 EXCEPT ![i] = "poll"] /\ s2[i] = "start" /\ s4' = s4
             \/ s2' = [s2 EXCEPT ![i] = "stopped"] /\ s2[i] = "start" /\ s4' = s4
             \/ s2' = s2 /\ i \in s4 /\ s4' = s4 \ {i}
      PROVE  ProbeInv'
  <2>1. s5[i] = 0 /\ Bound /\ s3[i] = "start"
    BY <1>3 DEF ProbeInv, ScriptIsBound
  <2>2. /\ s5' \in [Invocations -> Nat] /\ s5'[i] = 1
        /\ \A j \in Invocations \ {i} : s5'[j] = s5[j]
        /\ s6' \in [Invocations -> ProbeRuns]
        /\ RunsAreBound' /\ EvidenceIsKept'
    BY <1>3, <2>1, ProbeAccepts
  <2>3. ProbeTypes' /\ Bound'
    BY <1>1, <1>3, <2>1, <2>2 DEF ProbeInv, ProbeTypes, Bound
  <2>4. i \notin s4' /\ s2'[i] \in {"poll", "stopped"}
    BY <1>1, <1>3 DEF ProbeInv, ScriptIsBound
  <2>5. \A j \in Invocations \ {i} : s2'[j] = s2[j] /\ (j \in s4' <=> j \in s4)
    BY <1>1, <1>3
  <2>6. ScriptIsBound'
    BY <1>3, <2>1, <2>2, <2>3, <2>4, <2>5 DEF ProbeInv, ScriptIsBound
  <2> QED
    BY <1>3, <2>2, <2>3, <2>6 DEF ProbeInv, HitsAreBound
<1>4. CASE Redelivery!StartWorkflow(i)
  BY <1>3, <1>4 DEF Redelivery!StartWorkflow
<1>5. CASE Redelivery!AcceptLate(i)
  BY <1>3, <1>5 DEF Redelivery!AcceptLate
<1>6. CASE Redelivery!StartLost(i)
  <2>1. CASE Redelivery!Accepted(i) /\ UNCHANGED s4
    BY <1>3, <1>6, <2>1 DEF Redelivery!StartLost
  <2>2. CASE s4' \in {s4, s4 \cup {i}} /\ UNCHANGED <<s5, s6>>
    <3>1. /\ s2[i] = "start" /\ s2' = [s2 EXCEPT ![i] = "stopped"]
          /\ UNCHANGED <<s1, s3, s5, s6, s7, s8, s9>>
      BY <1>6, <2>2 DEF Redelivery!StartLost
    <3>2. s5[i] = 0 /\ Bound /\ s3[i] = "start"
      BY <3>1 DEF ProbeInv, ScriptIsBound
    <3>3. ProbeTypes' /\ Bound'
      BY <1>1, <2>2, <3>1, <3>2 DEF ProbeInv, ProbeTypes, Bound
    <3>4. ScriptIsBound'
      BY <1>1, <2>2, <3>1, <3>2, <3>3 DEF ProbeInv, ScriptIsBound
    <3> QED
      BY <3>1, <3>2, <3>3, <3>4 DEF ProbeInv, RunsAreBound, EvidenceIsKept, HitsAreBound
  <2> QED
    BY <1>6, <2>1, <2>2 DEF Redelivery!StartLost
<1>7. CASE Redelivery!PollTerminalRun(i)
  <2>1. PICK step \in {"read", "stopped"} : s2' = [s2 EXCEPT ![i] = step]
    BY <1>7 DEF Redelivery!PollTerminalRun
  <2>2. s2[i] = "poll" /\ UNCHANGED <<s1, s3, s4, s5, s6, s7, s8, s9>>
    BY <1>7 DEF Redelivery!PollTerminalRun
  <2>3. ProbeTypes' /\ Bound' = Bound
    BY <1>1, <2>1, <2>2 DEF ProbeInv, ProbeTypes, Bound
  <2>4. ScriptIsBound'
    BY <1>1, <2>1, <2>2, <2>3 DEF ProbeInv, ScriptIsBound
  <2> QED
    BY <2>2, <2>3, <2>4 DEF ProbeInv, RunsAreBound, EvidenceIsKept, HitsAreBound
<1> QED
  BY <1>2, <1>4, <1>5, <1>6, <1>7 DEF ScriptMoves

\* A completed run whose events tell of no failure ended as the probe means it to.
LEMMA SilentRunEnds ==
  ASSUME ProbeInv, NEW r \in Invocations, s6[r].status = "completed", Redelivery!Silent(r)
  PROVE  s6[r].ends \in {<<"killed", "completed">>, <<"lost", "completed">>}
<1> DEFINE w == s6[r]
<1>1. w \in ProbeRuns /\ RunIsKept(w)
  BY DEF ProbeInv, ProbeTypes, RunsAreBound
<1>2. w.ends \in Seq(EndKinds) /\ w.events \in Seq(ProbeEvents)
  BY <1>1, ProbeRunFields
<1>3. ~Spoke(w)
  BY <1>2 DEF Spoke, Redelivery!Silent, Redelivery!Of
<1>4. w.status = "completed"
  OBVIOUS
<1> HIDE DEF w
<1>5. PICK k \in 1..Len(w.ends) : w.ends[k] = "completed"
  BY <1>1, <1>4 DEF RunIsKept, Ended
<1>6. Len(w.ends) = 2 /\ w.ends[2] = "completed"
  BY <1>1, <1>5 DEF RunIsKept
<1>7. w.ends[1] \in EndKinds /\ 1 \in 1..Len(w.ends)
  BY <1>2, <1>6
<1>8. w.ends[1] # "completed"
  BY <1>1, <1>7 DEF RunIsKept
<1>9. w.ends[1] # "threw"
  BY <1>1, <1>3, <1>7 DEF RunIsKept, Ended
<1>10. w.ends[1] \in {"killed", "lost"}
  BY <1>7, <1>8, <1>9 DEF EndKinds
<1>11. w.ends = <<w.ends[1], w.ends[2]>>
  BY <1>2, <1>6
<1>12. w.ends \in {<<"killed", "completed">>, <<"lost", "completed">>}
  BY <1>6, <1>10, <1>11
<1> QED
  BY <1>12 DEF w

LEMMA ProbeIsToldOf ==
  ASSUME ProbeInv, NEW i \in Invocations, Redelivery!BuildRecoveryEvidence(i)
  PROVE  ProbeInv'
<1>1. /\ s2 \in [Invocations -> {"idle", "start", "poll", "read", "stopped"}]
      /\ s3 \in [Invocations -> Redelivery!Modes]
      /\ s8 \in [Invocations -> SUBSET [start : BOOLEAN, by : Invocations]]
  BY DEF ProbeInv, ProbeTypes
<1>2. /\ s2[i] = "read" /\ s2' = [s2 EXCEPT ![i] = "stopped"]
      /\ UNCHANGED <<s1, s3, s4, s5, s6, s7, s9>>
  BY DEF Redelivery!BuildRecoveryEvidence, Redelivery!Move, Redelivery!World
<1>3. PICK r \in Invocations, shown \in {"all", "none", "some"} :
        /\ Redelivery!Pollable(i, r) /\ s6[r].status = "completed"
        /\ s8' = IF Redelivery!Observed(r, shown)
                 THEN [s8 EXCEPT ![r] = @ \cup {[start |-> s3[i] = "start", by |-> i]}]
                 ELSE s8
  BY DEF Redelivery!BuildRecoveryEvidence
<1> DEFINE e == [start |-> s3[i] = "start", by |-> i]
<1>4. e \in [start : BOOLEAN, by : Invocations] /\ e.by = i /\ (e.start => s3[i] = "start")
  OBVIOUS
<1>5. s8' = s8 \/ (Redelivery!Observed(r, shown) /\ s8' = [s8 EXCEPT ![r] = @ \cup {e}])
  BY <1>3
<1> HIDE DEF e
<1>6. s8' \in [Invocations -> SUBSET [start : BOOLEAN, by : Invocations]]
  <2>1. s8[r] \cup {e} \in SUBSET [start : BOOLEAN, by : Invocations]
    BY <1>1, <1>4
  <2> QED
    BY <1>1, <1>5, <2>1
<1>7. ProbeTypes' /\ Bound' = Bound
  BY <1>1, <1>2, <1>6 DEF ProbeInv, ProbeTypes, Bound
<1>8. ScriptIsBound'
  BY <1>1, <1>2, <1>7 DEF ProbeInv, ScriptIsBound
<1>9. e.start => s5[e.by] = 1 /\ e.by = r
  BY <1>2, <1>3, <1>4 DEF ProbeInv, ScriptIsBound, Redelivery!Pollable
<1>10. EvidenceIsKept'
  <2>1. CASE s8' = s8
    BY <1>2, <2>1 DEF ProbeInv, EvidenceIsKept
  <2>2. CASE Redelivery!Observed(r, shown) /\ s8' = [s8 EXCEPT ![r] = @ \cup {e}]
    <3>1. s6[r].ends \in {<<"killed", "completed">>, <<"lost", "completed">>}
      BY <1>3, <2>2, SilentRunEnds DEF Redelivery!Observed
    <3>2. s8'[r] = s8[r] \cup {e} /\ \A q \in Invocations \ {r} : s8'[q] = s8[q]
      BY <1>1, <2>2
    <3>3. ASSUME NEW q \in Invocations, NEW d \in s8'[q], d.start
          PROVE  s5[d.by] = 1 /\ d.by = q
      BY <1>9, <3>2, <3>3 DEF ProbeInv, EvidenceIsKept
    <3>4. ASSUME NEW q \in Invocations, s8'[q] # {}
          PROVE  /\ s6[q].status = "completed"
                 /\ s6[q].ends \in {<<"killed", "completed">>, <<"lost", "completed">>}
      BY <1>3, <3>1, <3>2, <3>4 DEF ProbeInv, EvidenceIsKept
    <3> QED
      BY <1>2, <3>3, <3>4 DEF ProbeInv, EvidenceIsKept
  <2> QED
    BY <1>5, <2>1, <2>2
<1> QED
  BY <1>2, <1>7, <1>8, <1>10 DEF ProbeInv, RunsAreBound, HitsAreBound

LEMMA ProbeIsLookedFor ==
  ASSUME ProbeInv, NEW r \in Invocations, Redelivery!TakeReceipt(r)
  PROVE  ProbeInv'
<1>1. s6[r].status = "completed" /\ UNCHANGED <<s1, s2, s3, s4, s5, s6, s7, s8>>
  BY DEF Redelivery!TakeReceipt, Redelivery!script, Redelivery!World
<1>2. s9 \in [Invocations -> {"none", "exact_run", "deployment_window"}]
  BY DEF ProbeInv, ProbeTypes
<1>3. PICK rows \in SUBSET {q \in Invocations : Redelivery!Logged(q)} :
        s9' = [s9 EXCEPT ![r] = Redelivery!Binding(r, rows)]
  BY DEF Redelivery!TakeReceipt
<1>4. Redelivery!Binding(r, rows) \in {"none", "exact_run", "deployment_window"}
      /\ (Redelivery!Binding(r, rows) = "exact_run" => r \in rows)
  BY DEF Redelivery!Binding
<1>5. r \in rows => Ended(s6[r], "killed")
  BY DEF Redelivery!Logged, ProbeInv, RunsAreBound, RunIsKept
<1>6. s9' \in [Invocations -> {"none", "exact_run", "deployment_window"}]
      /\ \A q \in Invocations : s9'[q] = IF q = r THEN Redelivery!Binding(r, rows) ELSE s9[q]
  BY <1>2, <1>3, <1>4
<1>7. EvidenceIsKept'
  BY <1>1, <1>4, <1>5, <1>6 DEF ProbeInv, EvidenceIsKept
<1> QED
  BY <1>1, <1>6, <1>7 DEF ProbeInv, ProbeTypes, ScriptIsBound, RunsAreBound, HitsAreBound, Bound

LEMMA ProbeStep ==
  ASSUME ProbeInv, Redelivery!Next \/ UNCHANGED <<s1, s2, s3, s4, s5, s6, s7, s8, s9, s10>>
  PROVE  ProbeInv'
<1>1. CASE UNCHANGED <<s1, s2, s3, s4, s5, s6, s7, s8, s9, s10>>
  BY <1>1 DEF ProbeInv, ProbeTypes, ScriptIsBound, RunsAreBound, EvidenceIsKept, HitsAreBound,
      Bound
<1>2. CASE Redelivery!Next
  <2>1. CASE \E i \in Invocations : ScriptMoves(i)
    BY <2>1, ScriptSteps
  <2>2. CASE \E i \in Invocations : Redelivery!BuildRecoveryEvidence(i)
    BY <2>2, ProbeIsToldOf
  <2>3. CASE \E r \in Invocations : Redelivery!Kill(r)
    BY <2>3, ProbeKills
  <2>4. CASE \E r \in Invocations : Redelivery!Complete(r)
    BY <2>4, ProbeCompletes
  <2>5. CASE \E r \in Invocations : Redelivery!Reject(r)
    BY <2>5, ProbeRejects
  <2>6. CASE \E r \in Invocations : Redelivery!Deliver(r)
    BY <2>6, ProbeDelivers
  <2>7. CASE \E r \in Invocations : Redelivery!Crash(r)
    BY <2>7, ProbeCrashes
  <2>8. CASE \E r \in Invocations : Redelivery!RunEnds(r)
    BY <2>8, ProbeRunEnds
  <2>9. CASE \E r \in Invocations : Redelivery!TakeReceipt(r)
    BY <2>9, ProbeIsLookedFor
  <2> QED
    BY <1>2, <2>1, <2>2, <2>3, <2>4, <2>5, <2>6, <2>7, <2>8, <2>9
    DEF Redelivery!Next, ScriptMoves
<1> QED
  BY <1>1, <1>2

LEMMA ProbeIsTrue == ASSUME ProbeInv PROVE Redelivery!EvidenceIsTrue /\ Redelivery!ProbeIsContained
<1>1. ASSUME NEW r \in Invocations
      PROVE  s6[r].ends \in Seq(EndKinds) /\ RunIsKept(s6[r])
  BY ProbeRunFields DEF ProbeInv, ProbeTypes, RunsAreBound
<1>2. ASSUME NEW r \in Invocations, s8[r] # {}
      PROVE  s6[r].in = "preview" /\ s1.kind = "preview" /\ s1.commit
  <2>1. s6[r].status = "completed" /\ Bound
    BY <1>2 DEF ProbeInv, EvidenceIsKept, RunsAreBound
  <2>2. s6[r].in = "preview"
    BY <1>1, <2>1 DEF RunIsKept, Ended
  <2> QED
    BY <2>1, <2>2 DEF Bound
<1>3. Redelivery!EvidenceIsTrue
  BY <1>2 DEF Redelivery!EvidenceIsTrue, ProbeInv, EvidenceIsKept
<1>4. ASSUME NEW r \in Invocations, s9[r] = "exact_run"
      PROVE  "killed" \in Redelivery!ToSet(s6[r].ends)
  <2>1. Ended(s6[r], "killed")
    BY <1>4 DEF ProbeInv, EvidenceIsKept
  <2> QED
    BY <1>1, <2>1 DEF Ended, Redelivery!ToSet
<1>5. Redelivery!ProbeIsContained
  <2>1. \A i \in Invocations : s5[i] <= 1 /\ (s3[i] # "start" => s5[i] = 0)
    BY DEF ProbeInv, ScriptIsBound
  <2> QED
    BY <1>4, <2>1 DEF Redelivery!ProbeIsContained, ProbeInv, HitsAreBound, Bound
<1> QED
  BY <1>3, <1>5

-----------------------------------------------------------------------------
(*****************************************************************************)
(* The channel for the submission of bids (SubmissionChannel): each          *)
(* statement has a window, and an answer that leaves no reason against a     *)
(* window tells what the window holds.                                       *)
(*****************************************************************************)

\* Two statements at most, and a turn for each batch.
ChannelTypes ==
  /\ s1.statements \subseteq Channel!Statements
  /\ \E x, y : s1.statements \subseteq {x, y}
  /\ s2 \in [Channel!Windows -> 0..2]
  /\ s3 \in 1..3
  /\ s4 = [b \in Channel!Batches |-> s4[b]]

\* What may come back for an honest answer that tells `told' of the statements.
AnswerTo(honest, told, statements, got) ==
  \/ got = {}
  \/ got = {honest}
  \/ got = {honest, [honest EXCEPT !.copy = 1]}
  \/ got = {[honest EXCEPT !.manifest = 0]}
  \/ \E d \in told : got = {[honest EXCEPT !.told = told \ {d}]}
  \/ \E v : got = {[honest EXCEPT !.twice = {v}]}
  \/ \E v : got = {[honest EXCEPT !.uncertain = v]}
  \/ \E d \in told, s \in statements :
       got = {[honest EXCEPT !.told = (told \ {d}) \cup {<<d[1], d[2] \cup {s}>>}]}

AnswerIsKept(b) == AnswerTo(Channel!Honest(b), Channel!Told(b), s1.statements, s4[b])

AnswersAreKept == \A b \in Channel!Batches : b < s3 => AnswerIsKept(b)

RecordsAreTrue ==
  s5.reasons # {"unasked"} =>
    /\ s3 \notin Channel!Batches
    /\ Channel!Complete => s5.relations = s1.statements
    /\ Channel!Untroubled => Channel!Complete

VerdictIsTrue ==
  /\ s6.status # "open" => s5.reasons # {"unasked"}
  /\ s6.status \notin {"open", "unresolved"} => s6.status = Channel!Status(s1.statements)
  /\ s6.status = "unique" => Channel!NamesOnly(s1.statements, s6.channel)

ChannelInv == ChannelTypes /\ AnswersAreKept /\ RecordsAreTrue /\ VerdictIsTrue

LEMMA PairCount == ASSUME NEW x, NEW y, x # y PROVE Cardinality({x, y}) = 2
<1>1. IsFiniteSet({x}) /\ Cardinality({x}) = 1 /\ y \notin {x}
  BY FS_Singleton
<1>2. Cardinality({x} \cup {y}) = Cardinality({x}) + 1
  BY <1>1, FS_AddElement
<1>3. {x, y} = {x} \cup {y}
  OBVIOUS
<1> QED
  BY <1>1, <1>2, <1>3

LEMMA ChannelCount == ASSUME NEW S PROVE Channel!Cardinality(S) = Cardinality(S)
  BY DEF Channel!Cardinality, Channel!IsFiniteSet, Cardinality, IsFiniteSet

\* The last multiple of Core up to a place in a page.
LEMMA PlaceInCore ==
  ASSUME NEW m \in Nat, NEW c \in Nat \ {0}
  PROVE  \E x \in 0..m : x % c = 0 /\ m < x + c
<1> DEFINE k == m \div c
<1>1. m = c * k + (m % c) /\ m % c \in 0..(c - 1) /\ k \in Nat
  OBVIOUS
<1> HIDE DEF k
<1>2. c * k \in Nat
  BY <1>1
<1>3. (c * k) % c = 0
  BY <1>1
<1> DEFINE x == c * k
<1> HIDE DEF x
<1>4. x \in Nat /\ x % c = 0 /\ m = x + (m % c)
  BY <1>1, <1>2, <1>3 DEF x
<1>5. x \in 0..m /\ m < x + c
  BY <1>1, <1>4
<1> QED
  BY <1>4, <1>5

\* Halving a span that is no longer than two halos.
LEMMA HalfOfSpan ==
  ASSUME NEW a \in Nat, NEW b \in Nat, a < b, NEW h \in Nat, b - a <= 2 * h
  PROVE  LET m == a + (b - a - 1) \div 2 IN m \in a..(b - 1) /\ m - a <= h /\ b - (m + 1) <= h
OBVIOUS

\* Each statement has a window that owns and shows it.
LEMMA EachIsShown ==
  ASSUME Channel!SubmissionAssumption, NEW s \in Channel!Statements
  PROVE  \E w \in Channel!Windows : Channel!Owns(w, s) /\ Channel!Shows(w, s)
<1> DEFINE a == s.span[1]
<1> DEFINE b == s.span[2]
<1> DEFINE m == Channel!Middle(s.span)
<1>1. /\ Core \in Nat \ {0} /\ MaxQuote \in Nat \ {0} /\ Length \in Nat /\ Halo \in Nat
      /\ MaxQuote <= 2 * Halo
  BY DEF Channel!SubmissionAssumption
<1>2. /\ a \in 0..Length /\ b \in 0..Length /\ a < b /\ b - a <= MaxQuote
      /\ s.doc \in Channel!Documents
  BY DEF Channel!Statements, Channel!Spans
<1>3. m = a + (b - a - 1) \div 2
  BY DEF Channel!Middle
<1> HIDE DEF a, b, m
<1>4. m \in a..(b - 1) /\ m - a <= Halo /\ b - (m + 1) <= Halo
  <2>1. a \in Nat /\ b \in Nat /\ b - a <= 2 * Halo
    BY <1>1, <1>2
  <2> QED
    BY <1>1, <1>2, <1>3, <2>1, HalfOfSpan
<1>5. m \in 0..(Length - 1) /\ m \in Nat
  BY <1>1, <1>2, <1>4
<1>6. PICK x \in 0..m : x % Core = 0 /\ m < x + Core
  BY <1>1, <1>5, PlaceInCore
<1>7. x \in Channel!Starts
  BY <1>1, <1>5, <1>6 DEF Channel!Starts
<1> DEFINE w == Channel!Window(s.doc, x)
<1> DEFINE end == Channel!Smaller(Length, x + Core)
<1>8. w \in Channel!Windows
  BY <1>2, <1>7 DEF Channel!Windows
<1>9. /\ w.doc = s.doc /\ w.core[1] = x /\ w.core[2] = end
      /\ w.shown[1] = Channel!Larger(0, x - Halo)
      /\ w.shown[2] = Channel!Smaller(Length, end + Halo)
  BY DEF Channel!Window
<1>10. x <= m /\ m < end /\ (end = Length \/ end = x + Core) /\ end \in Nat
  BY <1>1, <1>5, <1>6 DEF Channel!Smaller
<1>11. Channel!Owns(w, s)
  BY <1>9, <1>10 DEF Channel!Owns, m
<1>12. Channel!Larger(0, x - Halo) <= a
  BY <1>1, <1>2, <1>4, <1>6, <1>10 DEF Channel!Larger
<1>13. b <= Channel!Smaller(Length, end + Halo)
  BY <1>1, <1>2, <1>4, <1>6, <1>10 DEF Channel!Smaller
<1>14. Channel!Shows(w, s)
  BY <1>9, <1>12, <1>13 DEF Channel!Shows, a, b
<1> QED
  BY <1>8, <1>11, <1>14

\* Where nothing is wrong with the ledger every window is in a batch.
LEMMA LedgerIsPacked ==
  ASSUME ChannelTypes, Channel!LedgerReason = {}, NEW w \in Channel!Windows
  PROVE  s2[w] \in Channel!Batches
<1>1. s2[w] # 0
  BY DEF Channel!LedgerReason
<1>2. s2[w] \in 0..2
  BY DEF ChannelTypes
<1> QED
  BY <1>1, <1>2 DEF Channel!Batches

\* An answer that leaves no reason against a window tells what the window holds.
LEMMA WindowIsTold ==
  ASSUME ChannelTypes, NEW w \in Channel!Windows, s2[w] \in Channel!Batches,
         AnswerIsKept(s2[w]), Channel!WindowReason(w) = {}
  PROVE  Channel!Decisions(w) = {<<w, Channel!Reported(w)>>}
<1> DEFINE b == s2[w]
<1> DEFINE honest == Channel!Honest(b)
<1> DEFINE told == Channel!Told(b)
<1> DEFINE unsure == honest.uncertain
<1>0. b \in {1, 2}
  BY DEF Channel!Batches
<1>1. /\ Channel!BatchReason(b) = {} /\ Channel!Decisions(w) # {}
      /\ \A d \in Channel!Decisions(w) : Channel!RelationReasons(w, d) = {}
  BY DEF Channel!WindowReason
<1>2. /\ s4[b] # {} /\ ~(Cardinality(s4[b]) > 1)
      /\ \A a \in s4[b] : a.manifest = b
  BY <1>1, ChannelCount DEF Channel!BatchReason
<1>3. /\ honest = [manifest |-> b, told |-> told, twice |-> {}, copy |-> 0, uncertain |-> unsure]
      /\ <<w, Channel!Reported(w)>> \in told
      /\ \A d \in told : d[1] = w => d = <<w, Channel!Reported(w)>>
  BY DEF Channel!Honest, Channel!Told, Channel!Asked
<1> DEFINE ToldAs(t) ==
      \/ t = told
      \/ \E d \in told : t = told \ {d}
      \/ \E d \in told, s \in s1.statements : t = (told \ {d}) \cup {<<d[1], d[2] \cup {s}>>}
<1>4. PICK a : s4[b] = {a} /\ ToldAs(a.told)
  <2>1. honest.told = told /\ honest.manifest = b /\ honest.copy = 0
        /\ honest = [manifest |-> b, told |-> told, twice |-> {}, copy |-> 0, uncertain |-> unsure]
    BY <1>3
  <2>2. /\ [honest EXCEPT !.copy = 1].copy = 1
        /\ [honest EXCEPT !.manifest = 0].manifest = 0
        /\ \A v : [honest EXCEPT !.twice = {v}].told = told
        /\ \A v : [honest EXCEPT !.uncertain = v].told = told
        /\ \A t : [honest EXCEPT !.told = t].told = t
    <3> HIDE DEF told, honest, b, unsure
    <3> QED
      BY <2>1
  <2>3. \/ s4[b] = {honest}
        \/ s4[b] = {honest, [honest EXCEPT !.copy = 1]}
        \/ s4[b] = {[honest EXCEPT !.manifest = 0]}
        \/ \E d \in told : s4[b] = {[honest EXCEPT !.told = told \ {d}]}
        \/ \E v : s4[b] = {[honest EXCEPT !.twice = {v}]}
        \/ \E v : s4[b] = {[honest EXCEPT !.uncertain = v]}
        \/ \E d \in told, s \in s1.statements :
             s4[b] = {[honest EXCEPT !.told = (told \ {d}) \cup {<<d[1], d[2] \cup {s}>>}]}
    BY <1>2 DEF AnswerIsKept, AnswerTo
  <2> HIDE DEF told, honest, b, unsure
  <2>4. CASE s4[b] = {honest}
    BY <2>1, <2>4
  <2>5. CASE s4[b] = {honest, [honest EXCEPT !.copy = 1]}
    <3> DEFINE other == [honest EXCEPT !.copy = 1]
    <3>1. other.copy = 1
      BY <2>2
    <3>2. s4[b] = {honest, other}
      BY <2>5
    <3> HIDE DEF other
    <3>3. honest # other
      BY <2>1, <3>1
    <3>4. Cardinality({honest, other}) = 2
      BY <3>3, PairCount, Zenon
    <3>5. Cardinality(s4[b]) = 2
      BY <3>2, <3>4, Zenon
    <3> QED
      BY <1>2, <3>5
  <2>6. CASE s4[b] = {[honest EXCEPT !.manifest = 0]}
    BY <1>0, <1>2, <2>2, <2>6
  <2>7. ASSUME NEW d \in told, s4[b] = {[honest EXCEPT !.told = told \ {d}]}
        PROVE  \E a : s4[b] = {a} /\ ToldAs(a.told)
    <3> DEFINE a == [honest EXCEPT !.told = told \ {d}]
    <3>1. s4[b] = {a} /\ a.told = told \ {d}
      BY <2>2, <2>7
    <3> HIDE DEF a
    <3> QED
      BY <3>1
  <2>8. ASSUME NEW v, s4[b] = {[honest EXCEPT !.twice = {v}]}
        PROVE  \E a : s4[b] = {a} /\ ToldAs(a.told)
    <3> DEFINE a == [honest EXCEPT !.twice = {v}]
    <3>1. s4[b] = {a} /\ a.told = told
      BY <2>2, <2>8
    <3> HIDE DEF a
    <3> QED
      BY <3>1
  <2>9. ASSUME NEW d \in told, NEW s \in s1.statements,
               s4[b] = {[honest EXCEPT !.told = (told \ {d}) \cup {<<d[1], d[2] \cup {s}>>}]}
        PROVE  \E a : s4[b] = {a} /\ ToldAs(a.told)
    <3> DEFINE t == (told \ {d}) \cup {<<d[1], d[2] \cup {s}>>}
    <3> DEFINE a == [honest EXCEPT !.told = t]
    <3>1. s4[b] = {a} /\ a.told = t
      BY <2>2, <2>9
    <3>2. ToldAs(t)
      OBVIOUS
    <3> HIDE DEF a, t, ToldAs
    <3> QED
      BY <3>1, <3>2
  <2>10. ASSUME NEW v, s4[b] = {[honest EXCEPT !.uncertain = v]}
         PROVE  \E a : s4[b] = {a} /\ ToldAs(a.told)
    <3> DEFINE a == [honest EXCEPT !.uncertain = v]
    <3>1. s4[b] = {a} /\ a.told = told
      BY <2>2, <2>10
    <3> HIDE DEF a
    <3> QED
      BY <3>1
  <2> QED
    BY <2>3, <2>4, <2>5, <2>6, <2>7, <2>8, <2>9, <2>10
<1>5. Channel!Decisions(w) = {d \in a.told : d[1] = w}
  BY <1>4 DEF Channel!Decisions, Channel!TheAnswer
<1> DEFINE mine == <<w, Channel!Reported(w)>>
<1>6. CASE a.told = told
  BY <1>3, <1>5, <1>6
<1>7. ASSUME NEW d \in told, a.told = told \ {d} PROVE Channel!Decisions(w) = {mine}
  BY <1>1, <1>3, <1>5, <1>7
<1>8. ASSUME NEW d \in told, NEW s \in s1.statements,
             a.told = (told \ {d}) \cup {<<d[1], d[2] \cup {s}>>}
      PROVE  Channel!Decisions(w) = {mine}
  <2>1. CASE d[1] # w
    BY <1>3, <1>5, <1>8, <2>1
  <2>2. CASE d[1] = w
    <3>1. d = mine /\ d[2] = Channel!Reported(w)
      BY <1>3, <2>2
    <3> DEFINE more == <<w, Channel!Reported(w) \cup {s}>>
    <3>2. Channel!Decisions(w) = {more}
      BY <1>3, <1>5, <1>8, <3>1
    <3>3. Channel!RelationReasons(w, more) = {} /\ s \in more[2]
      BY <1>1, <3>2
    <3>4. Channel!RelationReason(w, s) = {}
      BY <3>3 DEF Channel!RelationReasons
    <3>5. s \in Channel!Reported(w)
      BY <3>4 DEF Channel!RelationReason, Channel!Reported
    <3> QED
      BY <3>2, <3>5
  <2> QED
    BY <2>1, <2>2
<1> QED
  BY <1>4, <1>6, <1>7, <1>8

\* What windows without a reason against them tell together is the package.
LEMMA AllIsTold ==
  ASSUME Channel!SubmissionAssumption, ChannelTypes,
         \A b \in Channel!Batches : AnswerIsKept(b),
         \A w \in Channel!Windows : s2[w] \in Channel!Batches /\ Channel!WindowReason(w) = {}
  PROVE  UNION {UNION {d[2] : d \in Channel!Decisions(w)} : w \in Channel!Windows} = s1.statements
<1>1. ASSUME NEW w \in Channel!Windows
      PROVE  UNION {d[2] : d \in Channel!Decisions(w)} = Channel!Reported(w)
  <2>1. Channel!Decisions(w) = {<<w, Channel!Reported(w)>>}
    BY WindowIsTold
  <2> QED
    BY <2>1
<1>2. ASSUME NEW w \in Channel!Windows PROVE Channel!Reported(w) \subseteq s1.statements
  BY DEF Channel!Reported
<1>3. ASSUME NEW s \in s1.statements
      PROVE  \E w \in Channel!Windows : s \in Channel!Reported(w)
  <2>1. s \in Channel!Statements
    BY DEF ChannelTypes
  <2> QED
    BY <2>1, EachIsShown DEF Channel!Reported
<1> QED
  BY <1>1, <1>2, <1>3

\* Where nothing went wrong there is no reason against a window.
LEMMA HonestIsVerified ==
  ASSUME ChannelTypes, Channel!Untroubled, NEW w \in Channel!Windows
  PROVE  Channel!WindowReason(w) = {}
<1> DEFINE b == s2[w]
<1> DEFINE mine == <<w, Channel!Reported(w)>>
<1>1. b \in Channel!Batches /\ s4[b] = {Channel!Honest(b)}
  BY LedgerIsPacked DEF Channel!Untroubled
<1>2. /\ Channel!Honest(b).manifest = b /\ Channel!Honest(b).twice = {}
      /\ Channel!Honest(b).told = Channel!Told(b)
      /\ Channel!Honest(b).uncertain = {v \in Channel!Asked(b) : Channel!Crowded(v)}
  BY DEF Channel!Honest
<1>3. Channel!BatchReason(b) = {}
  <2>1. Cardinality(s4[b]) = 1
    BY <1>1, FS_Singleton
  <2> QED
    BY <1>1, <1>2, <2>1, ChannelCount DEF Channel!BatchReason
<1>4. Channel!TheAnswer(b) = Channel!Honest(b)
  BY <1>1 DEF Channel!TheAnswer
<1>5. Channel!Decisions(w) = {mine}
  <2>1. Channel!Decisions(w) = {d \in Channel!Told(b) : d[1] = w}
    BY <1>2, <1>4 DEF Channel!Decisions
  <2>2. mine \in Channel!Told(b) /\ \A d \in Channel!Told(b) : d[1] = w => d = mine
    BY DEF Channel!Told, Channel!Asked
  <2> QED
    BY <2>1, <2>2
<1>6. Channel!RelationReasons(w, mine) = {}
  <2>1. mine[2] = Channel!Reported(w)
    OBVIOUS
  <2>2. ~(Channel!Cardinality(mine[2]) > Channel!Capacity(w))
    BY DEF Channel!Untroubled, Channel!Crowded
  <2>3. \A s \in mine[2] : Channel!RelationReason(w, s) = {}
    BY <2>1 DEF Channel!RelationReason, Channel!Reported
  <2>4. \A s, t \in mine[2] : s.span = t.span => s = t
    BY <2>1 DEF Channel!Reported, Channel!Owns, Channel!Untroubled
  <2> HIDE DEF mine
  <2> QED
    BY <2>2, <2>3, <2>4 DEF Channel!RelationReasons
<1>7. w \notin Channel!TheAnswer(b).twice /\ w \notin Channel!TheAnswer(b).uncertain
  BY <1>2, <1>4 DEF Channel!Untroubled
<1> QED
  BY <1>3, <1>5, <1>6, <1>7 DEF Channel!WindowReason

\* What the answers are held against stays as it is.
LEMMA ChannelStays ==
  ASSUME UNCHANGED <<s1, s2>>
  PROVE  /\ Channel!LedgerReason' = Channel!LedgerReason
         /\ \A w : Channel!Crowded(w)' = Channel!Crowded(w)
         /\ \A b : Channel!Honest(b)' = Channel!Honest(b)
         /\ \A b : Channel!Told(b)' = Channel!Told(b)
<1>1. ASSUME NEW w PROVE Channel!Mentions(w)' = Channel!Mentions(w)
  BY DEF Channel!Mentions
<1>2. Channel!Exceeded' = Channel!Exceeded
  BY <1>1 DEF Channel!Exceeded
<1>3. Channel!LedgerReason' = Channel!LedgerReason
  BY <1>2 DEF Channel!LedgerReason
<1>4. ASSUME NEW w
      PROVE  Channel!Reported(w)' = Channel!Reported(w) /\ Channel!Crowded(w)' = Channel!Crowded(w)
  BY <1>1 DEF Channel!Reported, Channel!Crowded, Channel!Capacity
<1>5. ASSUME NEW b PROVE Channel!Asked(b)' = Channel!Asked(b) /\ Channel!Told(b)' = Channel!Told(b)
  BY <1>4 DEF Channel!Told, Channel!Asked
<1>6. ASSUME NEW b PROVE Channel!Honest(b)' = Channel!Honest(b)
  BY <1>4, <1>5 DEF Channel!Honest
<1> QED
  BY <1>3, <1>4, <1>5, <1>6

\* With the same answers, what was not troubled is not troubled.
LEMMA TroubleStays ==
  ASSUME UNCHANGED <<s1, s2, s4>>
  PROVE  Channel!Untroubled' = Channel!Untroubled
  BY ChannelStays DEF Channel!Untroubled

LEMMA ChannelInit == ASSUME Channel!Init PROVE ChannelInv
<1>1. /\ \E x, y : s1.statements \subseteq {x, y}
      /\ s1.statements \subseteq Channel!Statements
  <2>1. PICK some \in {{}} \cup {{s} : s \in Channel!Statements} \cup
                      {{s, t} : s \in Channel!Statements, t \in Channel!Statements} :
          s1.statements = some
    BY DEF Channel!Init
  <2>2. CASE some = {}
    BY <2>1, <2>2
  <2>3. ASSUME NEW s \in Channel!Statements, NEW t \in Channel!Statements, some \in {{s}, {s, t}}
        PROVE  (\E x, y : some \subseteq {x, y}) /\ some \subseteq Channel!Statements
    BY <2>3
  <2> QED
    BY <2>1, <2>2, <2>3
<1>2. s2 \in [Channel!Windows -> 0..2]
  BY DEF Channel!Init
<1>3. /\ s3 = 1 /\ s4 = [b \in Channel!Batches |-> {}] /\ s5.reasons = {"unasked"}
      /\ s6.status = "open"
  BY DEF Channel!Init
<1> QED
  BY <1>1, <1>2, <1>3 DEF ChannelInv, ChannelTypes, AnswersAreKept, RecordsAreTrue, VerdictIsTrue,
                          Channel!Batches

LEMMA ChannelAsks == ASSUME ChannelInv, Channel!Adjudicate PROVE ChannelInv'
<1>1. /\ s3 \in {1, 2} /\ s3' = s3 + 1 /\ UNCHANGED <<s1, s2, s5, s6>>
  BY DEF Channel!Adjudicate, Channel!Batches
<1>2. PICK answer \in {{Channel!Honest(s3)}} \cup Channel!Slips(s3) :
        s4' = [s4 EXCEPT ![s3] = answer]
  BY DEF Channel!Adjudicate
<1> DEFINE tells == AnswerTo(Channel!Honest(s3), Channel!Told(s3), s1.statements, answer)
<1>8. tells
  <2> DEFINE honest == Channel!Honest(s3)
  <2> DEFINE told == Channel!Told(s3)
  <2>1. CASE answer \in {{}, {honest}, {honest, [honest EXCEPT !.copy = 1]},
                        {[honest EXCEPT !.manifest = 0]}}
    BY <2>1 DEF AnswerTo
  <2>2. ASSUME NEW d \in told, answer = {[honest EXCEPT !.told = told \ {d}]} PROVE tells
    BY <2>2 DEF AnswerTo
  <2>3. ASSUME NEW w, answer = {[honest EXCEPT !.twice = {w}]} PROVE tells
    BY <2>3 DEF AnswerTo
  <2>7. ASSUME NEW w, answer = {[honest EXCEPT !.uncertain = honest.uncertain \cup {w}]}
        PROVE  tells
    <3> DEFINE more == honest.uncertain \cup {w}
    <3>1. answer = {[honest EXCEPT !.uncertain = more]}
      BY <2>7
    <3> HIDE DEF more
    <3> QED
      BY <3>1 DEF AnswerTo
  <2>4. ASSUME NEW d \in told, NEW s \in s1.statements,
               answer = {[honest EXCEPT !.told = (told \ {d}) \cup {<<d[1], d[2] \cup {s}>>}]}
        PROVE  tells
    BY <2>4 DEF AnswerTo
  <2> DEFINE slips == {s \in s1.statements : \E v \in Channel!Asked(s3) : Channel!Shows(v, s)}
  <2>5. \/ answer \in {{}, {honest}, {honest, [honest EXCEPT !.copy = 1]},
                       {[honest EXCEPT !.manifest = 0]}}
        \/ answer \in {{[honest EXCEPT !.told = told \ {d}]} : d \in told}
        \/ answer \in {{[honest EXCEPT !.twice = {v}]} : v \in Channel!Asked(s3)}
        \/ answer \in {{[honest EXCEPT !.uncertain = honest.uncertain \cup {v}]} :
                        v \in Channel!Asked(s3)}
        \/ answer \in {{[honest EXCEPT !.told = (told \ {d}) \cup {<<d[1], d[2] \cup {s}>>}]} :
                        d \in told, s \in slips}
    BY <1>2 DEF Channel!Slips
  <2>6. slips \subseteq s1.statements
    OBVIOUS
  <2> HIDE DEF tells, honest, told, slips
  <2> QED
    <3>1. CASE answer \in {{[honest EXCEPT !.uncertain = honest.uncertain \cup {v}]} :
                          v \in Channel!Asked(s3)}
      BY <2>7, <3>1
    <3>2. CASE answer \in {{[honest EXCEPT !.told = told \ {d}]} : d \in told}
      BY <2>2, <3>2
    <3>3. CASE answer \in {{[honest EXCEPT !.twice = {v}]} : v \in Channel!Asked(s3)}
      BY <2>3, <3>3
    <3>4. CASE answer \in {{[honest EXCEPT !.told = (told \ {d}) \cup {<<d[1], d[2] \cup {s}>>}]} :
                           d \in told, s \in slips}
      BY <2>4, <2>6, <3>4
    <3> QED
      BY <2>1, <2>5, <3>1, <3>2, <3>3, <3>4
<1>3. s4 = [b \in Channel!Batches |-> s4[b]]
  BY DEF ChannelInv, ChannelTypes
<1>4. /\ s4' = [b \in Channel!Batches |-> s4'[b]] /\ s4'[s3] = answer
      /\ \A b \in Channel!Batches : b # s3 => s4'[b] = s4[b]
  <2>1. DOMAIN s4 = Channel!Batches /\ s3 \in Channel!Batches
    BY <1>1, <1>3 DEF Channel!Batches
  <2>2. s4' = [b \in Channel!Batches |-> IF b = s3 THEN answer ELSE s4[b]]
    BY <1>2, <2>1
  <2> QED
    BY <2>1, <2>2
<1>5. ChannelTypes'
  BY <1>1, <1>4 DEF ChannelInv, ChannelTypes
<1>6. AnswersAreKept'
  <2>1. ASSUME NEW b \in Channel!Batches, b < s3'
        PROVE  AnswerTo(Channel!Honest(b), Channel!Told(b), s1.statements, s4'[b])
    <3>1. b = s3 \/ b < s3
      BY <1>1, <2>1 DEF Channel!Batches
    <3> QED
      BY <1>1, <1>8, <1>4, <3>1 DEF ChannelInv, AnswersAreKept, AnswerIsKept
  <2>2. ASSUME NEW b \in Channel!Batches, b < s3' PROVE AnswerIsKept(b)'
    BY <1>1, <2>1, <2>2, ChannelStays DEF AnswerIsKept
  <2> QED
    BY <2>2 DEF AnswersAreKept
<1>7. s5.reasons = {"unasked"}
  BY <1>1 DEF ChannelInv, RecordsAreTrue, Channel!Batches
<1> QED
  BY <1>1, <1>5, <1>6, <1>7 DEF ChannelInv, RecordsAreTrue, VerdictIsTrue

LEMMA ChannelVerifies ==
  ASSUME Channel!SubmissionAssumption, ChannelInv, Channel!Verify
  PROVE  ChannelInv'
<1>1. s3 \notin Channel!Batches /\ s5.reasons = {"unasked"} /\ UNCHANGED <<s1, s2, s3, s4, s6>>
  BY DEF Channel!Verify
<1>2. ChannelTypes' /\ ChannelTypes
  BY <1>1 DEF ChannelInv, ChannelTypes
<1>3. \A b \in Channel!Batches : AnswerIsKept(b)
  BY <1>1 DEF ChannelInv, ChannelTypes, AnswersAreKept, Channel!Batches
<1>4. AnswersAreKept'
  BY <1>1, <1>3, ChannelStays DEF AnswersAreKept, AnswerIsKept
<1>5. Channel!Untroubled' = Channel!Untroubled
  BY <1>1, TroubleStays
<1>6. CASE Channel!LedgerReason # {}
  <2>1. s5'.reasons = Channel!LedgerReason
    BY <1>6 DEF Channel!Verify
  <2>2. ~Channel!Complete' /\ ~Channel!Untroubled
    BY <1>6, <2>1 DEF Channel!Complete, Channel!Untroubled
  <2> QED
    BY <1>1, <1>2, <1>4, <1>5, <2>1, <2>2 DEF ChannelInv, RecordsAreTrue, VerdictIsTrue
<1>7. CASE Channel!LedgerReason = {}
  <2> DEFINE verified == {w \in Channel!Windows : Channel!WindowReason(w) = {}}
  <2>1. /\ s5'.verified = verified
        /\ s5'.relations = UNION {UNION {d[2] : d \in Channel!Decisions(w)} : w \in verified}
        /\ s5'.reasons = UNION {Channel!WindowReason(w) : w \in Channel!Windows}
    BY <1>7 DEF Channel!Verify
  <2>2. ASSUME Channel!Complete' PROVE s5'.relations = s1'.statements
    <3>1. \A w \in Channel!Windows : Channel!WindowReason(w) = {}
      BY <2>1, <2>2 DEF Channel!Complete
    <3>2. verified = Channel!Windows
      BY <3>1
    <3>3. UNION {UNION {d[2] : d \in Channel!Decisions(w)} : w \in Channel!Windows} = s1.statements
      BY <1>2, <1>3, <1>7, <3>1, LedgerIsPacked, AllIsTold
    <3> QED
      BY <1>1, <2>1, <3>2, <3>3
  <2>3. ASSUME Channel!Untroubled PROVE Channel!Complete'
    <3>1. \A w \in Channel!Windows : Channel!WindowReason(w) = {}
      BY <1>2, <2>3, HonestIsVerified
    <3>2. verified = Channel!Windows
      BY <3>1
    <3>3. UNION {Channel!WindowReason(w) : w \in Channel!Windows} = {}
      BY <3>1
    <3> HIDE DEF verified
    <3>4. s5'.reasons = {} /\ s5'.verified = Channel!Windows
      BY <2>1, <3>2, <3>3
    <3> QED
      BY <3>4 DEF Channel!Complete
  <2>4. RecordsAreTrue'
    BY <1>1, <1>5, <2>2, <2>3 DEF RecordsAreTrue
  <2>5. VerdictIsTrue'
    BY <1>1 DEF ChannelInv, VerdictIsTrue
  <2> QED
    BY <1>2, <1>4, <2>4, <2>5 DEF ChannelInv
<1> QED
  BY <1>6, <1>7

\* The only channel of a complete package is the one it allows.
LEMMA UniqueIsNamed ==
  ASSUME ChannelTypes, Channel!Status(s1.statements) = "unique"
  PROVE  Channel!NamesOnly(s1.statements, CHOOSE c \in Channel!Possible(s1.statements) : TRUE)
<1> DEFINE possible == Channel!Possible(s1.statements)
<1>1. /\ Channel!Restated(s1.statements) /\ possible # {} /\ ~(Cardinality(possible) > 1)
      /\ possible \subseteq Channel!Ruled(s1.statements, "required")
      /\ ~(possible \subseteq Channel!Ruled(s1.statements, "prohibited"))
  BY ChannelCount DEF Channel!Status
<1>2. PICK x, y : s1.statements \subseteq {x, y}
  BY DEF ChannelTypes
<1>3. possible \in SUBSET ({x.channel} \cup {y.channel})
  BY <1>2 DEF Channel!Possible, Channel!Positive
<1> HIDE DEF possible
<1>4. IsFiniteSet({x.channel} \cup {y.channel})
  BY FS_Singleton, FS_AddElement
<1>5. IsFiniteSet(possible)
  BY <1>3, <1>4, FS_Subset
<1>6. Cardinality(possible) = 1
  BY <1>1, <1>5, FS_CardinalityType, FS_EmptySet
<1>7. PICK c : possible = {c}
  BY <1>5, <1>6, FS_Singleton
<1>8. (CHOOSE d \in possible : TRUE) = c
  BY <1>7
<1> QED
  BY <1>1, <1>7, <1>8 DEF Channel!NamesOnly, possible

LEMMA ChannelResolves == ASSUME ChannelInv, Channel!Resolve PROVE ChannelInv'
<1>1. s5.reasons # {"unasked"} /\ UNCHANGED <<s1, s2, s3, s4, s5>>
  BY DEF Channel!Resolve
<1>2. ASSUME s6'.status = "unique"
      PROVE  /\ Channel!Complete /\ Channel!Status(s5.relations) = "unique"
             /\ s6'.channel = CHOOSE c \in Channel!Possible(s5.relations) : TRUE
  BY <1>2 DEF Channel!Resolve
<1>3. ASSUME s6'.status \notin {"open", "unresolved"}
      PROVE  s6'.status = Channel!Status(s1.statements)
  <2>1. Channel!Complete /\ s6'.status = Channel!Status(s5.relations)
    BY <1>3 DEF Channel!Resolve
  <2> QED
    BY <1>1, <2>1 DEF ChannelInv, RecordsAreTrue
<1>4. ASSUME s6'.status = "unique" PROVE Channel!NamesOnly(s1.statements, s6'.channel)
  <2>1. s5.relations = s1.statements
    BY <1>1, <1>2, <1>4 DEF ChannelInv, RecordsAreTrue
  <2> QED
    BY <1>2, <1>4, <2>1, UniqueIsNamed DEF ChannelInv
<1>5. VerdictIsTrue'
  BY <1>1, <1>4, <1>3 DEF VerdictIsTrue
<1>6. ChannelTypes' /\ AnswersAreKept' /\ Channel!Untroubled' = Channel!Untroubled
  BY <1>1, ChannelStays, TroubleStays DEF ChannelInv, ChannelTypes, AnswersAreKept, AnswerIsKept
<1>7. RecordsAreTrue'
  BY <1>1, <1>6 DEF ChannelInv, RecordsAreTrue, Channel!Complete
<1> QED
  BY <1>5, <1>6, <1>7 DEF ChannelInv

LEMMA ChannelStep ==
  ASSUME Channel!SubmissionAssumption, ChannelInv,
         Channel!Next \/ UNCHANGED <<s1, s2, s3, s4, s5, s6>>
  PROVE  ChannelInv'
<1>1. CASE UNCHANGED <<s1, s2, s3, s4, s5, s6>>
  <2>1. ChannelTypes' /\ AnswersAreKept' /\ Channel!Untroubled' = Channel!Untroubled
    BY <1>1, ChannelStays, TroubleStays DEF ChannelInv, ChannelTypes, AnswersAreKept, AnswerIsKept
  <2>2. RecordsAreTrue' /\ VerdictIsTrue'
    BY <1>1, <2>1 DEF ChannelInv, RecordsAreTrue, VerdictIsTrue, Channel!Complete
  <2> QED
    BY <2>1, <2>2 DEF ChannelInv
<1> QED
  BY <1>1, ChannelAsks, ChannelVerifies, ChannelResolves DEF Channel!Next

LEMMA ChannelIsAsSaid == ASSUME ChannelInv PROVE Channel!ChannelIsTrue
BY DEF ChannelInv, VerdictIsTrue, RecordsAreTrue, Channel!ChannelIsTrue

-----------------------------------------------------------------------------
(*****************************************************************************)
(* The facts an analysis settles on (Reconciliation): what holds of the      *)
(* facts taken so far, stage by stage.                                       *)
(*****************************************************************************)

EffectKinds == {"add", "replace", "delete"}

FactRecords ==
  [stage : Nat, effect : EffectKinds, value : Values \cup {Facts!AnyValue}, cited : BOOLEAN,
   bound : BOOLEAN]

FactStates == {"open", "active", "conflicted", "superseded"}

\* What an amendment states is cited, and acts on what it replaces or deletes.
Asserted(i) ==
  s2[i].cited /\ s2[i].effect # "delete" /\ (s2[i].effect = "replace" => Facts!Acts(i))

TakenBy(j, i) == Facts!Acts(j) /\ s2[j].stage > s2[i].stage

\* What holds of the facts taken so far.
Standing == {i \in 1..s3 : Asserted(i) /\ \A j \in 1..s3 : ~TakenBy(j, i)}

FactTypes ==
  /\ s2 \in Seq(FactRecords) /\ s3 \in 0..Len(s2)
  /\ s4 \in [1..Len(s2) -> FactStates]
  /\ \A i, j \in 1..Len(s2) : i < j => s2[i].stage <= s2[j].stage
  /\ \A i \in 1..s3, j \in (s3 + 1)..Len(s2) : s2[i].stage < s2[j].stage

StagesTaken ==
  /\ s5 = Standing /\ s6 \subseteq s5
  /\ \A i \in 1..Len(s2) : i \in s5 <=> s4[i] \in {"active", "conflicted"}
  /\ \A i \in s6 : s4[i] = "conflicted"
  /\ (\E i \in 1..Len(s2) : s4[i] = "conflicted") => s6 # {}

FactsInv == FactTypes /\ (s7 = <<>> => StagesTaken) /\ Facts!FactsAreReconciled
            /\ (s7 # <<>> => s3 = Len(s2) /\ s2 # <<>>)

LEMMA FactFields ==
  ASSUME s2 \in Seq(FactRecords), NEW i \in 1..Len(s2)
  PROVE  /\ s2[i].stage \in Nat /\ s2[i].effect \in EffectKinds
         /\ s2[i].cited \in BOOLEAN /\ s2[i].bound \in BOOLEAN
<1>1. s2[i] \in FactRecords
  OBVIOUS
<1> QED
  BY <1>1 DEF FactRecords

\* A fact of a stage is a candidate, or mutates, as the words of its source say.
LEMMA WordsOfSource ==
  ASSUME s2 \in Seq(FactRecords), NEW i \in 1..Len(s2)
  PROVE  /\ Facts!Mutates(i) <=> Facts!Acts(i)
         /\ s2[i].cited /\ s2[i].effect # "delete" /\ Facts!Authorized(i) <=> Asserted(i)
<1>1. s2[i].cited \in BOOLEAN /\ s2[i].bound \in BOOLEAN /\ s2[i].effect \in EffectKinds
      /\ s2[i].stage \in Nat
  BY FactFields
<1> QED
  BY <1>1 DEF Facts!Mutates, Facts!Acts, Facts!Authorized, Asserted, EffectKinds

LEMMA FactsInit == ASSUME Facts!Init PROVE FactsInv
<1>1. s2 = <<>> /\ s3 = 0 /\ s4 = <<>> /\ s5 = {} /\ s6 = {} /\ s7 = <<>>
  BY DEF Facts!Init
<1>2. Len(s2) = 0 /\ s2 \in Seq(FactRecords)
  BY <1>1
<1>3. s4 \in [1..Len(s2) -> FactStates]
  BY <1>1, <1>2
<1>4. FactTypes
  BY <1>1, <1>2, <1>3 DEF FactTypes
<1>5. StagesTaken
  BY <1>1, <1>2 DEF StagesTaken, Standing
<1> QED
  BY <1>1, <1>4, <1>5 DEF FactsInv, Facts!FactsAreReconciled

\* The drafts, before any is taken.
LEMMA FactsState ==
  ASSUME FactsInv, Facts!State
  PROVE  FactsInv'
<1>a. PICK stage \in 0..MaxStage : \E fact \in Facts!Stated(stage) :
        /\ s2 # <<>> => s2[Len(s2)].stage <= stage
        /\ s2' = Append(s2, fact)
  BY DEF Facts!State
<1>1. PICK fact \in Facts!Stated(stage) :
        /\ s2 # <<>> => s2[Len(s2)].stage <= stage
        /\ s2' = Append(s2, fact)
  BY <1>a
<1>2. s3 = 0 /\ s7 = <<>> /\ UNCHANGED <<s1, s3, s5, s6, s7>> /\ s4' = Append(s4, "open")
  BY DEF Facts!State
<1>3. MaxStage \in Nat /\ stage \in Nat
  BY VerdictsAssumption DEF VerdictsAssumption, Facts!ReconciliationAssumption
<1>4. fact \in FactRecords /\ fact.stage = stage
  BY <1>3 DEF Facts!Stated, FactRecords, EffectKinds
<1>5. s2 \in Seq(FactRecords) /\ s4 \in [1..Len(s2) -> FactStates]
      /\ \A i, j \in 1..Len(s2) : i < j => s2[i].stage <= s2[j].stage
  BY DEF FactsInv, FactTypes
<1>6. /\ s2' \in Seq(FactRecords) /\ Len(s2') = Len(s2) + 1 /\ s2'[Len(s2) + 1] = fact
      /\ \A i \in 1..Len(s2) : s2'[i] = s2[i]
  BY <1>1, <1>4, <1>5
<1>7. /\ s4' \in [1..Len(s2') -> FactStates] /\ s4'[Len(s2) + 1] = "open"
      /\ \A i \in 1..Len(s2) : s4'[i] = s4[i]
  <2>1. s4 \in Seq(FactStates) /\ Len(s4) = Len(s2)
    BY <1>5, SeqDef
  <2>2. s4' \in Seq(FactStates) /\ Len(s4') = Len(s2) + 1 /\ s4'[Len(s2) + 1] = "open"
        /\ \A i \in 1..Len(s2) : s4'[i] = s4[i]
    BY <1>2, <2>1 DEF FactStates
  <2> QED
    BY <1>6, <2>2
<1>8. FactTypes'
  <2>1. \A i \in 1..Len(s2) : s2[i].stage <= s2[Len(s2)].stage
    <3> SUFFICES ASSUME NEW i \in 1..Len(s2) PROVE s2[i].stage <= s2[Len(s2)].stage
      OBVIOUS
    <3>1. i < Len(s2) \/ i = Len(s2)
      BY <1>5
    <3>2. s2[i].stage \in Nat
      BY <1>5, FactFields
    <3> QED
      BY <1>5, <3>1, <3>2
  <2>2. \A i \in 1..Len(s2) : s2[i].stage <= stage
    <3> SUFFICES ASSUME NEW i \in 1..Len(s2) PROVE s2[i].stage <= stage
      OBVIOUS
    <3>1. s2 # <<>> /\ Len(s2) \in 1..Len(s2)
      BY <1>5
    <3>2. s2[i].stage \in Nat /\ s2[Len(s2)].stage \in Nat
      BY <1>5, <3>1, FactFields
    <3> QED
      BY <1>1, <1>3, <2>1, <3>1, <3>2
  <2>3. \A i, j \in 1..Len(s2') : i < j => s2'[i].stage <= s2'[j].stage
    <3> SUFFICES ASSUME NEW i \in 1..Len(s2'), NEW j \in 1..Len(s2'), i < j
                 PROVE  s2'[i].stage <= s2'[j].stage
      OBVIOUS
    <3>1. Len(s2) \in Nat /\ i \in 1..Len(s2) /\ s2'[i] = s2[i]
      BY <1>5, <1>6
    <3>2. CASE j \in 1..Len(s2)
      BY <1>5, <1>6, <3>1, <3>2
    <3>3. CASE j = Len(s2) + 1
      BY <1>4, <1>6, <2>2, <3>1, <3>3
    <3> QED
      BY <1>6, <3>1, <3>2, <3>3
  <2> QED
    BY <1>2, <1>6, <1>7, <2>3 DEF FactTypes
<1>9. StagesTaken'
  <2>1. StagesTaken /\ s5 = {} /\ s6 = {}
    BY <1>2 DEF FactsInv, StagesTaken, Standing
  <2>2. Standing' = {}
    BY <1>2 DEF Standing
  <2>3. \A i \in 1..Len(s2') : s4'[i] \notin {"active", "conflicted"}
    <3>1. \A i \in 1..Len(s2) : s4[i] \notin {"active", "conflicted"}
      BY <2>1 DEF StagesTaken
    <3> QED
      BY <1>6, <1>7, <3>1, <1>5
  <2> QED
    BY <1>2, <2>1, <2>2, <2>3 DEF StagesTaken
<1> QED
  BY <1>2, <1>8, <1>9 DEF FactsInv, Facts!FactsAreReconciled

\* A stage is a run of facts after the cursor: as many as there are of it.
LEMMA StageEnds ==
  ASSUME FactTypes, s3 < Len(s2)
  PROVE  \E m \in (s3 + 1)..Len(s2) :
           /\ Facts!NextStage = (s3 + 1)..m /\ m = s3 + Cardinality(Facts!NextStage)
           /\ \A i \in (s3 + 1)..m : s2[i].stage = s2[s3 + 1].stage
           /\ \A i \in 1..m, j \in (m + 1)..Len(s2) : s2[i].stage < s2[j].stage
<1>1. /\ s2 \in Seq(FactRecords) /\ s3 \in 0..Len(s2) /\ Len(s2) \in Nat /\ s3 \in Nat
      /\ \A i, j \in 1..Len(s2) : i < j => s2[i].stage <= s2[j].stage
      /\ \A i \in 1..s3, j \in (s3 + 1)..Len(s2) : s2[i].stage < s2[j].stage
  BY DEF FactTypes
<1>2. \A i \in 1..Len(s2) : s2[i].stage \in Nat
  BY <1>1, FactFields
<1> DEFINE stage == {i \in 1..Len(s2) : i > s3 /\ s2[i].stage = s2[s3 + 1].stage}
<1> DEFINE k == Cardinality(stage)
<1> DEFINE m == s3 + k
<1>3. Facts!NextStage = stage
  BY <1>1 DEF Facts!NextStage, Facts!Index
<1>4. IsFiniteSet(stage) /\ k \in Nat
  <2>1. stage \in SUBSET (1..Len(s2)) /\ IsFiniteSet(1..Len(s2))
    BY <1>1, FS_Interval
  <2>2. IsFiniteSet(stage)
    BY <2>1, FS_Subset
  <2> QED
    BY <2>2, FS_CardinalityType
\* The facts are sorted: with a fact of the stage go those before it.
<1>5. ASSUME NEW i \in stage PROVE (s3 + 1)..i \in SUBSET stage
  <2> SUFFICES ASSUME NEW j \in (s3 + 1)..i PROVE j \in stage
    OBVIOUS
  <2>1. /\ i \in 1..Len(s2) /\ j \in 1..Len(s2) /\ s3 + 1 \in 1..Len(s2) /\ j > s3
        /\ s3 + 1 < j \/ s3 + 1 = j
        /\ j < i \/ j = i
    BY <1>1, <1>5
  <2>2. s2[i].stage \in Nat /\ s2[j].stage \in Nat /\ s2[s3 + 1].stage \in Nat
    BY <1>2, <2>1
  <2>3. s2[s3 + 1].stage <= s2[j].stage
    BY <1>1, <2>1, <2>2
  <2>4. s2[j].stage <= s2[i].stage
    BY <1>1, <2>1, <2>2
  <2> QED
    BY <2>1, <2>2, <2>3, <2>4
<1>6. ASSUME NEW i \in stage PROVE i \in (s3 + 1)..m
  <2>1. (s3 + 1)..i \in SUBSET stage
    BY <1>5
  <2>2. i \in Nat /\ i > s3
    BY <1>1
  <2>3. Cardinality((s3 + 1)..i) = i - s3
    <3>1. s3 + 1 \in Int /\ i \in Int
      BY <1>1, <2>2
    <3>2. Cardinality((s3 + 1)..i) = IF s3 + 1 > i THEN 0 ELSE i - (s3 + 1) + 1
      BY <3>1, FS_Interval
    <3> QED
      BY <1>1, <2>2, <3>2
  <2>4. Cardinality((s3 + 1)..i) <= k
    BY <1>4, <2>1, FS_Subset
  <2> HIDE DEF k
  <2> QED
    BY <1>1, <1>4, <2>2, <2>3, <2>4
<1>7. stage = (s3 + 1)..m
  <2>1. IsFiniteSet((s3 + 1)..m) /\ Cardinality((s3 + 1)..m) = k
    <3>1. s3 + 1 \in Int /\ m \in Int
      BY <1>1, <1>4
    <3>2. /\ IsFiniteSet((s3 + 1)..m)
          /\ Cardinality((s3 + 1)..m) = IF s3 + 1 > m THEN 0 ELSE m - (s3 + 1) + 1
      BY <3>1, FS_Interval
    <3> HIDE DEF k
    <3> QED
      BY <1>1, <1>4, <3>2
  <2>2. stage \in SUBSET ((s3 + 1)..m)
    BY <1>6
  <2> QED
    BY <2>1, <2>2, FS_Subset
<1>8. s3 + 1 \in stage
  BY <1>1
<1>9. m \in stage
  <2> HIDE DEF k, stage
  <2> QED
    BY <1>1, <1>4, <1>7, <1>8
<1>10. m \in (s3 + 1)..Len(s2)
  BY <1>1, <1>7, <1>9
<1>11. \A i \in (s3 + 1)..m : s2[i].stage = s2[s3 + 1].stage
  BY <1>7
<1>12. \A j \in (m + 1)..Len(s2) : s2[s3 + 1].stage < s2[j].stage
  <2> SUFFICES ASSUME NEW j \in (m + 1)..Len(s2) PROVE s2[s3 + 1].stage < s2[j].stage
    OBVIOUS
  <2> HIDE DEF k
  <2>1. j \in 1..Len(s2) /\ s3 + 1 \in 1..Len(s2) /\ s3 + 1 < j /\ j > s3 /\ j \notin (s3 + 1)..m
    BY <1>1, <1>4, <1>10
  <2>2. s2[j].stage # s2[s3 + 1].stage
    BY <1>7, <2>1
  <2>3. s2[s3 + 1].stage <= s2[j].stage
    BY <1>1, <2>1
  <2>4. s2[j].stage \in Nat /\ s2[s3 + 1].stage \in Nat
    BY <1>2, <2>1
  <2> QED
    BY <2>2, <2>3, <2>4
<1>13. \A i \in 1..m, j \in (m + 1)..Len(s2) : s2[i].stage < s2[j].stage
  <2> SUFFICES ASSUME NEW i \in 1..m, NEW j \in (m + 1)..Len(s2) PROVE s2[i].stage < s2[j].stage
    OBVIOUS
  <2> HIDE DEF k, stage
  <2>1. CASE i \in 1..s3
    <3>1. j \in (s3 + 1)..Len(s2)
      BY <1>1, <1>4
    <3> QED
      BY <1>1, <2>1, <3>1
  <2>2. CASE i \in (s3 + 1)..m
    BY <1>11, <1>12, <2>2
  <2>3. i \in 1..s3 \/ i \in (s3 + 1)..m
    BY <1>1, <1>4
  <2> QED
    BY <2>1, <2>2, <2>3
<1>14. m = s3 + Cardinality(Facts!NextStage)
  BY <1>3
<1> QED
  BY <1>3, <1>7, <1>10, <1>11, <1>13, <1>14

LEMMA FactsCount == ASSUME NEW S PROVE Facts!Cardinality(S) = Cardinality(S)
  BY DEF Facts!Cardinality, Facts!IsFiniteSet, Cardinality, IsFiniteSet

\* Where two values are counted there is a fact, and more than one.
LEMMA ManyNeedMany ==
  ASSUME NEW n \in Nat, NEW some \in SUBSET (1..n)
  PROVE  /\ Cardinality(Facts!Of(some)) > 1 => some # {}
         /\ Cardinality(Facts!Tokens(some)) > 1 => Cardinality(some) > 1
<1>1. IsFiniteSet(some) /\ Cardinality(some) \in Nat
  <2>1. IsFiniteSet(1..n)
    BY FS_Interval
  <2>2. IsFiniteSet(some)
    BY <2>1, FS_Subset
  <2> QED
    BY <2>2, FS_CardinalityType
<1>2. some = {} => Facts!Of(some) = {} /\ Facts!Tokens(some) = {}
  BY DEF Facts!Of, Facts!Tokens
<1>3. Cardinality({}) = 0
  BY FS_EmptySet
<1>4. ASSUME Cardinality(Facts!Tokens(some)) > 1 PROVE Cardinality(some) > 1
  <2>1. some # {}
    <3> SUFFICES ASSUME some = {} PROVE FALSE
      OBVIOUS
    <3>1. Facts!Tokens(some) = {}
      BY <1>2
    <3>2. Cardinality(Facts!Tokens(some)) = 0
      BY <1>3, <3>1
    <3> QED
      BY <1>4, <3>2
  <2>2. Cardinality(some) # 0
    BY <1>1, <2>1, FS_EmptySet
  <2>3. ASSUME Cardinality(some) = 1 PROVE FALSE
    <3>1. PICK i : some = {i}
      BY <1>1, <2>3, FS_Singleton
    <3>2. Facts!Tokens(some) = {s2[i].value[1]}
      BY <3>1 DEF Facts!Of, Facts!Tokens
    <3>3. Cardinality(Facts!Tokens(some)) = 1
      BY <3>2, FS_Singleton
    <3> QED
      BY <1>4, <3>3
  <2> QED
    BY <1>1, <2>2, <2>3
<1> QED
  BY <1>2, <1>3, <1>4

\* What a stage of facts leaves standing: an amendment that acts leaves only its stage.
LEMMA StandingGrows ==
  ASSUME FactTypes, NEW m \in (s3 + 1)..Len(s2),
         \A i \in (s3 + 1)..m : s2[i].stage = s2[s3 + 1].stage,
         s3' = m, UNCHANGED <<s1, s2>>
  PROVE  LET stage == (s3 + 1)..m IN
         Standing' = (IF \E i \in stage : Facts!Acts(i) THEN {} ELSE Standing)
                     \cup {i \in stage : Asserted(i)}
<1> DEFINE stage == (s3 + 1)..m
<1> DEFINE taken == \E i \in stage : Facts!Acts(i)
<1>1. /\ s2 \in Seq(FactRecords) /\ s3 \in 0..Len(s2) /\ Len(s2) \in Nat
      /\ \A i \in 1..s3, j \in (s3 + 1)..Len(s2) : s2[i].stage < s2[j].stage
  BY DEF FactTypes
<1>2. \A i \in 1..Len(s2) : s2[i].stage \in Nat
  BY <1>1, FactFields
<1>3. /\ 1..m = (1..s3) \cup stage /\ \A i \in stage : i \notin 1..s3
      /\ 1..m \subseteq 1..Len(s2) /\ stage \subseteq (s3 + 1)..Len(s2)
  BY <1>1
<1>4. Standing' = {i \in 1..m : Asserted(i) /\ \A j \in 1..m : ~TakenBy(j, i)}
  BY DEF Standing, Asserted, TakenBy, Facts!Acts
<1>5. \A i \in stage, j \in 1..m : ~TakenBy(j, i)
  <2> SUFFICES ASSUME NEW i \in stage, NEW j \in 1..m PROVE ~(s2[j].stage > s2[i].stage)
    BY DEF TakenBy
  <2>1. s2[j].stage \in Nat /\ s2[i].stage \in Nat
    BY <1>2, <1>3
  <2>2. j \in 1..s3 => s2[j].stage < s2[i].stage
    BY <1>1, <1>3
  <2>3. j \in stage => s2[j].stage = s2[i].stage
    OBVIOUS
  <2> QED
    BY <1>3, <2>1, <2>2, <2>3
<1>6. \A i \in 1..s3, j \in stage : TakenBy(j, i) <=> Facts!Acts(j)
  <2> SUFFICES ASSUME NEW i \in 1..s3, NEW j \in stage PROVE s2[j].stage > s2[i].stage
    BY DEF TakenBy
  <2>1. s2[j].stage \in Nat /\ s2[i].stage \in Nat
    BY <1>2, <1>3
  <2>2. s2[i].stage < s2[j].stage
    BY <1>1, <1>3
  <2> QED
    BY <2>1, <2>2
<1> HIDE DEF stage
<1>7. \A i \in Standing' : i \in stage \/ (~taken /\ i \in Standing)
  BY <1>3, <1>4, <1>6 DEF Standing
<1>8. \A i \in stage : Asserted(i) <=> i \in Standing'
  BY <1>3, <1>4, <1>5
<1>9. ~taken => \A i \in Standing : i \in Standing'
  BY <1>3, <1>4, <1>6 DEF Standing
<1>10. Standing' = (IF taken THEN {} ELSE Standing) \cup {i \in stage : Asserted(i)}
  <2> HIDE DEF taken
  <2> QED
    BY <1>7, <1>8, <1>9
<1> QED
  BY <1>10 DEF stage

\* One stage, on the facts as they were sorted.
LEMMA FactsStage ==
  ASSUME FactsInv, Facts!ReconcileStage
  PROVE  FactsInv'
<1> DEFINE stage == Facts!NextStage
<1> DEFINE replaces == \E i \in stage : Facts!Mutates(i)
<1> DEFINE candidates == Facts!Candidates(stage)
<1> DEFINE conflicted == Facts!ConflictAtStage(candidates)
<1>1. /\ s3 < Len(s2) /\ s3' = s3 + Facts!Cardinality(stage)
      /\ s5' = (IF replaces THEN {} ELSE s5) \cup candidates
      /\ s6' = IF conflicted THEN candidates ELSE IF replaces THEN {} ELSE s6
      /\ s4' = [i \in DOMAIN s2 |->
           CASE i \in candidates -> IF conflicted THEN "conflicted" ELSE "active"
             [] i \in stage \ candidates -> "superseded"
             [] replaces /\ i \in s5 -> "superseded"
             [] OTHER -> s4[i]]
      /\ UNCHANGED <<s1, s2, s7>>
  BY DEF Facts!ReconcileStage, Facts!Index
<1>2. /\ FactTypes /\ s7 = <<>> /\ StagesTaken
      /\ s2 \in Seq(FactRecords) /\ s3 \in 0..Len(s2) /\ Len(s2) \in Nat /\ DOMAIN s2 = 1..Len(s2)
      /\ s4 \in [1..Len(s2) -> FactStates]
  <2>1. FactTypes /\ s2 \in Seq(FactRecords) /\ s3 \in 0..Len(s2)
        /\ s4 \in [1..Len(s2) -> FactStates]
    BY DEF FactsInv, FactTypes
  <2>2. s7 = <<>>
    BY <1>1, <2>1 DEF FactsInv
  <2> QED
    BY <2>1, <2>2 DEF FactsInv
<1>3. PICK m \in (s3 + 1)..Len(s2) :
        /\ stage = (s3 + 1)..m /\ m = s3 + Cardinality(stage)
        /\ \A i \in (s3 + 1)..m : s2[i].stage = s2[s3 + 1].stage
        /\ \A i \in 1..m, j \in (m + 1)..Len(s2) : s2[i].stage < s2[j].stage
  BY <1>1, <1>2, StageEnds
<1>4. s3' = m
  BY <1>1, <1>3, FactsCount
<1>5. stage \subseteq 1..Len(s2) /\ \A i \in stage : i \notin 1..s3
  BY <1>2, <1>3
<1>6. /\ replaces <=> \E i \in stage : Facts!Acts(i)
      /\ candidates = {i \in stage : Asserted(i)}
  BY <1>2, <1>5, WordsOfSource DEF Facts!Candidates
<1>7. candidates \subseteq stage
  BY <1>6
<1>8. conflicted => candidates # {}
  <2>1. candidates \in SUBSET (1..Len(s2))
    BY <1>5, <1>7
  <2>2. conflicted => Cardinality(Facts!Of(candidates)) > 1
    BY FactsCount DEF Facts!ConflictAtStage
  <2> QED
    BY <1>2, <2>1, <2>2, ManyNeedMany
<1> HIDE DEF stage, replaces, candidates, conflicted
<1>9. FactTypes'
  <2>1. s4' \in [1..Len(s2) -> FactStates]
    <3>1. \A i \in 1..Len(s2) : s4[i] \in FactStates
      BY <1>2
    <3>2. /\ "conflicted" \in FactStates /\ "active" \in FactStates /\ "superseded" \in FactStates
      BY DEF FactStates
    <3> QED
      BY <1>1, <1>2, <3>1, <3>2
  <2>2. m \in 0..Len(s2)
    BY <1>2
  <2>3. \A i, j \in 1..Len(s2) : i < j => s2[i].stage <= s2[j].stage
    BY <1>2 DEF FactTypes
  <2> QED
    BY <1>1, <1>2, <1>3, <1>4, <2>1, <2>2, <2>3 DEF FactTypes
<1>10. Standing' = (IF replaces THEN {} ELSE Standing) \cup candidates
  <2>1. LET now == (s3 + 1)..m IN
        Standing' = (IF \E i \in now : Facts!Acts(i) THEN {} ELSE Standing)
                    \cup {i \in now : Asserted(i)}
    BY <1>1, <1>2, <1>3, <1>4, StandingGrows
  <2> QED
    BY <1>3, <1>6, <2>1
<1>11. /\ s5 = Standing /\ s6 \subseteq s5
       /\ \A i \in 1..Len(s2) : i \in s5 <=> s4[i] \in {"active", "conflicted"}
       /\ \A i \in s6 : s4[i] = "conflicted"
       /\ (\E i \in 1..Len(s2) : s4[i] = "conflicted") => s6 # {}
  BY <1>2 DEF StagesTaken
<1>12. \A i \in s5 : i \notin stage /\ i \in 1..Len(s2)
  BY <1>2, <1>5, <1>11 DEF Standing
<1>13. \A i \in 1..Len(s2) :
         s4'[i] = CASE i \in candidates -> IF conflicted THEN "conflicted" ELSE "active"
                    [] i \in stage \ candidates -> "superseded"
                    [] replaces /\ i \in s5 -> "superseded"
                    [] OTHER -> s4[i]
  BY <1>1, <1>2
<1>a. \A i \in candidates :
        /\ conflicted => s4'[i] = "conflicted"
        /\ ~conflicted => s4'[i] = "active"
  <2> SUFFICES ASSUME NEW i \in candidates
               PROVE  /\ conflicted => s4'[i] = "conflicted"
                      /\ ~conflicted => s4'[i] = "active"
    OBVIOUS
  <2>0. i \in 1..Len(s2)
    BY <1>5, <1>7
  <2>a. s4'[i] =
          CASE i \in candidates -> IF conflicted THEN "conflicted" ELSE "active"
            [] i \in stage \ candidates -> "superseded"
            [] replaces /\ i \in s5 -> "superseded"
            [] OTHER -> s4[i]
    BY <1>13, <2>0
  <2>b. ~(i \in stage \ candidates) /\ ~(replaces /\ i \in s5)
    BY <1>7, <1>12
  <2>1. s4'[i] = IF conflicted THEN "conflicted" ELSE "active"
    BY <2>a, <2>b, Zenon
  <2>2. CASE conflicted
    BY <2>1, <2>2
  <2>3. CASE ~conflicted
    BY <2>1, <2>3
  <2> QED
    BY <2>2, <2>3
<1>14. StagesTaken'
  <2>1. s5' = Standing' /\ s6' \subseteq s5'
    BY <1>1, <1>10, <1>11
  <2>2. ASSUME NEW i \in 1..Len(s2) PROVE i \in s5' <=> s4'[i] \in {"active", "conflicted"}
    <3>1. CASE i \in candidates
      <4>1. s4'[i] = "conflicted" \/ s4'[i] = "active"
        BY <1>a, <3>1
      <4> QED
        BY <1>1, <3>1, <4>1
    <3>2. CASE i \in stage \ candidates
      BY <1>1, <1>12, <1>13, <3>2
    <3>3. CASE i \notin stage
      BY <1>1, <1>7, <1>11, <1>13, <3>3
    <3> QED
      BY <3>1, <3>2, <3>3
  <2>3. ASSUME NEW i \in s6' PROVE s4'[i] = "conflicted"
    <3>1. CASE conflicted
      BY <1>1, <1>a, <2>3, <3>1
    <3>2. CASE ~conflicted
      <4>1. ~replaces /\ i \in s6
        BY <1>1, <2>3, <3>2
      <4>2. i \in 1..Len(s2) /\ i \notin stage /\ s4[i] = "conflicted"
        BY <1>11, <1>12, <4>1
      <4> QED
        BY <1>7, <1>13, <4>1, <4>2
    <3> QED
      BY <3>1, <3>2
  <2>4. ASSUME NEW i \in 1..Len(s2), s4'[i] = "conflicted" PROVE s6' # {}
    <3>1. CASE conflicted
      BY <1>1, <1>8, <3>1
    <3>2. CASE ~conflicted
      <4>1. i \notin candidates
        BY <1>13, <2>4, <3>2
      <4>2. ~(i \in stage \ candidates) /\ ~(replaces /\ i \in s5)
        BY <1>13, <2>4, <4>1
      <4>3. s4[i] = "conflicted"
        BY <1>13, <2>4, <4>1, <4>2
      <4>4. ~replaces /\ s6 # {}
        BY <1>11, <4>2, <4>3
      <4> QED
        BY <1>1, <3>2, <4>4
    <3> QED
      BY <3>1, <3>2
  <2> QED
    BY <1>1, <2>1, <2>2, <2>3, <2>4 DEF StagesTaken
<1> QED
  BY <1>1, <1>2, <1>9, <1>14 DEF FactsInv, Facts!FactsAreReconciled

\* The end: all facts are taken, and what stands is what the package says.
LEMMA FactsEnd ==
  ASSUME FactsInv, Facts!EndGroup
  PROVE  FactsInv'
<1> DEFINE differ == s6 = {} /\ (\/ Facts!ScalarValuesConflict(s5)
                                \/ Facts!CategoricalValuesConflict(s5))
<1>1. /\ s2 # <<>> /\ s3 = Len(s2) /\ s7 = <<>>
      /\ s7' = <<IF differ THEN s5 ELSE s6>>
      /\ s4' = IF differ THEN [i \in DOMAIN s2 |-> IF i \in s5 THEN "conflicted" ELSE s4[i]] ELSE s4
      /\ UNCHANGED <<s1, s2, s3, s5, s6>>
  BY DEF Facts!EndGroup, Facts!Index
<1>2. /\ FactTypes /\ StagesTaken
      /\ s2 \in Seq(FactRecords) /\ Len(s2) \in Nat /\ DOMAIN s2 = 1..Len(s2)
      /\ s4 \in [1..Len(s2) -> FactStates]
  BY <1>1 DEF FactsInv, FactTypes
<1>3. /\ s5 = Standing /\ s6 \subseteq s5
      /\ \A i \in 1..Len(s2) : i \in s5 <=> s4[i] \in {"active", "conflicted"}
      /\ \A i \in s6 : s4[i] = "conflicted"
      /\ (\E i \in 1..Len(s2) : s4[i] = "conflicted") => s6 # {}
  BY <1>2 DEF StagesTaken
<1>4. s5 \in SUBSET (1..Len(s2))
  BY <1>1, <1>3 DEF Standing
<1>5. \A i \in 1..Len(s2) : Facts!Holds(i) <=> i \in s5
  BY <1>1, <1>2, <1>3 DEF Standing, Asserted, TakenBy, Facts!Holds, Facts!TakenAway, Facts!Index
<1>6. differ => s5 # {}
  <2>1. Facts!ScalarValuesConflict(s5) => Cardinality(s5) > 1
    BY FactsCount DEF Facts!ScalarValuesConflict, Facts!SharedIdentity
  <2>2. Facts!CategoricalValuesConflict(s5) => Cardinality(Facts!Of(s5)) > 1
    BY FactsCount DEF Facts!CategoricalValuesConflict
  <2>3. ~(Cardinality({}) > 1)
    BY FS_EmptySet
  <2> QED
    BY <1>2, <1>4, <2>1, <2>2, <2>3, ManyNeedMany
<1>7. s1 # "topic" /\ 0 \notin Facts!Tokens(s5) /\ Cardinality(Facts!Tokens(s5)) > 1 /\ ~differ
      => s6 # {}
  <2>1. Cardinality(Facts!Tokens(s5)) > 1 => Cardinality(s5) > 1
    BY <1>2, <1>4, ManyNeedMany
  <2> QED
    BY <2>1, FactsCount DEF Facts!ScalarValuesConflict, Facts!SharedIdentity
<1> HIDE DEF differ
<1>8. s4' \in [1..Len(s2) -> FactStates]
  <2>1. "conflicted" \in FactStates /\ \A i \in 1..Len(s2) : s4[i] \in FactStates
    BY <1>2 DEF FactStates
  <2>2. CASE differ
    BY <1>1, <1>2, <2>1, <2>2
  <2>3. CASE ~differ
    BY <1>1, <1>2, <2>3
  <2> QED
    BY <2>2, <2>3
<1>9. FactTypes'
  BY <1>1, <1>2, <1>8 DEF FactTypes
<1>10. s7' # <<>> /\ s7'[1] = IF differ THEN s5 ELSE s6
  BY <1>1
<1>11. \A i \in 1..Len(s2) : s4'[i] = IF differ /\ i \in s5 THEN "conflicted" ELSE s4[i]
  <2>1. CASE differ
    BY <1>1, <1>2, <2>1
  <2>2. CASE ~differ
    BY <1>1, <2>2
  <2> QED
    BY <2>1, <2>2
<1>12. \A i \in 1..Len(s2) : Facts!Holds(i)' <=> Facts!Holds(i)
  BY <1>1 DEF Facts!Holds, Facts!TakenAway, Facts!Acts, Facts!Index
<1>13. \A i \in 1..Len(s2) : i \in s5 <=> s4'[i] \in {"active", "conflicted"}
  BY <1>3, <1>11
<1>14. s7'[1] # {} <=> \E i \in 1..Len(s2) : s4'[i] = "conflicted"
  <2>1. CASE differ
    <3>1. PICK i : i \in s5
      BY <1>6, <2>1
    <3>2. i \in 1..Len(s2) /\ s4'[i] = "conflicted"
      BY <1>4, <1>11, <2>1, <3>1
    <3> QED
      BY <1>10, <2>1, <3>1, <3>2
  <2>2. CASE ~differ
    <3>1. s7'[1] = s6 /\ \A i \in 1..Len(s2) : s4'[i] = s4[i]
      BY <1>10, <1>11, <2>2
    <3>2. \A i \in s6 : i \in 1..Len(s2) /\ s4[i] = "conflicted"
      BY <1>3, <1>4
    <3> QED
      BY <1>3, <3>1, <3>2
  <2> QED
    BY <2>1, <2>2
<1>15. LET standing == {i \in 1..Len(s2) : Facts!Holds(i)} IN
       s1 # "topic" /\ 0 \notin Facts!Tokens(standing) /\ Cardinality(Facts!Tokens(standing)) > 1
       => s7'[1] # {}
  <2>1. {i \in 1..Len(s2) : Facts!Holds(i)} = s5
    BY <1>4, <1>5
  <2> QED
    BY <1>6, <1>7, <1>10, <2>1
<1>16. \A i \in s7'[1] : i \in 1..Len(s2) /\ Facts!Holds(i)
  BY <1>3, <1>4, <1>5, <1>10
<1>17. Facts!FactsAreReconciled'
  <2>1. DOMAIN s2' = 1..Len(s2) /\ s1' = s1 /\ s2' = s2
    BY <1>1, <1>2
  <2>2. \A i \in 1..Len(s2) : Facts!Holds(i)' <=> s4'[i] \in {"active", "conflicted"}
    BY <1>5, <1>12, <1>13
  <2>3. \A i \in s7'[1] : Facts!Holds(i)'
    BY <1>12, <1>16
  <2>4. {i \in 1..Len(s2) : Facts!Holds(i)'} = {i \in 1..Len(s2) : Facts!Holds(i)}
    BY <1>12
  <2>5. /\ \A i \in DOMAIN s2' : Facts!Holds(i)' <=> s4'[i] \in {"active", "conflicted"}
        /\ s7'[1] # {} <=> \E i \in DOMAIN s2' : s4'[i] = "conflicted"
    BY <1>14, <2>1, <2>2
  <2>6. LET standing == {i \in DOMAIN s2' : Facts!Holds(i)'}
            tokens == {v[1] : v \in {s2'[i].value : i \in standing}} IN
        s1' # "topic" /\ 0 \notin tokens /\ Facts!Cardinality(tokens) > 1 => s7'[1] # {}
    <3>1. {i \in DOMAIN s2' : Facts!Holds(i)'} = {i \in 1..Len(s2) : Facts!Holds(i)}
      BY <2>1, <2>4
    <3>2. \A some : Facts!Tokens(some) = {v[1] : v \in {s2'[i].value : i \in some}}
      BY <2>1 DEF Facts!Tokens, Facts!Of
    <3> QED
      BY <1>15, <2>1, <3>1, <3>2, FactsCount
  <2> QED
    BY <2>3, <2>5, <2>6
    DEF Facts!FactsAreReconciled, Facts!Index, Facts!Tokens, Facts!Of
<1> QED
  BY <1>1, <1>9, <1>10, <1>17 DEF FactsInv

LEMMA FactsStep ==
  ASSUME FactsInv, Facts!Next \/ UNCHANGED <<s1, s2, s3, s4, s5, s6, s7>>
  PROVE  FactsInv'
<1>1. CASE Facts!State
  BY <1>1, FactsState
<1>2. CASE Facts!ReconcileStage
  BY <1>2, FactsStage
<1>3. CASE Facts!EndGroup
  BY <1>3, FactsEnd
<1>4. CASE UNCHANGED <<s1, s2, s3, s4, s5, s6, s7>>
  BY <1>4 DEF FactsInv, FactTypes, StagesTaken, Standing, Asserted, TakenBy, Facts!Acts,
    Facts!FactsAreReconciled, Facts!Holds, Facts!TakenAway, Facts!Tokens, Facts!Of, Facts!Index
<1> QED
  BY <1>1, <1>2, <1>3, <1>4 DEF Facts!Next

-----------------------------------------------------------------------------
(*****************************************************************************)
(* The page (Workspace): a run that is shown is clean, the request in hand   *)
(* is one that made it, and a key stands for one pack.                       *)
(*****************************************************************************)

Views ==
  [phase : {"idle", "starting", "polling", "result", "error"}, run : Page!RunIds \cup {Page!None},
   result : Page!RunIds \cup {Page!None, Page!Sample}, mode : {"url", "upload"},
   drafts : Nat, valid : BOOLEAN, retryable : BOOLEAN]

CallSteps == {"none", "upload", "create", "sent", "answered", "get", "over"}
Packs == {"none", "upload", "url"} \X Nat

PageCalls ==
  [kind : {"none", "start", "sample"}, step : CallSteps, key : Page!Calls \cup {Page!None},
   documents : Packs, answer : Page!RunIds \cup {Page!None, Page!Refused}]

WatchedRuns == [status : {"none", "working", "ready", "over"}, clean : BOOLEAN, documents : Packs]

CallTypes ==
  /\ s6 \in [Page!Calls -> PageCalls]
  /\ \A n \in s9 : s6[n].key # Page!None
  /\ \A n \in Page!Calls :
       /\ s6[n].kind = "none" => s6[n].step = "none" /\ s6[n].key = Page!None
       /\ s6[n].step = "answered" => s6[n].answer # Page!None

PageTypes ==
  /\ s1 \in Views /\ s2 \in Page!Calls \cup {Page!None} /\ s3 \in {"analysis", "sample"}
  /\ s4 \in Page!Calls \cup {Page!None} /\ s5 \in SUBSET Page!Calls
  /\ s7 \in [run : Page!RunIds \cup {Page!None}, step : {"off", "status", "analysis", "wait"}]
  /\ s7.step # "off" => s7.run # Page!None
  /\ s8 \in Page!RunIds \cup {Page!None}
  /\ s9 \in SUBSET Page!Calls
  /\ s10 \in [Page!RunIds -> WatchedRuns]
  /\ CallTypes

\* What is fetched or shown is of a run that is clean.
ShownIsClean ==
  /\ s1.result \in Page!RunIds => s10[s1.result].clean
  /\ s1.phase = "result" => s1.result # Page!None
  /\ s7.step = "analysis" => s10[s7.run].clean
  /\ \A r \in Page!RunIds : s10[r].clean => s10[r].status # "none"

\* The request of a page that polls, or would go back to it, is one that made a run.
RequestStands == s4 \notin s5 /\ (s4 # Page!None => s6[s4].kind = "start")

RequestInHand ==
  /\ s1.phase = "polling" => s1.run # Page!None
  /\ s1.phase = "polling" \/ (s3 = "analysis" /\ s1.run # Page!None) => RequestStands
  /\ s1.phase = "idle" => s1.run = Page!None
  /\ \A n \in Page!Calls : n \notin s5 /\ s6[n].step \notin {"none", "over"} => n = s4

\* A key is used from the first POST on, for the pack as it was when it was made.
Unposted == {"none", "upload", "create"}

KeyedIsOnePack ==
  /\ s2 # Page!None => s6[s2].step \notin Unposted /\ s1.phase # "idle" /\ s1.valid
  /\ \A n \in Page!Calls :
       n \notin s5 /\ s6[n].step \in {"upload", "create"} => s1.phase # "idle" /\ s1.valid
  /\ \A n \in Page!Calls : s6[n].key # Page!None => s6[s6[n].key].step \notin Unposted
  /\ \A n \in Page!Calls : Page!OfLinks(n) => s6[n].key # Page!None
  /\ \A n \in Page!Calls :
       s6[n].key = s2 /\ Page!OfLinks(n) => s6[n].documents = <<"url", s1.drafts>>
  /\ \A m, n \in Page!Calls :
       s6[m].key = s6[n].key /\ Page!OfLinks(m) /\ Page!OfLinks(n) =>
         s6[m].documents = s6[n].documents

PageInv == PageTypes /\ ShownIsClean /\ RequestInHand /\ KeyedIsOnePack

LEMMA PageNumbers ==
  /\ Page!Calls \subseteq Page!RunIds /\ Page!Linked \in Page!RunIds
  /\ Page!None \notin Page!RunIds /\ Page!Refused \notin Page!RunIds /\ Page!Refused # Page!None
  /\ Page!Sample \notin Page!RunIds /\ Page!Sample # Page!None
BY VerdictsAssumption DEF VerdictsAssumption, Page!WorkspaceAssumption, Page!Calls,
    Page!RunIds, Page!None,
  Page!Refused, Page!Sample, Page!Linked

LEMMA PageInit == ASSUME Page!Init PROVE PageInv
<1>1. /\ s2 = Page!None /\ s3 = "analysis" /\ s6 = [n \in Page!Calls |-> Page!NoCall]
      /\ s4 = Page!None /\ s5 = {} /\ s7 = Page!Off /\ s8 = Page!None /\ s9 = {}
      /\ s10 = [r \in Page!RunIds |->
                 IF r = Page!Linked THEN [Page!NoRun EXCEPT !.status = "working"]
                                      ELSE Page!NoRun]
  BY DEF Page!Init
<1>2. /\ s1 \in Views /\ s1.result = Page!None /\ s1.phase # "result"
      /\ s1.phase = "polling" => s1.run # Page!None
      /\ s1.phase = "idle" => s1.run = Page!None
  BY PageNumbers DEF Page!Init, Views
<1>3. Page!NoCall \in PageCalls /\ Page!NoCall.step = "none" /\ Page!NoCall.key = Page!None
      /\ Page!NoCall.documents[1] = "none" /\ Page!NoCall.kind = "none"
  BY DEF PageCalls, Page!NoCall, CallSteps, Packs, Page!NoDocuments
<1>4. Page!NoRun \in WatchedRuns /\ ~Page!NoRun.clean
      /\ [Page!NoRun EXCEPT !.status = "working"] \in WatchedRuns
      /\ ~[Page!NoRun EXCEPT !.status = "working"].clean
  BY DEF Page!NoRun, WatchedRuns, Packs, Page!NoDocuments
<1>5. CallTypes
  BY <1>1, <1>3 DEF CallTypes
<1>6. PageTypes
  BY <1>1, <1>2, <1>4, <1>5 DEF PageTypes, Page!Off
<1>7. ShownIsClean
  BY <1>1, <1>2, <1>4, PageNumbers DEF ShownIsClean, Page!Off
<1>8. RequestInHand /\ KeyedIsOnePack
  BY <1>1, <1>2, <1>3, PageNumbers DEF RequestInHand, RequestStands, KeyedIsOnePack, Page!OfLinks
<1> QED
  BY <1>6, <1>7, <1>8 DEF PageInv

\* The watching of a run changes the view and the effect only.
LEMMA WatchingMoves ==
  ASSUME PageInv, UNCHANGED <<s2, s3, s4, s5, s6, s8, s9, s10>>,
         s1' \in Views,
         s7' \in [run : Page!RunIds \cup {Page!None}, step : {"off", "status", "analysis", "wait"}],
         s7'.step # "off" => s7'.run # Page!None,
         s7'.step = "analysis" => s10[s7'.run].clean,
         s1'.drafts = s1.drafts, s1'.valid = s1.valid,
         s1'.run \in {s1.run, Page!None},
         (s1'.phase = s1.phase /\ s1'.run = s1.run) \/ s1'.phase \in {"error", "result"},
         s1'.result # s1.result => s1'.result \in Page!RunIds /\ s10[s1'.result].clean,
         s1'.phase = "result" => s1'.result # Page!None
  PROVE  PageInv'
<1>1. PageTypes'
  BY DEF PageInv, PageTypes, CallTypes
<1>2. ShownIsClean'
  BY DEF PageInv, ShownIsClean
<1>3. RequestInHand'
  BY DEF PageInv, RequestInHand, RequestStands
<1>4. KeyedIsOnePack'
  BY DEF PageInv, KeyedIsOnePack, Page!OfLinks
<1> QED
  BY <1>1, <1>2, <1>3, <1>4 DEF PageInv

LEMMA ViewErrors ==
  ASSUME s1 \in Views, NEW again \in BOOLEAN, Page!ShowError(again)
  PROVE  /\ s1' \in Views /\ s1'.phase = "error" /\ s1'.run = s1.run /\ s1'.result = s1.result
         /\ s1'.drafts = s1.drafts /\ s1'.valid = s1.valid
BY DEF Views, Page!ShowError

EffectTypes == [run : Page!RunIds \cup {Page!None}, step : {"off", "status", "analysis", "wait"}]

LEMMA EffectPolls ==
  ASSUME s7 \in EffectTypes, NEW step \in {"off", "status", "analysis", "wait"}, Page!Polls(step)
  PROVE  s7' \in EffectTypes /\ s7'.run = s7.run /\ s7'.step = step
BY DEF EffectTypes, Page!Polls

LEMMA PageWatching ==
  ASSUME PageInv, Page!Watching
  PROVE  PageInv'
<1>0. s1 \in Views /\ s7 \in EffectTypes /\ (s7.step # "off" => s7.run # Page!None)
  BY DEF PageInv, PageTypes, EffectTypes
<1>1. CASE Page!RunEffect
  <2>1. s7' \in EffectTypes /\ (s7'.step # "off" => s7'.run # Page!None) /\ s7'.step # "analysis"
        /\ UNCHANGED <<s1, s2, s3, s4, s5, s6, s8, s9, s10>>
    BY <1>0, <1>1 DEF Page!RunEffect, Page!Watched, Page!Off, EffectTypes, Page!page,
        Page!network, Views
  <2> QED
    BY <1>0, <2>1, WatchingMoves DEF EffectTypes, PageInv, ShownIsClean
<1>2. CASE Page!PollStatus
  <2>1. UNCHANGED <<s2, s3, s4, s5, s6, s8, s9, s10>> /\ s7.step = "status"
    BY <1>2 DEF Page!PollStatus, Page!network
  <2>2. CASE Page!Releasable(s7.run) /\ Page!Polls("analysis") /\ UNCHANGED s1
    BY <1>0, <2>1, <2>2, EffectPolls, WatchingMoves DEF Page!Releasable, EffectTypes, PageInv,
        ShownIsClean
  <2>3. CASE Page!Polls("off") /\ Page!ShowError(TRUE)
    BY <1>0, <2>1, <2>3, EffectPolls, ViewErrors, WatchingMoves DEF EffectTypes, PageInv,
        ShownIsClean
  <2>4. CASE Page!Polls("off") /\ \E again \in BOOLEAN :
               s1' = [s1 EXCEPT !.run = Page!None, !.phase = "error", !.retryable = again]
    <3>1. /\ s1' \in Views /\ s1'.phase = "error" /\ s1'.run = Page!None /\ s1'.result = s1.result
          /\ s1'.drafts = s1.drafts /\ s1'.valid = s1.valid
      BY <1>0, <2>4 DEF Views
    <3> QED
      BY <1>0, <2>1, <2>4, <3>1, EffectPolls, WatchingMoves DEF EffectTypes, PageInv, ShownIsClean
  <2>5. CASE Page!Polls("wait") /\ UNCHANGED s1
    BY <1>0, <2>1, <2>5, EffectPolls, WatchingMoves DEF EffectTypes, PageInv, ShownIsClean
  <2> QED
    BY <1>2, <2>2, <2>3, <2>4, <2>5 DEF Page!PollStatus, Page!NextPoll
<1>3. CASE Page!PollAnalysis
  <2>1. UNCHANGED <<s2, s3, s4, s5, s6, s8, s9, s10>> /\ s7.step = "analysis"
    BY <1>3 DEF Page!PollAnalysis, Page!network
  <2>2. s7.run \in Page!RunIds /\ s10[s7.run].clean
    BY <1>0, <2>1 DEF EffectTypes, PageInv, ShownIsClean
  <2>3. CASE Page!Polls("off") /\ s1' = [s1 EXCEPT !.result = s7.run, !.phase = "result"]
    <3>1. /\ s1' \in Views /\ s1'.phase = "result" /\ s1'.run = s1.run /\ s1'.result = s7.run
          /\ s1'.drafts = s1.drafts /\ s1'.valid = s1.valid
      BY <1>0, <2>2, <2>3 DEF Views
    <3> QED
      BY <1>0, <2>1, <2>2, <2>3, <3>1, EffectPolls, WatchingMoves DEF EffectTypes, PageInv,
          ShownIsClean
  <2>4. CASE Page!Polls("wait") /\ UNCHANGED s1
    BY <1>0, <2>1, <2>4, EffectPolls, WatchingMoves DEF EffectTypes, PageInv, ShownIsClean
  <2>5. CASE Page!Polls("off") /\ Page!ShowError(TRUE)
    BY <1>0, <2>1, <2>5, EffectPolls, ViewErrors, WatchingMoves DEF EffectTypes, PageInv,
        ShownIsClean
  <2> QED
    BY <1>3, <2>3, <2>4, <2>5 DEF Page!PollAnalysis, Page!NextPoll
<1>4. CASE Page!PollTimer
  <2>1. UNCHANGED <<s1, s2, s3, s4, s5, s6, s8, s9, s10>>
        /\ s7.step = "wait" /\ Page!Polls("status")
    BY <1>4 DEF Page!PollTimer, Page!page, Page!network
  <2> QED
    BY <1>0, <2>1, EffectPolls, WatchingMoves DEF EffectTypes, PageInv, ShownIsClean
<1> QED
  BY <1>1, <1>2, <1>3, <1>4 DEF Page!Watching
LEMMA PageEdit ==
  ASSUME PageInv, Page!Edit
  PROVE  PageInv'
<1>1. UNCHANGED <<s2, s3, s4, s5, s6, s7, s8, s9, s10>> /\ s1.phase = "idle"
  BY DEF Page!Edit, Page!network
<1>2. /\ s1' \in Views /\ s1'.phase = "idle" /\ s1'.run = s1.run /\ s1'.result = s1.result
  <2>1. PICK mode \in {"url", "upload"}, valid \in BOOLEAN :
          s1' = [s1 EXCEPT !.drafts = @ + 1, !.mode = mode, !.valid = valid]
    BY DEF Page!Edit
  <2>2. s1 \in Views /\ s1.drafts + 1 \in Nat
    BY DEF PageInv, PageTypes, Views
  <2> QED
    BY <1>1, <2>1, <2>2 DEF Views
<1>3. s2 = Page!None
  BY <1>1 DEF PageInv, KeyedIsOnePack
<1>4. PageTypes'
  BY <1>1, <1>2 DEF PageInv, PageTypes, CallTypes
<1>5. ShownIsClean' /\ RequestInHand'
  BY <1>1, <1>2 DEF PageInv, ShownIsClean, RequestInHand, RequestStands
<1>6. KeyedIsOnePack'
  BY <1>1, <1>2, <1>3 DEF PageInv, KeyedIsOnePack, Page!OfLinks
<1> QED
  BY <1>4, <1>5, <1>6 DEF PageInv

LEMMA AbortTypes ==
  ASSUME PageTypes, Page!Aborting
  PROVE  s5' \in SUBSET Page!Calls /\ s5 \subseteq s5' /\ (s4 # Page!None => s4 \in s5')
BY DEF PageTypes, Page!Aborting

LEMMA ViewCleared ==
  ASSUME s1 \in Views
  PROVE  /\ Page!Cleared \in Views /\ Page!Cleared.phase = "idle" /\ Page!Cleared.run = Page!None
         /\ Page!Cleared.result = Page!None
         /\ Page!Cleared.drafts = s1.drafts /\ Page!Cleared.valid = s1.valid
         /\ Page!Cleared.mode = s1.mode
BY DEF Views, Page!Cleared

\* The user leaves what the page was doing.
LEMMA PageLeft ==
  ASSUME PageInv, Page!Aborting, s2' = Page!None, UNCHANGED <<s3, s4, s6, s7, s9>>,
         s1' \in Views, s1'.phase = "idle", s1'.run = Page!None, s1'.result = Page!None,
         s8' \in Page!RunIds \cup {Page!None}, s10' \in [Page!RunIds -> WatchedRuns],
         \A r \in Page!RunIds : /\ s10'[r].clean = s10[r].clean
                                /\ s10[r].status # "none" => s10'[r].status # "none"
  PROVE  PageInv'
<1>1. PageTypes'
  BY AbortTypes DEF PageInv, PageTypes, CallTypes
<1>2. ShownIsClean'
  BY PageNumbers DEF PageInv, PageTypes, ShownIsClean
<1>3. \A n \in Page!Calls : n \notin s5' => s6[n].step \in {"none", "over"}
  BY AbortTypes, PageNumbers DEF PageInv, RequestInHand
<1>4. RequestInHand'
  BY <1>3 DEF PageInv, RequestInHand
<1>5. KeyedIsOnePack'
  BY <1>3 DEF PageInv, KeyedIsOnePack, Page!OfLinks
<1> QED
  BY <1>1, <1>2, <1>4, <1>5 DEF PageInv

LEMMA PageReset ==
  ASSUME PageInv, Page!ResetToInputs \/ Page!StageCanadaBuysUrl
  PROVE  PageInv'
<1>1. Page!Aborting /\ s2' = Page!None /\ UNCHANGED <<s3, s4, s6, s7, s8, s9, s10>>
  BY DEF Page!ResetToInputs, Page!StageCanadaBuysUrl, Page!network
<1>2. s1' \in Views /\ s1'.phase = "idle" /\ s1'.run = Page!None /\ s1'.result = Page!None
  <2>1. s1 \in Views /\ s1.drafts + 1 \in Nat
    BY DEF PageInv, PageTypes, Views
  <2>2. CASE Page!ResetToInputs
    BY <2>1, <2>2, ViewCleared DEF Page!ResetToInputs
  <2>3. CASE Page!StageCanadaBuysUrl
    <3>1. PICK valid \in BOOLEAN :
            s1' = [Page!Cleared EXCEPT !.mode = "url", !.drafts = @ + 1, !.valid = valid]
      BY <2>3 DEF Page!StageCanadaBuysUrl
    <3> QED
      BY <2>1, <3>1, ViewCleared DEF Views
  <2> QED
    BY <2>2, <2>3
<1> QED
  BY <1>1, <1>2, PageLeft DEF PageInv, PageTypes

LEMMA PageDeletes ==
  ASSUME PageInv, Page!DeleteResult \/ Page!HearDeleted
  PROVE  PageInv'
<1>1. CASE UNCHANGED <<s1, s2, s3, s4, s5, s6, s7, s9, s10>> /\ s8' \in Page!RunIds \cup {Page!None}
  <2>1. PageTypes'
    BY <1>1 DEF PageInv, PageTypes, CallTypes
  <2> QED
    BY <1>1, <2>1 DEF PageInv, ShownIsClean, RequestInHand, RequestStands, KeyedIsOnePack,
        Page!OfLinks
<1>2. CASE Page!HearDeleted /\ s10' = [s10 EXCEPT ![s8].status = "over"]
  <2>1. /\ s8 \in Page!RunIds /\ s10 \in [Page!RunIds -> WatchedRuns] /\ s1 \in Views
    BY <1>2 DEF PageInv, PageTypes, Page!HearDeleted
  <2>2. s10' = [s10 EXCEPT ![s8] = [s10[s8] EXCEPT !.status = "over"]]
    BY <1>2, <2>1
  <2>3. [s10[s8] EXCEPT !.status = "over"] \in WatchedRuns
        /\ [s10[s8] EXCEPT !.status = "over"].clean = s10[s8].clean
        /\ [s10[s8] EXCEPT !.status = "over"].status = "over"
    BY <2>1 DEF WatchedRuns
  <2>4. /\ s10' \in [Page!RunIds -> WatchedRuns]
        /\ \A r \in Page!RunIds : /\ s10'[r].clean = s10[r].clean
                                  /\ s10[r].status # "none" => s10'[r].status # "none"
    BY <2>1, <2>2, <2>3
  <2>5. \/ Page!Aborting /\ s1' = Page!Cleared /\ s2' = Page!None
        \/ UNCHANGED <<s1, s2, s5, s10>>
    BY <1>2 DEF Page!HearDeleted
  <2>6. UNCHANGED <<s3, s4, s6, s7, s9>> /\ s8' = Page!None
    BY <1>2 DEF Page!HearDeleted
  <2>7. CASE Page!Aborting /\ s1' = Page!Cleared /\ s2' = Page!None
    BY <2>1, <2>4, <2>6, <2>7, ViewCleared, PageLeft
  <2> QED
    BY <1>1, <2>5, <2>6, <2>7
<1>3. Page!DeleteResult => UNCHANGED <<s1, s2, s3, s4, s5, s6, s7, s9, s10>>
                            /\ s8' = s1.run /\ s1.run \in Page!RunIds
  BY DEF Page!DeleteResult, Page!page, Page!network, PageInv, PageTypes, Views
<1>4. Page!HearDeleted /\ s10' # [s10 EXCEPT ![s8].status = "over"] =>
        UNCHANGED <<s1, s2, s3, s4, s5, s6, s7, s9, s10>> /\ s8' = Page!None
  BY DEF Page!HearDeleted
<1> QED
  BY <1>1, <1>2, <1>3, <1>4

\* A call begins: nothing has used its key.
LEMMA PageBegins ==
  ASSUME PageInv, NEW n \in Page!Calls, NEW kind \in {"start", "sample"},
         NEW step \in {"upload", "create", "get"}, Page!Begin(n, kind, step), UNCHANGED s9
  PROVE  /\ s4' = n /\ s5' \in SUBSET Page!Calls
         /\ CallTypes'
         /\ s6[n].step = "none"
         /\ s6'[n].kind = kind /\ s6'[n].step = step /\ s6'[n].key = Page!None
         /\ s6'[n].documents[1] = "none"
         /\ \A m \in Page!Calls \ {n} : s6'[m] = s6[m]
         /\ \A m \in Page!Calls : m \notin s5' /\ s6'[m].step \notin {"none", "over"} => m = n
<1> DEFINE new == [[Page!NoCall EXCEPT !.kind = kind] EXCEPT !.step = step]
<1>1. s6' = [s6 EXCEPT ![n] = new] /\ s4' = n /\ Page!Aborting /\ s6[n].kind = "none"
  BY DEF Page!Begin
<1>2. /\ new \in PageCalls /\ new.kind = kind /\ new.step = step /\ new.key = Page!None
      /\ new.documents[1] = "none"
  BY DEF PageCalls, Page!NoCall, CallSteps, Packs, Page!NoDocuments
<1> HIDE DEF new
<1>3. s6 \in [Page!Calls -> PageCalls] /\ s6[n].step = "none"
  BY <1>1 DEF PageInv, PageTypes, CallTypes
<1>4. s6' \in [Page!Calls -> PageCalls] /\ s6'[n] = new
      /\ \A m \in Page!Calls \ {n} : s6'[m] = s6[m]
  BY <1>1, <1>2, <1>3
<1>5. n \notin s9
  BY <1>1, <1>3 DEF PageInv, PageTypes, CallTypes
<1>6. CallTypes'
  BY <1>2, <1>4, <1>5 DEF PageInv, PageTypes, CallTypes
<1>7. s5' \in SUBSET Page!Calls /\ s5 \subseteq s5' /\ (s4 # Page!None => s4 \in s5')
  BY <1>1, AbortTypes DEF PageInv
<1>8. \A m \in Page!Calls : m \notin s5' /\ s6'[m].step \notin {"none", "over"} => m = n
  BY <1>4, <1>7, PageNumbers DEF PageInv, RequestInHand
<1> QED
  BY <1>1, <1>2, <1>3, <1>4, <1>6, <1>7, <1>8

LEMMA PageStarts ==
  ASSUME PageInv, Page!StartAnalysis
  PROVE  PageInv'
<1>1. s3' = "analysis" /\ UNCHANGED <<s2, s7, s8, s9, s10>> /\ s1 \in Views
  BY DEF Page!StartAnalysis, Page!network, PageInv, PageTypes
<1>2. CASE s1.valid
  <2>1. PICK n \in Page!Calls :
          Page!Begin(n, "start", IF s1.mode = "upload" THEN "upload" ELSE "create")
    BY <1>2 DEF Page!StartAnalysis
  <2>2. s1' = [Page!Cleared EXCEPT !.phase = "starting"]
    BY <1>2 DEF Page!StartAnalysis
  <2>3. /\ s1' \in Views /\ s1'.phase = "starting" /\ s1'.run = Page!None
        /\ s1'.result = Page!None
        /\ s1'.valid /\ s1'.drafts = s1.drafts
    BY <1>1, <1>2, <2>2, ViewCleared DEF Views
  <2> DEFINE step == IF s1.mode = "upload" THEN "upload" ELSE "create"
  <2>4. step \in {"upload", "create", "get"} /\ Page!Begin(n, "start", step)
    BY <2>1
  <2> HIDE DEF step
  <2>5. /\ s4' = n /\ s5' \in SUBSET Page!Calls /\ CallTypes' /\ s6[n].step = "none"
        /\ s6'[n].kind = "start" /\ s6'[n].step = step /\ s6'[n].key = Page!None
        /\ s6'[n].documents[1] = "none"
        /\ \A m \in Page!Calls \ {n} : s6'[m] = s6[m]
        /\ \A m \in Page!Calls : m \notin s5' /\ s6'[m].step \notin {"none", "over"} => m = n
    BY <1>1, <2>4, PageBegins
  <2>6. PageTypes'
    BY <1>1, <2>3, <2>5 DEF PageInv, PageTypes
  <2>7. ShownIsClean' /\ RequestInHand'
    BY <1>1, <2>3, <2>5, PageNumbers DEF PageInv, ShownIsClean, RequestInHand
  <2>8. \A m \in Page!Calls : s6[m].key # n /\ s2 # n
    BY <2>5, PageNumbers DEF PageInv, KeyedIsOnePack, Unposted
  <2>9. \A m \in Page!Calls : s6[m].key \in Page!Calls \cup {Page!None}
    BY DEF PageInv, PageTypes, CallTypes, PageCalls
  <2>10. \A m \in Page!Calls : Page!OfLinks(m)' => m # n /\ Page!OfLinks(m)
    BY <2>5 DEF Page!OfLinks
  <2>11. KeyedIsOnePack'
    <3>1. s2' # Page!None => s6'[s2'].step \notin Unposted /\ s1'.phase # "idle" /\ s1'.valid
      BY <1>1, <2>3, <2>5, <2>8 DEF PageInv, PageTypes, KeyedIsOnePack
    <3>2. \A m \in Page!Calls :
            m \notin s5' /\ s6'[m].step \in {"upload", "create"} => s1'.phase # "idle" /\ s1'.valid
      BY <2>3
    <3>3. \A m \in Page!Calls : s6'[m].key # Page!None => s6'[s6'[m].key].step \notin Unposted
      BY <2>5, <2>8, <2>9 DEF PageInv, KeyedIsOnePack
    <3>4. \A m \in Page!Calls : Page!OfLinks(m)' => s6'[m] = s6[m] /\ Page!OfLinks(m)
      BY <2>5, <2>10
    <3> QED
      BY <1>1, <2>3, <3>1, <3>2, <3>3, <3>4 DEF PageInv, KeyedIsOnePack
  <2> QED
    BY <2>6, <2>7, <2>11 DEF PageInv
<1>3. CASE ~s1.valid
  <2>1. /\ s1' = [s1 EXCEPT !.phase = "idle"] /\ UNCHANGED <<s4, s5, s6>>
        /\ s1.phase = "idle" \/ s1.run = Page!None
    BY <1>3 DEF Page!StartAnalysis
  <2>2. /\ s1' \in Views /\ s1'.phase = "idle" /\ s1'.run = s1.run /\ s1'.result = s1.result
        /\ s1'.drafts = s1.drafts /\ s1'.valid = s1.valid
    BY <1>1, <2>1 DEF Views
  <2>3. PageTypes'
    BY <1>1, <2>1, <2>2 DEF PageInv, PageTypes, CallTypes
  <2>4. ShownIsClean' /\ RequestInHand'
    BY <1>1, <2>1, <2>2 DEF PageInv, ShownIsClean, RequestInHand, RequestStands
  <2>5. KeyedIsOnePack'
    BY <1>1, <1>3, <2>1, <2>2 DEF PageInv, KeyedIsOnePack, Page!OfLinks
  <2> QED
    BY <2>3, <2>4, <2>5 DEF PageInv
<1> QED
  BY <1>2, <1>3

LEMMA PageSamples ==
  ASSUME PageInv, Page!LoadSample
  PROVE  PageInv'
<1>1. /\ s3' = "sample" /\ s2' = Page!None /\ UNCHANGED <<s7, s8, s9, s10>> /\ s1 \in Views
      /\ s1' = [s1 EXCEPT !.phase = "starting"]
  BY DEF Page!LoadSample, Page!network, PageInv, PageTypes
<1>2. PICK n \in Page!Calls : Page!Begin(n, "sample", "get")
  BY DEF Page!LoadSample
<1>3. /\ s1' \in Views /\ s1'.phase = "starting" /\ s1'.run = s1.run /\ s1'.result = s1.result
      /\ s1'.drafts = s1.drafts /\ s1'.valid = s1.valid
  BY <1>1 DEF Views
<1>4. /\ s4' = n /\ s5' \in SUBSET Page!Calls /\ CallTypes' /\ s6[n].step = "none"
      /\ s6'[n].step = "get" /\ s6'[n].key = Page!None
      /\ s6'[n].documents[1] = "none"
      /\ \A m \in Page!Calls \ {n} : s6'[m] = s6[m]
      /\ \A m \in Page!Calls : m \notin s5' /\ s6'[m].step \notin {"none", "over"} => m = n
  BY <1>1, <1>2, PageBegins
<1>5. PageTypes'
  BY <1>1, <1>3, <1>4 DEF PageInv, PageTypes
<1>6. ShownIsClean' /\ RequestInHand'
  BY <1>1, <1>3, <1>4, PageNumbers DEF PageInv, ShownIsClean, RequestInHand
<1>7. \A m \in Page!Calls : s6[m].key # n
  BY <1>4, PageNumbers DEF PageInv, KeyedIsOnePack, Unposted
<1>8. \A m \in Page!Calls : s6[m].key \in Page!Calls \cup {Page!None}
  BY DEF PageInv, PageTypes, CallTypes, PageCalls
<1>9. KeyedIsOnePack'
  <2>1. \A m \in Page!Calls :
          m \notin s5' => s6'[m].step \notin {"upload", "create"}
    BY <1>4
  <2>2. \A m \in Page!Calls : s6'[m].key # Page!None => s6'[s6'[m].key].step \notin Unposted
    BY <1>4, <1>7, <1>8 DEF PageInv, KeyedIsOnePack
  <2>3. \A m \in Page!Calls : Page!OfLinks(m)' => s6'[m] = s6[m] /\ Page!OfLinks(m)
    BY <1>4 DEF Page!OfLinks
  <2> QED
    BY <1>1, <2>1, <2>2, <2>3 DEF PageInv, KeyedIsOnePack
<1> QED
  BY <1>5, <1>6, <1>9 DEF PageInv

LEMMA PageRetries ==
  ASSUME PageInv, Page!RetryPoll
  PROVE  PageInv'
<1>1. /\ s3 = "analysis" /\ s1.run # Page!None /\ s1.phase = "error"
      /\ s1' = [s1 EXCEPT !.phase = "polling"] /\ s7' = Page!Off /\ s1 \in Views
      /\ UNCHANGED <<s2, s3, s4, s5, s6, s8, s9, s10>>
  BY DEF Page!RetryPoll, Page!network, PageInv, PageTypes
<1>2. /\ s1' \in Views /\ s1'.phase = "polling" /\ s1'.run = s1.run /\ s1'.result = s1.result
      /\ s1'.drafts = s1.drafts /\ s1'.valid = s1.valid
  BY <1>1 DEF Views
<1>3. PageTypes'
  BY <1>1, <1>2 DEF PageInv, PageTypes, CallTypes, Page!Off
<1>4. ShownIsClean' /\ RequestInHand'
  BY <1>1, <1>2 DEF PageInv, ShownIsClean, RequestInHand, RequestStands, Page!Off
<1>5. KeyedIsOnePack'
  BY <1>1, <1>2 DEF PageInv, KeyedIsOnePack, Page!OfLinks
<1> QED
  BY <1>3, <1>4, <1>5 DEF PageInv

LEMMA PageCancels ==
  ASSUME PageInv, Page!CancelSample
  PROVE  PageInv'
<1>1. /\ UNCHANGED <<s1, s2, s3, s4, s6, s7, s8, s9, s10>>
      /\ s4 \in Page!Calls /\ s6[s4].kind = "sample" /\ s5' = s5 \cup {s4}
  BY DEF Page!CancelSample, Page!network
<1>2. PageTypes'
  BY <1>1 DEF PageInv, PageTypes, CallTypes
<1>3. ShownIsClean' /\ RequestInHand'
  BY <1>1, PageNumbers DEF PageInv, ShownIsClean, RequestInHand, RequestStands
<1>4. KeyedIsOnePack'
  BY <1>1 DEF PageInv, KeyedIsOnePack, Page!OfLinks
<1> QED
  BY <1>2, <1>3, <1>4 DEF PageInv

-----------------------------------------------------------------------------

\* A call moves on.
LEMMA CallMoves ==
  ASSUME PageInv, NEW n \in Page!Calls, NEW step \in CallSteps, Page!Step(n, step)
  PROVE  /\ s6' \in [Page!Calls -> PageCalls]
         /\ s6'[n].step = step
         /\ \A m \in Page!Calls : /\ s6'[m].kind = s6[m].kind /\ s6'[m].key = s6[m].key
                                  /\ s6'[m].documents = s6[m].documents
                                  /\ s6'[m].answer = s6[m].answer
         /\ \A m \in Page!Calls \ {n} : s6'[m] = s6[m]
<1>1. s6 \in [Page!Calls -> PageCalls] /\ s6' = [s6 EXCEPT ![n] = [s6[n] EXCEPT !.step = step]]
  BY DEF PageInv, PageTypes, CallTypes, Page!Step
<1> DEFINE new == [s6[n] EXCEPT !.step = step]
<1>2. /\ new \in PageCalls /\ new.step = step /\ new.kind = s6[n].kind /\ new.key = s6[n].key
      /\ new.documents = s6[n].documents /\ new.answer = s6[n].answer
  BY <1>1 DEF PageCalls
<1> HIDE DEF new
<1>3. s6' = [s6 EXCEPT ![n] = new]
  BY <1>1 DEF new
<1> QED
  BY <1>1, <1>2, <1>3

\* It moves on to a step in which it is over or was posted, or is not posted yet.
LEMMA CallOnward ==
  ASSUME PageInv, NEW n \in Page!Calls, NEW step \in CallSteps, Page!Step(n, step),
         step = "over" \/ (step = "create" /\ s6[n].step = "upload"),
         s6[n].kind # "none", UNCHANGED <<s2, s4, s5, s9>>,
         s1'.drafts = s1.drafts, s1'.valid = s1.valid, s1'.phase = "idle" => s1.phase = "idle"
  PROVE  CallTypes' /\ KeyedIsOnePack'
         /\ (RequestStands => RequestStands')
         /\ \A m \in Page!Calls : m \notin s5' /\ s6'[m].step \notin {"none", "over"} => m = s4'
<1>1. CallTypes'
  BY CallMoves DEF PageInv, PageTypes, CallTypes
<1>2. \A m \in Page!Calls : m \notin s5' /\ s6'[m].step \notin {"none", "over"} => m = s4'
  BY CallMoves DEF PageInv, RequestInHand
<1>3. RequestStands => RequestStands'
  BY CallMoves DEF PageInv, PageTypes, RequestStands
<1>4. KeyedIsOnePack'
  <2>1. \A m \in Page!Calls : s6'[m].step \in Unposted => s6[m].step \in Unposted
    BY CallMoves DEF Unposted
  <2>2. \A m \in Page!Calls : s6'[m].step \in {"upload", "create"}
                             => s6[m].step \in {"upload", "create"}
    BY CallMoves
  <2>3. \A m \in Page!Calls : /\ s6'[m].key = s6[m].key /\ s6'[m].documents = s6[m].documents
                              /\ s6[m].key \in Page!Calls \cup {Page!None}
                              /\ Page!OfLinks(m)' <=> Page!OfLinks(m)
    BY CallMoves DEF PageInv, PageTypes, CallTypes, PageCalls, Page!OfLinks
  <2>4. s2 # Page!None => s2 \in Page!Calls
    BY DEF PageInv, PageTypes
  <2> QED
    BY <2>1, <2>2, <2>3, <2>4 DEF PageInv, KeyedIsOnePack
<1> QED
  BY <1>1, <1>2, <1>3, <1>4

LEMMA MoreSteps == "over" \in CallSteps /\ "create" \in CallSteps
BY DEF CallSteps

LEMMA CallFails ==
  ASSUME PageInv, NEW n \in Page!Calls, NEW again \in BOOLEAN, s6[n].kind # "none",
         Page!Step(n, "over"), Page!ShowError(again), UNCHANGED <<s2, s3, s4, s5, s7, s8, s9, s10>>
  PROVE  PageInv'
<1>1. /\ s1' \in Views /\ s1'.phase = "error" /\ s1'.run = s1.run /\ s1'.result = s1.result
      /\ s1'.drafts = s1.drafts /\ s1'.valid = s1.valid
  BY ViewErrors DEF PageInv, PageTypes
<1>2. CallTypes' /\ KeyedIsOnePack' /\ (RequestStands => RequestStands')
      /\ \A m \in Page!Calls : m \notin s5' /\ s6'[m].step \notin {"none", "over"} => m = s4'
  BY <1>1, CallOnward, MoreSteps
<1>3. PageTypes' /\ ShownIsClean' /\ RequestInHand'
  BY <1>1, <1>2 DEF PageInv, PageTypes, ShownIsClean, RequestInHand
<1> QED
  BY <1>2, <1>3 DEF PageInv

LEMMA PageUploads ==
  ASSUME PageInv, NEW n \in Page!Calls, Page!Upload(n)
  PROVE  PageInv'
<1>1. s6[n].kind = "start" /\ s6[n].step = "upload" /\ UNCHANGED <<s7, s8, s9, s10>>
  BY DEF Page!Upload, Page!At, Page!network
<1>2. CASE Page!Step(n, "create") /\ UNCHANGED Page!page
  <2>1. UNCHANGED <<s1, s2, s3, s4, s5>>
    BY <1>2 DEF Page!page
  <2>2. CallTypes' /\ KeyedIsOnePack' /\ (RequestStands => RequestStands')
        /\ \A m \in Page!Calls : m \notin s5' /\ s6'[m].step \notin {"none", "over"} => m = s4'
    BY <1>1, <1>2, <2>1, CallOnward, MoreSteps
  <2>3. PageTypes' /\ ShownIsClean' /\ RequestInHand'
    BY <1>1, <2>1, <2>2 DEF PageInv, PageTypes, ShownIsClean, RequestInHand
  <2> QED
    BY <2>2, <2>3 DEF PageInv
<1>3. CASE Page!Fails(n, TRUE)
  BY <1>1, <1>3, CallFails DEF Page!Fails
<1> QED
  BY <1>2, <1>3 DEF Page!Upload

\* The POST is sent with the key that is there, or is the first one with its own.
LEMMA PagePosts ==
  ASSUME PageInv, NEW n \in Page!Calls, Page!Create(n)
  PROVE  PageInv'
<1>1. /\ s6[n].kind = "start" /\ s6[n].step = "create" /\ n \notin s5 /\ s2' = Page!Key(n)
      /\ UNCHANGED <<s3, s4, s5, s7, s8, s10>>
  BY DEF Page!Create, Page!At
<1>2. Page!Key(n) \in Page!Calls /\ Page!Key(n) # Page!None /\ (s2 # Page!None => Page!Key(n) = s2)
      /\ (s2 = Page!None => Page!Key(n) = n)
  BY PageNumbers DEF Page!Key, PageInv, PageTypes
<1>3. s2 # n /\ \A m \in Page!Calls : s6[m].key # n /\ s6[m].key \in Page!Calls \cup {Page!None}
  BY <1>1, PageNumbers DEF PageInv, PageTypes, CallTypes, PageCalls, KeyedIsOnePack, Unposted
<1>4. s1.phase # "idle" /\ s1.valid
  BY <1>1 DEF PageInv, KeyedIsOnePack
<1>5. CASE Page!Step(n, "over") /\ Page!ShowError(TRUE) /\ UNCHANGED s9
  <2>1. /\ s1' \in Views /\ s1'.phase = "error" /\ s1'.run = s1.run /\ s1'.result = s1.result
        /\ s1'.drafts = s1.drafts /\ s1'.valid = s1.valid
    BY <1>5, ViewErrors DEF PageInv, PageTypes
  <2>2. /\ s6' \in [Page!Calls -> PageCalls] /\ s6'[n].step = "over"
        /\ \A m \in Page!Calls : /\ s6'[m].kind = s6[m].kind /\ s6'[m].key = s6[m].key
                                 /\ s6'[m].documents = s6[m].documents
                                 /\ s6'[m].answer = s6[m].answer
        /\ \A m \in Page!Calls \ {n} : s6'[m] = s6[m]
    BY <1>5, CallMoves DEF CallSteps
  <2>3. CallTypes'
    BY <1>1, <1>5, <2>2 DEF PageInv, PageTypes, CallTypes
  <2>4. PageTypes' /\ ShownIsClean'
    BY <1>1, <1>2, <1>5, <2>1, <2>3 DEF PageInv, PageTypes, ShownIsClean
  <2>5. RequestInHand'
    BY <1>1, <2>1, <2>2 DEF PageInv, PageTypes, RequestInHand, RequestStands
  <2>6. KeyedIsOnePack'
    <3>1. s6'[s2'].step \notin Unposted /\ s1'.phase # "idle" /\ s1'.valid
      BY <1>1, <1>2, <1>3, <1>4, <2>1, <2>2 DEF PageInv, KeyedIsOnePack, Unposted
    <3>2. \A m \in Page!Calls : s6'[m].key # Page!None => s6'[s6'[m].key].step \notin Unposted
      BY <1>3, <2>2 DEF PageInv, KeyedIsOnePack
    <3>3. \A m \in Page!Calls : Page!OfLinks(m)' <=> Page!OfLinks(m)
      BY <2>2 DEF Page!OfLinks
    <3>4. \A m \in Page!Calls :
            s6'[m].key = s2' /\ Page!OfLinks(m)' => s6'[m].documents = <<"url", s1'.drafts>>
      BY <1>1, <1>2, <1>3, <2>1, <2>2, <3>3 DEF PageInv, KeyedIsOnePack
    <3> QED
      BY <2>1, <2>2, <3>1, <3>2, <3>3, <3>4, <1>4 DEF PageInv, KeyedIsOnePack
  <2> QED
    BY <2>4, <2>5, <2>6 DEF PageInv
<1>6. CASE /\ s9' = s9 \cup {n} /\ UNCHANGED s1
           /\ s6' = [s6 EXCEPT ![n] =
                      [@ EXCEPT !.step = "sent", !.key = Page!Key(n),
                                !.documents = Page!Documents(n)]]
  <2> DEFINE new == [s6[n] EXCEPT !.step = "sent", !.key = Page!Key(n),
                                !.documents = Page!Documents(n)]
  <2>1. s6 \in [Page!Calls -> PageCalls] /\ s6' = [s6 EXCEPT ![n] = new] /\ s1 \in Views
    BY <1>6 DEF PageInv, PageTypes, CallTypes
  <2>2. /\ Page!Documents(n) \in Packs
        /\ Page!Documents(n)[1] = "url" => Page!Documents(n) = <<"url", s1.drafts>>
    <3>1. n \in Nat /\ s1.drafts \in Nat
      BY <2>1 DEF Page!Calls, Views
    <3> QED
      BY <3>1 DEF Page!Documents, Packs
  <2>3. /\ new \in PageCalls /\ new.step = "sent" /\ new.kind = s6[n].kind
        /\ new.key = Page!Key(n)
        /\ new.documents = Page!Documents(n) /\ new.answer = s6[n].answer
    BY <1>2, <2>1, <2>2 DEF PageCalls, CallSteps
  <2> HIDE DEF new
  <2>4. s6' \in [Page!Calls -> PageCalls] /\ s6'[n] = new
        /\ \A m \in Page!Calls \ {n} : s6'[m] = s6[m]
    BY <2>1, <2>3
  <2>5. CallTypes'
    BY <1>1, <1>2, <1>6, <2>3, <2>4 DEF PageInv, PageTypes, CallTypes
  <2>6. PageTypes' /\ ShownIsClean'
    BY <1>1, <1>2, <1>6, <2>5 DEF PageInv, PageTypes, ShownIsClean
  <2>7. RequestInHand'
    BY <1>1, <1>6, <2>3, <2>4 DEF PageInv, PageTypes, RequestInHand, RequestStands
  <2>8. KeyedIsOnePack'
    <3>1. s6'[s2'].step \notin Unposted
      BY <1>1, <1>2, <2>3, <2>4 DEF PageInv, KeyedIsOnePack, Unposted
    <3>2. \A m \in Page!Calls : s6'[m].key # Page!None => s6'[s6'[m].key].step \notin Unposted
      BY <1>1, <1>2, <1>3, <2>3, <2>4, <3>1 DEF PageInv, KeyedIsOnePack
    <3>3. \A m \in Page!Calls \ {n} : Page!OfLinks(m)' <=> Page!OfLinks(m)
      BY <2>4 DEF Page!OfLinks
    <3>4. \A m \in Page!Calls :
            s6'[m].key = s2' /\ Page!OfLinks(m)' => s6'[m].documents = <<"url", s1.drafts>>
      <4>1. Page!OfLinks(n)' => s6'[n].documents = <<"url", s1.drafts>>
        BY <2>2, <2>3, <2>4 DEF Page!OfLinks
      <4>2. \A m \in Page!Calls \ {n} :
              s6'[m].key = s2' /\ Page!OfLinks(m)' => s6'[m].documents = <<"url", s1.drafts>>
        BY <1>1, <1>2, <1>3, <2>4, <3>3 DEF PageInv, KeyedIsOnePack
      <4> QED
        BY <4>1, <4>2
    <3>5. \A l, m \in Page!Calls :
            s6'[l].key = s6'[m].key /\ Page!OfLinks(l)' /\ Page!OfLinks(m)' =>
              s6'[l].documents = s6'[m].documents
      <4> SUFFICES ASSUME NEW l \in Page!Calls, NEW m \in Page!Calls,
                          s6'[l].key = s6'[m].key, Page!OfLinks(l)', Page!OfLinks(m)'
                   PROVE  s6'[l].documents = s6'[m].documents
        OBVIOUS
      <4>1. CASE s6'[l].key = s2'
        BY <3>4, <4>1
      <4>2. CASE s6'[l].key # s2'
        <5>1. l # n /\ m # n
          BY <1>1, <2>3, <2>4, <4>2
        <5> QED
          BY <2>4, <3>3, <5>1 DEF PageInv, KeyedIsOnePack
      <4> QED
        BY <4>1, <4>2
    <3>6. \A m \in Page!Calls : Page!OfLinks(m)' => s6'[m].key # Page!None
      BY <1>2, <2>3, <2>4, <3>3 DEF PageInv, KeyedIsOnePack
    <3> QED
      BY <1>4, <1>6, <3>1, <3>2, <3>4, <3>5, <3>6 DEF KeyedIsOnePack
  <2> QED
    BY <2>6, <2>7, <2>8 DEF PageInv
<1> QED
  BY <1>5, <1>6 DEF Page!Create

LEMMA PageHears ==
  ASSUME PageInv, NEW n \in Page!Calls,
         Page!HearCreated(n) \/ Page!CreateLost(n) \/ Page!HearSample(n)
  PROVE  PageInv'
<1>1. /\ s6[n].kind # "none" /\ UNCHANGED <<s7, s8, s9, s10>>
      /\ UNCHANGED <<s3, s4, s5>> /\ Page!Step(n, "over") /\ n \notin s5
      /\ s6[n].step \notin {"none", "over"}
  BY DEF Page!HearCreated, Page!Hears, Page!CreateLost, Page!HearSample, Page!At, Page!network,
      Page!Fails
<1>2. s1 \in Views /\ n = s4
  BY <1>1 DEF PageInv, PageTypes, RequestInHand
<1>3. CASE UNCHANGED s2 /\ \E again \in BOOLEAN : Page!ShowError(again)
  BY <1>1, <1>3, CallFails
<1>4. CASE /\ Page!HearCreated(n) /\ s2' = Page!None
           /\ s1' = [s1 EXCEPT !.run = s6[n].answer, !.phase = "polling"]
           /\ s6[n].answer # Page!Refused
  <2>1. s6[n].answer \in Page!RunIds /\ s6[n].kind = "start"
    BY <1>4 DEF Page!HearCreated, Page!Hears, Page!At, PageInv, PageTypes, CallTypes, PageCalls
  <2>2. /\ s1' \in Views /\ s1'.phase = "polling" /\ s1'.run = s6[n].answer
        /\ s1'.result = s1.result
        /\ s1'.drafts = s1.drafts /\ s1'.valid = s1.valid
    BY <1>2, <1>4, <2>1 DEF Views
  <2>3. /\ s6' \in [Page!Calls -> PageCalls] /\ s6'[n].step = "over"
        /\ \A m \in Page!Calls : /\ s6'[m].kind = s6[m].kind /\ s6'[m].key = s6[m].key
                                 /\ s6'[m].documents = s6[m].documents
                                 /\ s6'[m].answer = s6[m].answer
        /\ \A m \in Page!Calls \ {n} : s6'[m] = s6[m]
    BY <1>1, CallMoves DEF CallSteps
  <2>4. CallTypes'
    BY <1>1, <2>3 DEF PageInv, PageTypes, CallTypes
  <2>5. PageTypes' /\ ShownIsClean'
    BY <1>1, <1>4, <2>2, <2>4 DEF PageInv, PageTypes, ShownIsClean
  <2>6. RequestInHand'
    BY <1>1, <1>2, <2>1, <2>2, <2>3, PageNumbers DEF PageInv, RequestInHand, RequestStands
  <2>7. KeyedIsOnePack'
    <3>1. \A m \in Page!Calls : s6[m].key \in Page!Calls \cup {Page!None}
      BY DEF PageInv, PageTypes, CallTypes, PageCalls
    <3>2. \A m \in Page!Calls : s6'[m].key # Page!None => s6'[s6'[m].key].step \notin Unposted
      BY <2>3, <3>1 DEF PageInv, KeyedIsOnePack, Unposted
    <3>3. \A m \in Page!Calls : Page!OfLinks(m)' <=> Page!OfLinks(m)
      BY <2>3 DEF Page!OfLinks
    <3>4. \A m \in Page!Calls : s6'[m].key = s2' => ~Page!OfLinks(m)'
      BY <1>4, <2>3, <3>3 DEF PageInv, KeyedIsOnePack
    <3> QED
      BY <1>1, <1>4, <2>2, <2>3, <3>2, <3>3, <3>4 DEF PageInv, KeyedIsOnePack
  <2> QED
    BY <2>5, <2>6, <2>7 DEF PageInv
<1>5. CASE /\ UNCHANGED s2
           /\ s1' = [s1 EXCEPT !.run = Page!None, !.result = Page!Sample, !.phase = "result"]
  <2>1. /\ s1' \in Views /\ s1'.phase = "result" /\ s1'.run = Page!None
        /\ s1'.result = Page!Sample
        /\ s1'.drafts = s1.drafts /\ s1'.valid = s1.valid
    BY <1>2, <1>5 DEF Views
  <2>2. CallTypes' /\ KeyedIsOnePack' /\ (RequestStands => RequestStands')
        /\ \A m \in Page!Calls : m \notin s5' /\ s6'[m].step \notin {"none", "over"} => m = s4'
    BY <1>1, <1>5, <2>1, CallOnward, MoreSteps
  <2>3. PageTypes' /\ ShownIsClean' /\ RequestInHand'
    BY <1>1, <1>5, <2>1, <2>2, PageNumbers DEF PageInv, PageTypes, ShownIsClean, RequestInHand
  <2> QED
    BY <2>2, <2>3 DEF PageInv
<1> QED
  BY <1>3, <1>4, <1>5 DEF Page!HearCreated, Page!CreateLost, Page!HearSample, Page!Fails

\* The service answers a POST, and its runs go on.
LEMMA ServiceMoves ==
  ASSUME PageInv, UNCHANGED <<s1, s2, s3, s4, s5, s7, s8>>, s9' \in SUBSET s9,
         s10' \in [Page!RunIds -> WatchedRuns],
         \A r \in Page!RunIds : /\ s10[r].clean => s10'[r].clean
                                /\ s10'[r].clean => s10'[r].status # "none",
         CallTypes', KeyedIsOnePack', RequestStands => RequestStands',
         \A m \in Page!Calls : m \notin s5' /\ s6'[m].step \notin {"none", "over"} => m = s4'
  PROVE  PageInv'
<1>1. PageTypes'
  BY DEF PageInv, PageTypes
<1>2. ShownIsClean'
  BY DEF PageInv, PageTypes, ShownIsClean
<1>3. RequestInHand'
  BY DEF PageInv, RequestInHand
<1> QED
  BY <1>1, <1>2, <1>3 DEF PageInv

LEMMA PageServed ==
  ASSUME PageInv, NEW n \in Page!Calls, Page!ServeCreate(n)
  PROVE  PageInv'
<1> DEFINE run == s6[n].key
<1>1. /\ n \in s9 /\ s9' = s9 \ {n} /\ UNCHANGED <<s1, s2, s3, s4, s5, s7, s8>>
  BY DEF Page!ServeCreate, Page!page
<1>2. run \in Page!RunIds
      /\ s10 \in [Page!RunIds -> WatchedRuns] /\ s6 \in [Page!Calls -> PageCalls]
      /\ s6[n].kind # "none"
  BY <1>1, PageNumbers DEF PageInv, PageTypes, CallTypes, PageCalls
<1>3. PICK answer \in Page!RunIds \cup {Page!Refused} : Page!Answers(n, answer)
  BY <1>2 DEF Page!ServeCreate
<1>4. CallTypes' /\ KeyedIsOnePack' /\ (RequestStands => RequestStands')
      /\ \A m \in Page!Calls : m \notin s5' /\ s6'[m].step \notin {"none", "over"} => m = s4'
  <2>1. CASE UNCHANGED s6
    BY <1>1, <2>1 DEF PageInv, PageTypes, CallTypes, KeyedIsOnePack, RequestStands, RequestInHand,
       Page!OfLinks
  <2>2. CASE s6[n].step = "sent" /\ s6' = [s6 EXCEPT ![n].step = "answered", ![n].answer = answer]
    <3> DEFINE new == [s6[n] EXCEPT !.step = "answered", !.answer = answer]
    <3>1. s6' = [s6 EXCEPT ![n] = new]
      BY <1>2, <2>2
    <3>2. /\ new \in PageCalls /\ new.step = "answered" /\ new.kind = s6[n].kind
          /\ new.key = s6[n].key
          /\ new.documents = s6[n].documents /\ new.answer = answer
      BY <1>2 DEF PageCalls, CallSteps
    <3> HIDE DEF new
    <3>3. s6' \in [Page!Calls -> PageCalls] /\ s6'[n] = new
          /\ \A m \in Page!Calls \ {n} : s6'[m] = s6[m]
      BY <1>2, <3>1, <3>2
    <3>4. CallTypes'
      BY <1>1, <1>2, <3>2, <3>3, PageNumbers DEF PageInv, PageTypes, CallTypes
    <3>5. /\ RequestStands => RequestStands'
          /\ \A m \in Page!Calls : m \notin s5' /\ s6'[m].step \notin {"none", "over"} => m = s4'
      BY <1>1, <2>2, <3>2, <3>3 DEF PageInv, PageTypes, RequestStands, RequestInHand
    <3>6. KeyedIsOnePack'
      <4>1. \A m \in Page!Calls : s6'[m].step \in Unposted => s6[m].step \in Unposted
        BY <3>2, <3>3 DEF Unposted
      <4>2. \A m \in Page!Calls : s6'[m].step \in {"upload", "create"}
                             => s6[m].step \in {"upload", "create"}
        BY <3>2, <3>3
      <4>3. \A m \in Page!Calls : /\ s6'[m].key = s6[m].key /\ s6'[m].documents = s6[m].documents
                                  /\ s6[m].key \in Page!Calls \cup {Page!None}
                                  /\ Page!OfLinks(m)' <=> Page!OfLinks(m)
        BY <1>2, <3>2, <3>3 DEF PageCalls, Page!OfLinks
      <4>4. s2 # Page!None => s2 \in Page!Calls
        BY DEF PageInv, PageTypes
      <4> QED
        BY <1>1, <4>1, <4>2, <4>3, <4>4 DEF PageInv, KeyedIsOnePack
    <3> QED
      BY <3>4, <3>5, <3>6
  <2> QED
    BY <1>3, <2>1, <2>2 DEF Page!Answers
<1>5. /\ s10' \in [Page!RunIds -> WatchedRuns]
      /\ \A r \in Page!RunIds : /\ s10[r].clean => s10'[r].clean
                                /\ s10'[r].clean => s10'[r].status # "none"
  <2>1. CASE UNCHANGED s10
    BY <1>2, <2>1 DEF PageInv, ShownIsClean
  <2>2. CASE /\ s10[run].status = "none"
             /\ s10' = [s10 EXCEPT ![run] =
                         [Page!NoRun EXCEPT !.status = "working", !.documents = s6[n].documents]]
    <3> DEFINE new == [Page!NoRun EXCEPT !.status = "working", !.documents = s6[n].documents]
    <3>1. new \in WatchedRuns /\ ~new.clean
      BY <1>2 DEF WatchedRuns, Page!NoRun, PageCalls, Page!NoDocuments, Packs
    <3> HIDE DEF new
    <3>2. s10' = [s10 EXCEPT ![run] = new]
      BY <2>2 DEF new
    <3>3. ~s10[run].clean
      BY <1>2, <2>2 DEF PageInv, ShownIsClean
    <3> QED
      BY <1>2, <3>1, <3>2, <3>3 DEF PageInv, ShownIsClean
  <2> QED
    BY <2>1, <2>2 DEF Page!ServeCreate
<1> QED
  BY <1>1, <1>4, <1>5, ServiceMoves

LEMMA PageRuns ==
  ASSUME PageInv, NEW r \in Page!RunIds, Page!RunProceeds(r)
  PROVE  PageInv'
<1>1. UNCHANGED <<s1, s2, s3, s4, s5, s6, s7, s8, s9>> /\ s10 \in [Page!RunIds -> WatchedRuns]
  BY DEF Page!RunProceeds, Page!page, PageInv, PageTypes
<1>2. PICK new : /\ s10' = [s10 EXCEPT ![r] = new] /\ new \in WatchedRuns
                 /\ s10[r].clean => new.clean
                 /\ new.clean => new.status # "none"
  <2>1. \/ \E status \in {"ready", "over"} :
              s10' = [s10 EXCEPT ![r] = [s10[r] EXCEPT !.status = status]]
        \/ s10[r].status # "none" /\ s10' = [s10 EXCEPT ![r] = [s10[r] EXCEPT !.clean = TRUE]]
    BY <1>1 DEF Page!RunProceeds
  <2>2. s10[r] \in WatchedRuns
    BY <1>1
  <2>3. CASE s10[r].status # "none" /\ s10' = [s10 EXCEPT ![r] = [s10[r] EXCEPT !.clean = TRUE]]
    <3> WITNESS [s10[r] EXCEPT !.clean = TRUE]
    <3> QED
      BY <2>2, <2>3 DEF WatchedRuns
  <2>4. ASSUME NEW status \in {"ready", "over"},
               s10' = [s10 EXCEPT ![r] = [s10[r] EXCEPT !.status = status]]
        PROVE  \E new : /\ s10' = [s10 EXCEPT ![r] = new] /\ new \in WatchedRuns
                        /\ s10[r].clean => new.clean
                        /\ new.clean => new.status # "none"
    <3> WITNESS [s10[r] EXCEPT !.status = status]
    <3> QED
      BY <2>2, <2>4 DEF WatchedRuns
  <2> QED
    BY <2>1, <2>3, <2>4
<1>3. /\ s10' \in [Page!RunIds -> WatchedRuns]
      /\ \A q \in Page!RunIds : /\ s10[q].clean => s10'[q].clean
                                /\ s10'[q].clean => s10'[q].status # "none"
  BY <1>1, <1>2 DEF PageInv, ShownIsClean
<1>4. CallTypes' /\ KeyedIsOnePack' /\ (RequestStands => RequestStands')
      /\ \A m \in Page!Calls : m \notin s5' /\ s6'[m].step \notin {"none", "over"} => m = s4'
  BY <1>1 DEF PageInv, PageTypes, CallTypes, KeyedIsOnePack, RequestStands, RequestInHand,
      Page!OfLinks
<1> QED
  BY <1>1, <1>3, <1>4, ServiceMoves

LEMMA PageStep ==
  ASSUME PageInv, Page!Next \/ UNCHANGED shared
  PROVE  PageInv'
<1>1. CASE UNCHANGED shared
  <2>1. UNCHANGED <<s1, s2, s3, s4, s5, s6, s7, s8, s9, s10>>
    BY <1>1 DEF shared
  <2> QED
    BY <2>1 DEF PageInv, PageTypes, CallTypes, ShownIsClean, RequestInHand, RequestStands,
        KeyedIsOnePack,
       Page!OfLinks
<1>2. CASE Page!Next
  BY <1>2, PageEdit, PageReset, PageDeletes, PageStarts, PageSamples, PageRetries, PageCancels,
      PageWatching,
     PageUploads, PagePosts, PageHears, PageServed, PageRuns DEF Page!Next, Page!CallSteps
<1> QED
  BY <1>1, <1>2

LEMMA PageSound == PageInv => Page!PageIsSound
BY DEF PageInv, ShownIsClean, RequestInHand, RequestStands, KeyedIsOnePack, Page!PageIsSound

-----------------------------------------------------------------------------
(***************************************************************************)
(* The parts in one behaviour.                                             *)
(***************************************************************************)

\* A behaviour stays with the part it starts with.
LEMMA PartsStay == ASSUME [VerdictsNext]_verdicts PROVE part' = part
BY DEF VerdictsNext, SpendHonestly, SpendBeyond, KeepReceipts, ProbeBucket, RunCampaign,
       ProbeRedelivery, SettleChannel, SettleFacts, ShowPage, Keeps6, Keeps7, Keeps9, KeepsPart,
       verdicts

\* What a behaviour of one part does is a step of that part.
LEMMA PartSteps ==
  ASSUME [VerdictsNext]_verdicts
  PROVE  /\ part = "overcharged" => [Overcharged!Next]_<<s1, s2, s3, s4, s5, s6>>
         /\ part = "receipts" => [Receipts!Next]_(Receipts!vars)
         /\ part = "bucket" => Bucket!Next \/ UNCHANGED <<s1, s2, s3, s4, s5, s6, s7, s8, s9>>
         /\ part = "campaign" => Campaign!Next \/ UNCHANGED shared
         /\ part = "redelivery"
              => Redelivery!Next \/ UNCHANGED <<s1, s2, s3, s4, s5, s6, s7, s8, s9, s10>>
         /\ part = "channel" => Channel!Next \/ UNCHANGED <<s1, s2, s3, s4, s5, s6>>
         /\ part = "facts" => Facts!Next \/ UNCHANGED <<s1, s2, s3, s4, s5, s6, s7>>
         /\ part = "page" => Page!Next \/ UNCHANGED shared
<1>1. CASE UNCHANGED verdicts
  BY <1>1 DEF verdicts, shared, Receipts!vars
<1>2. CASE VerdictsNext
  BY <1>2 DEF VerdictsNext, SpendHonestly, SpendBeyond, KeepReceipts, ProbeBucket, RunCampaign,
              ProbeRedelivery, SettleChannel, SettleFacts, ShowPage
<1> QED
  BY <1>1, <1>2

IsOvercharged == part = "overcharged"

\* A behaviour with providers that charge more is one of the ledger they are proved of.
LEMMA OverchargeBehaves == VerdictsSpec /\ IsOvercharged => Paid!Spec /\ []IsOvercharged
<1>1. VerdictsInit /\ IsOvercharged => Paid!Init
  BY OverchargedInit DEF VerdictsInit, IsOvercharged
<1>2. IsOvercharged /\ [VerdictsNext]_verdicts => IsOvercharged' /\ [Paid!Next]_(Paid!vars)
  BY PartsStay, PartSteps, OverchargedNext DEF IsOvercharged, Paid!vars
<1> QED
  BY <1>1, <1>2, PTL DEF VerdictsSpec, Paid!Spec

-----------------------------------------------------------------------------
(* Theorems *)

\* A provider that charges more than it agreed to, whatever it charges as long as there
\* is a most: the result is released only settled within its reservation, and the run
\* costs no more beyond it than the calls that were under way (the checks of
\* cost-ledger.ts before every commitment and at the settlement).
THEOREM OverchargesAreCaught == VerdictsSpec => []OverchargeIsCaught
<1>1. VerdictsSpec /\ IsOvercharged => []OverchargeIsCaught
  <2>1. Paid!LedgerAssumption /\ Paid!IsFiniteSet(BeyondReserve)
    BY OverchargeAssumed
  <2>2. Paid!Spec => []Paid!ReleasedWithinReservation
    BY <2>1, Paid!ReleaseIsPaid
  <2>3. Paid!Spec => []Paid!ExposureIsBounded
    BY <2>1, Paid!SpendIsBounded
  <2>4. Paid!ReleasedWithinReservation /\ Paid!ExposureIsBounded => OverchargeIsCaught
    BY ReleasedToo, ExposureToo DEF OverchargeIsCaught
  <2> QED
    BY <2>2, <2>3, <2>4, OverchargeBehaves, PTL
<1>2. VerdictsSpec /\ ~IsOvercharged => []OverchargeIsCaught
  <2>1. ~IsOvercharged /\ [VerdictsNext]_verdicts => ~IsOvercharged'
    BY PartsStay DEF IsOvercharged
  <2>2. ~IsOvercharged => OverchargeIsCaught
    BY DEF IsOvercharged, OverchargeIsCaught
  <2> QED
    BY <2>1, <2>2, PTL DEF VerdictsSpec
<1> QED
  BY <1>1, <1>2, PTL

\* Whatever contracts there are, however long receipts may live and however far the
\* clock of a script may be ahead: a worker that may pay does so under a contract that
\* was the provider's no longer ago than MaxAge + Skew (live-verify's receipts, their
\* probe at startup and the check of the runtime before each call).
THEOREM ContractsWereChecked == VerdictsSpec => []PaidContractWasChecked
<1> DEFINE Inv == part = "receipts" => ReceiptInv
<1>1. Receipts!AttestationAssumption
  BY VerdictsAssumption DEF VerdictsAssumption
<1>2. VerdictsInit => Inv
  BY <1>1, ReceiptInit DEF VerdictsInit
<1>3. Inv /\ [VerdictsNext]_verdicts => Inv'
  BY <1>1, PartsStay, PartSteps, ReceiptStep
<1>4. Inv => PaidContractWasChecked
  BY <1>1, ReceiptChain DEF PaidContractWasChecked
<1> QED
  BY <1>2, <1>3, <1>4, PTL DEF VerdictsSpec

\* However many commands of the probe fail and whenever the bucket is changed: a bucket
\* is attested only if it refuses what it must, and the object the probe made is gone
\* by then (probeObjectStorage).
THEOREM AttestedBucketsAreClean == VerdictsSpec => []AttestedBucketIsClean
<1> DEFINE Inv == part = "bucket" => BucketInv
<1>1. VerdictsInit => Inv
  BY BucketInit DEF VerdictsInit
<1>2. Inv /\ [VerdictsNext]_verdicts => Inv'
  BY PartsStay, PartSteps, BucketStep
<1>3. Inv => AttestedBucketIsClean
  BY BucketIsClean DEF AttestedBucketIsClean
<1> QED
  BY <1>1, <1>2, <1>3, PTL DEF VerdictsSpec

\* However many cases and invocations there are, whatever the limits, wherever an
\* invocation is killed and whatever the ledgers say: a case is paid for at most once,
\* within the budget unless a ledger that calls itself complete says less than was
\* spent, and a file that says "pass" stands for runs that were deleted (main and
\* executeRunCase of live-verify.mjs), as long as nothing stops a resumed invocation
\* before it has merged the file of its campaign; with an outage there, the run
\* campaign_forgotten shows that it is not so.
THEOREM CampaignsAreHonest ==
  ASSUME CampaignSlips = {}
  PROVE  VerdictsSpec => []CampaignIsHonest
<1> DEFINE Inv == part = "campaign" => CampaignInv
<1>1. Campaign!CampaignAssumption
  BY VerdictsAssumption DEF VerdictsAssumption
<1>2. VerdictsInit => Inv
  BY <1>1, CampaignStarts DEF VerdictsInit
<1>3. Inv /\ [VerdictsNext]_verdicts => Inv'
  BY <1>1, PartsStay, PartSteps, CampaignKeeps
<1>4. Inv => CampaignIsHonest
  BY <1>1, CampaignIsPaidOnce, CampaignPassIsEarned DEF CampaignIsHonest
<1> QED
  BY <1>2, <1>3, <1>4, PTL DEF VerdictsSpec

\* However many cases and invocations there are and wherever an invocation is killed: the
\* reported spend of a file that says "pass" was held against what the wallet lost, for
\* all runs or for all but one (reconcileWallet, releasePassed). That it was for all is
\* what the code does not promise: the run campaign_unreconciled.
THEOREM CampaignsAreCompared ==
  ASSUME CampaignSlips = {}
  PROVE  VerdictsSpec => []PassesAreCompared
<1> DEFINE Inv == part = "campaign" => CampaignInv /\ WalletInv
<1>1. Campaign!CampaignAssumption
  BY VerdictsAssumption DEF VerdictsAssumption
<1>2. VerdictsInit => Inv
  BY <1>1, CampaignStarts, WalletStarts DEF VerdictsInit
<1>3. Inv /\ [VerdictsNext]_verdicts => Inv'
  BY <1>1, PartsStay, PartSteps, CampaignKeeps, WalletKeeps
<1>4. Inv => PassesAreCompared
  BY <1>1, WalletIsCompared DEF PassesAreCompared
<1> QED
  BY <1>2, <1>3, <1>4, PTL DEF VerdictsSpec

\* However many invocations there are and whatever is lost: evidence of a redelivery is
\* of a run whose first attempt died without a word and whose second completed, and of
\* one start; the probe kills nothing but a process of its Preview, and a receipt bound
\* to a run means the kill of that run (live-recovery-probe.mjs, decideRedeliveryProbe).
THEOREM ProbesAreTrue == VerdictsSpec => []RedeliveryIsTrue
<1> DEFINE Inv == part = "redelivery" => ProbeInv
<1>1. VerdictsInit => Inv
  BY ProbeInit DEF VerdictsInit
<1>2. Inv /\ [VerdictsNext]_verdicts => Inv'
  BY PartsStay, PartSteps, ProbeStep
<1>3. Inv => RedeliveryIsTrue
  BY ProbeIsTrue DEF RedeliveryIsTrue
<1> QED
  BY <1>1, <1>2, <1>3, PTL DEF VerdictsSpec

\* For pages of any length, any core, and a halo that is no less than half of the longest
\* quote: a verdict other than "unresolved" is that of the whole package; a channel is
\* called the only one only where the package names it alone; and where the ledger and
\* the answers are in order, each window has room for its statements and no span says two
\* things, the package is told in full (verifySubmissionAdjudication,
\* resolveVerifiedSubmissionChannel).
THEOREM ChannelsAreTrue == VerdictsSpec => []ChannelIsTrue
<1> DEFINE Inv == part = "channel" => ChannelInv
<1>1. Channel!SubmissionAssumption
  BY VerdictsAssumption DEF VerdictsAssumption
<1>2. VerdictsInit => Inv
  BY ChannelInit DEF VerdictsInit
<1>3. Inv /\ [VerdictsNext]_verdicts => Inv'
  BY <1>1, PartsStay, PartSteps, ChannelStep
<1>4. Inv => ChannelIsTrue
  BY ChannelIsAsSaid DEF ChannelIsTrue
<1> QED
  BY <1>2, <1>3, <1>4, PTL DEF VerdictsSpec

\* For any values, any number of facts and any number of amendments: an analysis says of
\* a topic what base and amendments leave standing, and reports a conflict where what
\* stands cannot all be true (reconcileVersionedFacts).
THEOREM FactsAreSettled == VerdictsSpec => []FactsAreReconciled
<1> DEFINE Inv == part = "facts" => FactsInv
<1>1. VerdictsInit => Inv
  BY FactsInit DEF VerdictsInit
<1>2. Inv /\ [VerdictsNext]_verdicts => Inv'
  BY PartsStay, PartSteps, FactsStep
<1>3. Inv => FactsAreReconciled
  BY DEF FactsInv, FactsAreReconciled
<1> QED
  BY <1>1, <1>2, <1>3, PTL DEF VerdictsSpec

\* For any number of requests, runs, edits and faults: the page shows only what its run
\* is entitled to, polls what it has not left, and repeats a request only as it was
\* (the callbacks of rfp-workspace.tsx).
THEOREM PagesAreSound == VerdictsSpec => []PageIsSound
<1> DEFINE Inv == part = "page" => PageInv
<1>1. VerdictsInit => Inv
  BY PageInit DEF VerdictsInit
<1>2. Inv /\ [VerdictsNext]_verdicts => Inv'
  BY PartsStay, PartSteps, PageStep
<1>3. Inv => PageIsSound
  BY PageSound DEF PageIsSound
<1> QED
  BY <1>1, <1>2, <1>3, PTL DEF VerdictsSpec
=============================================================================
