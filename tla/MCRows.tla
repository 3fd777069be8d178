------------------------------- MODULE MCRows -------------------------------
(***************************************************************************)
(* The rows several callers write at once, four parts that share no state: *)
(* an update of a run's row (StoreUpdate), the creation of runs against    *)
(* the shared limits (RunCreation), the heartbeat of maintenance           *)
(* (Heartbeat) and an upload grant (UploadGrant).  A behaviour is one of   *)
(* one part, the variables of the others stay as they are; the parts other *)
(* than StoreUpdate take turns with the variables s1 to s11.               *)
(***************************************************************************)
EXTENDS StoreUpdate

CONSTANTS release, receipt, expiry  \* model values: the writers of the row

\* Those of RunCreation, of Heartbeat and of UploadGrant.
CONSTANTS
  Posts, NoRun, Owner, Key, QuotaKey, Hashes, NoKey, RunsPerDay, Price, DailyCap, Costs, LastDay,
  Invocations, Budget, MaxAge, Skew, LastTime,
  Runs, Purgers, RunOf, Sweepers, Nobody, MaxPuts, MaxFaults

VARIABLES part, s1, s2, s3, s4, s5, s6, s7, s8, s9, s10, s11

store == vars
shared == <<s1, s2, s3, s4, s5, s6, s7, s8, s9, s10, s11>>
rows == <<part, store, shared>>

-----------------------------------------------------------------------------
(* The values of the run: three kinds of writers; two requests with one key and one   *)
(* of another owner, all of one quota key; two runs that name one upload, a purge for *)
(* each of them, and two sweeps that look for its grant.                              *)

ThreeKinds == {release, receipt, expiry}
OfTheWorker == {release}
Conditional == {expiry}

Requests == {"a1", "a2", "b1"}
OwnerOf == [q \in Requests |-> IF q = "b1" THEN "b" ELSE "a"]
KeyOf == [q \in Requests |-> IF q = "b1" THEN "unkeyed" ELSE "k"]
OneQuota == [q \in Requests |-> "q"]
SameOrOther ==
  {[q \in Requests |-> "h"], [q \in Requests |-> IF q = "a2" THEN "other" ELSE "h"]}

TwoPurges == {"p1", "p2"}
RunOfPurge == [p \in TwoPurges |-> IF p = "p1" THEN "r1" ELSE "r2"]

-----------------------------------------------------------------------------
(* The parts *)

Creation == INSTANCE RunCreation WITH
  run <- s1, reserve <- s2, work <- s3, spent <- s4, hash <- s5, pc <- s6, target <- s7,
  today <- s8, faults <- s9

Beat == INSTANCE Heartbeat WITH
  now <- s1, inv <- s2, wire <- s3, row <- s4, completed <- s5, reading <- s6

Grant == INSTANCE UploadGrant WITH
  row <- s1, object <- s2, phase <- s3, flying <- s4, puts <- s5, granted <- s6,
  misread <- s7, pc <- s8, seen <- s9, etag <- s10, faults <- s11

ASSUME RowsAssumption ==
  /\ Creation!RunCreationAssumption
  /\ Beat!HeartbeatAssumption
  /\ Grant!UploadGrantAssumption

-----------------------------------------------------------------------------

None == "none"

After9 == s10 = None /\ s11 = None
After6 == s7 = None /\ s8 = None /\ s9 = None /\ After9

RowsInit ==
  /\ Init
  /\ \/ /\ part = "store" /\ s1 = None /\ s2 = None /\ s3 = None
        /\ s4 = None /\ s5 = None /\ s6 = None /\ After6
     \/ part = "creation" /\ Creation!Init /\ After9
     \/ part = "heartbeat" /\ Beat!Init /\ After6
     \/ part = "grant" /\ Grant!Init

KeepsPart == UNCHANGED <<part, store>>
Keeps9 == KeepsPart /\ UNCHANGED <<s10, s11>>
Keeps6 == Keeps9 /\ UNCHANGED <<s7, s8, s9>>

UpdateRow == part = "store" /\ Next /\ UNCHANGED <<part, shared>>
CreateRuns == part = "creation" /\ Creation!Next /\ Keeps9
KeepHeartbeat == part = "heartbeat" /\ Beat!Next /\ Keeps6
ShareUpload == part = "grant" /\ Grant!Next /\ KeepsPart

RowsNext == UpdateRow \/ CreateRuns \/ KeepHeartbeat \/ ShareUpload

RowsSpec == RowsInit /\ [][RowsNext]_rows

-----------------------------------------------------------------------------
(* Properties of the parts; those of StoreUpdate hold of every behaviour. *)

\* Requests that repeat a key are answered with one run, and only if they ask for the
\* same, whatever the order of their insertions, failures and removals.
RepeatsAgree == part = "creation" => Creation!KeyedAnswersAgree

\* Runs that are admitted, rejected, released and settled at once stay within the
\* cap of their day and the quota of their key, and none of them is dispatched on a
\* reservation another one has released.
LimitsHold ==
  part = "creation" =>
    Creation!SpendWithinCap /\ Creation!AdmittedWithinQuota /\ Creation!DispatchIsFunded

\* A heartbeat that is fresh to an admission stands for two completed passes no older
\* than it may be, and one that lands late never replaces a younger one.
HeartbeatIsTrue ==
  /\ [](part = "heartbeat" => Beat!FreshIsTrue)
  /\ [][part = "heartbeat" => Beat!NeverOlder]_rows

\* Whatever claims, purges, sweeps and uses of the signed URL race for an upload, it
\* serves one run, with the bytes it was granted for, its bytes do not outlive its row,
\* and nobody but the run that holds it purges it before it is due.
GrantIsKept ==
  /\ [](part = "grant" => Grant!GrantIsSafe)
  /\ [][part = "grant" => Grant!OnlyHolderPurges]_rows
=============================================================================
