----------------------------- MODULE BucketProbe -----------------------------
(***************************************************************************)
(* The safety probe of the private bucket (probeRailwayS3ReplayFence in    *)
(* src/lib/storage/railway-s3.ts) and the attestation it writes            *)
(* (src/lib/storage/railway-s3-safety.ts): one random object is uploaded   *)
(* with a signed URL, replayed, fenced, replayed again and deleted, in a   *)
(* bucket of which nothing is known, whose settings may change between two *)
(* commands.                                                               *)
(***************************************************************************)
EXTENDS Naturals

CONSTANT MaxFaults
BucketProbeAssumption == MaxFaults \in Nat

VARIABLES
  bucket,    \* how the provider behaves
  object,    \* "none", "body", or the "fence" of zero bytes
  retained,  \* old versions or delete markers of the object are kept
  pc,
  deleted,   \* the probe has seen the object gone
  lock, versions,  \* what it found out
  token,     \* the attestation it issued
  faults

vars == <<bucket, object, retained, pc, deleted, lock, versions, token, faults>>

\* createOnly: If-None-Match is honoured over a body; overFence: and over an empty
\* object; cas: If-Match is honoured; deletes: a delete takes effect.
Buckets ==
  [versioning : {"never", "enabled", "suspended"}, lock : {"absent", "disabled", "enabled", "unclear"},
   lists : BOOLEAN, cors : BOOLEAN, createOnly : BOOLEAN, overFence : BOOLEAN,
   stores : BOOLEAN, deletes : BOOLEAN]

Keeps == bucket.versioning # "never"

Init ==
  /\ bucket \in Buckets
  /\ object = "none" /\ retained = FALSE
  /\ pc = "versioning" /\ deleted = FALSE
  /\ lock = "unknown" /\ versions = "unknown"
  /\ token = "none" /\ faults = 0

Found == <<lock, versions, token>>
Goto(step) == pc' = step

-----------------------------------------------------------------------------
(* probeRailwayS3ControlPlane *)

CheckVersioning ==
  /\ pc = "versioning"
  /\ Goto(IF bucket.versioning = "never" THEN "lock" ELSE "clean")
  /\ UNCHANGED <<bucket, object, retained, deleted, Found, faults>>

\* An answer that says neither is no answer.
CheckLock ==
  /\ pc = "lock"
  /\ IF bucket.lock \in {"absent", "disabled"}
     THEN lock' = bucket.lock /\ Goto("cors")
     ELSE UNCHANGED lock /\ Goto("clean")
  /\ UNCHANGED <<bucket, object, retained, deleted, versions, token, faults>>

CheckCors ==
  /\ pc = "cors" /\ Goto(IF bucket.cors THEN "upload" ELSE "clean")
  /\ UNCHANGED <<bucket, object, retained, deleted, Found, faults>>

-----------------------------------------------------------------------------
(* The signed URL and the fence *)

\* If-None-Match: * over what is there.
Refuses == CASE object = "none" -> FALSE
             [] object = "body" -> bucket.createOnly
             [] object = "fence" -> bucket.overFence

SignedPut(accepted, refused) ==
  IF Refuses
  THEN Goto(refused) /\ UNCHANGED <<object, retained>>
  ELSE object' = "body" /\ retained' = (retained \/ (Keeps /\ object # "none")) /\ Goto(accepted)

Upload ==
  /\ pc = "upload" /\ SignedPut("size", "clean")
  /\ UNCHANGED <<bucket, deleted, Found, faults>>

\* The exact size is read back.
ConfirmSize ==
  /\ pc = "size" /\ Goto(IF bucket.stores /\ object = "body" THEN "replay" ELSE "clean")
  /\ UNCHANGED <<bucket, object, retained, deleted, Found, faults>>

Replay ==
  /\ pc = "replay" /\ SignedPut("clean", "fence")
  /\ UNCHANGED <<bucket, deleted, Found, faults>>

Fence ==
  /\ pc = "fence"
  /\ object' = "fence" /\ retained' = (retained \/ Keeps) /\ Goto("confirm")
  /\ UNCHANGED <<bucket, deleted, Found, faults>>

\* Mutant: the replay is not tried again over the fence.
ConfirmFence_Last ==
  /\ pc = "confirm" /\ Goto("delete")
  /\ UNCHANGED <<bucket, object, retained, deleted, Found, faults>>

ConfirmFence ==
  /\ pc = "confirm" /\ Goto(IF object = "fence" THEN "refence" ELSE "clean")
  /\ UNCHANGED <<bucket, object, retained, deleted, Found, faults>>

ReplayOverFence ==
  /\ pc = "refence" /\ SignedPut("clean", "delete")
  /\ UNCHANGED <<bucket, deleted, Found, faults>>

-----------------------------------------------------------------------------
(* The removal *)

\* conditionalDelete: find, delete that version, look again.
ConditionalDelete ==
  /\ IF bucket.deletes \/ object = "none"
     THEN /\ object' = "none" /\ deleted' = TRUE
          /\ retained' = (retained \/ (Keeps /\ object # "none"))
     ELSE UNCHANGED <<object, retained, deleted>>

Delete ==
  /\ pc = "delete" /\ ConditionalDelete
  /\ Goto(IF deleted' THEN "versions" ELSE "clean")
  /\ UNCHANGED <<bucket, Found, faults>>

\* A bucket that cannot list versions is believed not to keep any.
ListVersions ==
  /\ pc = "versions"
  /\ IF ~bucket.lists THEN versions' = "listing_unsupported" /\ Goto("issue")
     ELSE IF ~retained THEN versions' = "verified_empty" /\ Goto("issue")
     ELSE UNCHANGED versions /\ Goto("clean")
  /\ UNCHANGED <<bucket, object, retained, deleted, lock, token, faults>>

Issue ==
  /\ pc = "issue" /\ Goto("clean")
  /\ token' = "issued"
  /\ UNCHANGED <<bucket, object, retained, deleted, lock, versions, faults>>

\* Mutant: only a probe that failed cleans up.
CleanUp_AfterFailure ==
  /\ pc = "clean" /\ Goto("over")
  /\ UNCHANGED <<object, retained, deleted, bucket, Found, faults>>

\* The finally clause: whatever has thrown, the object goes if it can.
CleanUp ==
  /\ pc = "clean" /\ Goto("over")
  /\ IF deleted THEN UNCHANGED <<object, retained, deleted>> ELSE ConditionalDelete
  /\ UNCHANGED <<bucket, Found, faults>>

\* A command fails or runs out of time, before or after it took effect; what fails in
\* the finally clause is given up.
Fault ==
  /\ pc \notin {"over", "issue"} /\ faults < MaxFaults /\ faults' = faults + 1
  /\ Goto(IF pc = "clean" THEN "over" ELSE "clean")
  /\ \/ UNCHANGED <<object, retained>>
     \/ /\ pc \in {"upload", "replay", "refence"} /\ ~Refuses
        /\ object' = "body" /\ retained' = (retained \/ (Keeps /\ object # "none"))
     \/ pc = "fence" /\ object' = "fence" /\ retained' = (retained \/ Keeps)
  /\ UNCHANGED <<bucket, deleted, Found>>

\* Somebody switches versioning on while the probe is at work.
SwitchVersioning ==
  /\ bucket.versioning = "never" /\ pc # "over"
  /\ bucket' = [bucket EXCEPT !.versioning = "enabled"]
  /\ UNCHANGED <<object, retained, pc, deleted, Found, faults>>

Next ==
  \/ CheckVersioning \/ CheckLock \/ CheckCors \/ Upload \/ ConfirmSize \/ Replay \/ Fence
  \/ ConfirmFence \/ ReplayOverFence \/ Delete \/ ListVersions \/ Issue \/ CleanUp
  \/ Fault \/ SwitchVersioning

Spec == Init /\ [][Next]_vars

-----------------------------------------------------------------------------
(* Properties *)

\* An attestation is issued only for a bucket in which a signed URL is good for one
\* object: not over the uploaded bytes, and not over the empty fence that replaces
\* them; and whose probe object is gone, with no version of it kept where versions
\* can be listed.
AttestedBucketIsSafe ==
  token = "issued" =>
    /\ bucket.createOnly /\ bucket.overFence
    /\ object = "none" /\ (bucket.lists => ~retained)

\* A probe that met no failing command leaves its object behind only where nothing
\* can be deleted.
ProbeObjectIsRemoved ==
  pc = "over" /\ faults = 0 /\ bucket.deletes => object = "none"
=============================================================================
