----------------------------- MODULE UploadGrant -----------------------------
(***************************************************************************)
(* One incoming upload from its grant to its removal                       *)
(* (RailwayS3UploadStorage in src/lib/storage/railway-s3.ts): the ledger   *)
(* row, the object its signed URL may create, the runs that claim it, the  *)
(* purges that replace its bytes by an empty fence, and the sweeps that    *)
(* take the row once it is due.  The bucket knows preconditions and        *)
(* nothing else: a step of one party falls between any two steps of        *)
(* another.                                                                *)
(***************************************************************************)
EXTENDS Integers, FiniteSets

CONSTANTS
  Runs,       \* runs that name the upload in their input
  Purgers,    \* cleanups that purge it, each for one run
  RunOf,      \* the run a purge works for
  Sweepers,   \* sweeps of expired grants
  Nobody,
  MaxPuts,    \* uses of the signed URL
  MaxFaults   \* commands that fail, and calls that die

UploadGrantAssumption ==
  /\ Purgers \cap Sweepers = {} /\ Nobody \notin Runs \cup Sweepers
  /\ RunOf \in [Purgers -> Runs]
  /\ MaxPuts \in Nat /\ MaxFaults \in Nat

VARIABLES
  row,      \* the row of incoming_uploads
  object,   \* what the bucket holds at the path; its ETag is that of its content
  phase,    \* "valid", the "grace" after expiresAt, "due" after cleanupDueAt
  flying,   \* bodies being uploaded with the signed URL
  puts,
  granted,  \* what each run was told of its claim
  misread,  \* a worker was given bytes its grant does not declare
  pc,       \* where each purge and sweep is
  seen,     \* the row as it read it
  etag,     \* the ETag it acts on
  faults

client == <<flying, puts>>
parties == <<pc, seen, etag>>
vars == <<row, object, phase, client, granted, misread, parties, faults>>

Procs == Purgers \cup Sweepers
Bodies == {"pdf", "other"}          \* the declared bytes, and others of their length
Objects == Bodies \cup {"none", "fence"}
Steps == {"idle", "head", "put", "rehead", "reput", "confirm", "persist",
          "lease", "rmHead", "rmDelete", "rmConfirm", "deleteRow", "release",
          "failed", "done"}
Statuses == {"issued", "claimed", "fenced"}
Rows == [there : BOOLEAN, status : Statuses, run : Runs \cup {Nobody},
         version : Nat, lease : Sweepers \cup {Nobody}]

\* What a later step needs of the row.
SeenOf(r) == [there |-> r.there, run |-> r.run, version |-> r.version]

NothingSeen == [there |-> FALSE, run |-> Nobody, version |-> 0]

\* presign has inserted the row and signed the URL.
Issued ==
  [there |-> TRUE, status |-> "issued", run |-> Nobody, version |-> 0, lease |-> Nobody]

Init ==
  /\ row = Issued /\ object = "none" /\ phase = "valid"
  /\ flying = {} /\ puts = 0
  /\ granted = [r \in Runs |-> FALSE]
  /\ misread = FALSE
  /\ pc = [p \in Procs |-> "idle"]
  /\ seen = [p \in Procs |-> NothingSeen]
  /\ etag = [p \in Procs |-> "none"]
  /\ faults = 0

-----------------------------------------------------------------------------
(* The client and its runs *)

\* The URL signs the length and If-None-Match, not the content, and is good
\* until the grant expires.
StartPut(body) ==
  /\ phase = "valid" /\ puts < MaxPuts
  /\ puts' = puts + 1 /\ flying' = flying \cup {body}
  /\ UNCHANGED <<row, object, phase, granted, misread, parties, faults>>

\* The precondition is decided when the body is complete. The grace is there
\* for a body that was on its way when the URL expired.
LandPut(body) ==
  /\ body \in flying /\ flying' = flying \ {body}
  /\ object' = IF object = "none" THEN body ELSE object
  /\ UNCHANGED <<row, phase, puts, granted, misread, parties, faults>>

\* Mutant: a claimed grant may be claimed again.
ClaimIncoming_Again(r) ==
  /\ row.there /\ phase = "valid" /\ row.status \in {"issued", "claimed"}
  /\ row' = [row EXCEPT !.status = "claimed", !.run = r]
  /\ granted' = [granted EXCEPT ![r] = TRUE]
  /\ UNCHANGED <<object, phase, client, misread, parties, faults>>

ClaimIncoming(r) ==
  /\ row.there /\ phase = "valid" /\ row.status = "issued"
  /\ row' = [row EXCEPT !.status = "claimed", !.run = r]
  /\ granted' = [granted EXCEPT ![r] = TRUE]
  /\ UNCHANGED <<object, phase, client, misread, parties, faults>>

\* The acknowledgement is lost; a replay by the same run is told yes at any time.
ClaimReplayed(r) ==
  /\ row.there /\ row.run = r /\ ~granted[r]
  /\ granted' = [granted EXCEPT ![r] = TRUE]
  /\ UNCHANGED <<row, object, phase, client, misread, parties, faults>>

ClaimLost(r) ==
  /\ faults < MaxFaults /\ faults' = faults + 1
  /\ row.there /\ phase = "valid" /\ row.status = "issued"
  /\ row' = [row EXCEPT !.status = "claimed", !.run = r]
  /\ UNCHANGED <<object, phase, client, granted, misread, parties>>

\* Mutant: the bytes are not compared with the grant.
Accepted_AnyBytes(content) == content # "none"

\* A fence is no PDF, and other bytes have another hash.
Accepted(content) == content = "pdf"

\* A worker reads one version of the object, pinned by its ETag.
Read(r) ==
  /\ granted[r] /\ row.there /\ row.status = "claimed" /\ row.run # Nobody
  /\ Accepted(object)
  /\ misread' = (misread \/ object # "pdf")
  /\ UNCHANGED <<row, object, phase, client, granted, parties, faults>>

-----------------------------------------------------------------------------
(* Steps of a purge or sweep *)

Over == {"idle", "failed", "done"}

\* Where a call ends, what it had read is forgotten.
Move(p, step) ==
  /\ pc' = [pc EXCEPT ![p] = step]
  /\ seen' = IF step \in Over THEN [seen EXCEPT ![p] = NothingSeen] ELSE seen

Remember(p, content, step) ==
  /\ Move(p, step)
  /\ etag' = [etag EXCEPT ![p] = IF step \in Over THEN "none" ELSE content]

Goto(p, step) == Remember(p, etag[p], step)

Rest == <<phase, client, granted, misread>>

\* A command fails or times out, before or after it took effect, or its caller
\* dies: a purge is reported failed, a sweep gives its lease back unless it died.
Fault(p) ==
  /\ pc[p] \notin {"idle", "failed", "done"}
  /\ faults < MaxFaults /\ faults' = faults + 1
  /\ Goto(p, "failed")
  /\ UNCHANGED <<row, object, Rest>>

Refused(p) == Goto(p, IF p \in Sweepers THEN "release" ELSE "failed")

Removed(p) == IF p \in Sweepers THEN "deleteRow" ELSE "done"

\* remove(): find, delete exactly that version, look again.
RemoveHead(p) ==
  /\ pc[p] = "rmHead"
  /\ Remember(p, object, IF object # "none" THEN "rmDelete" ELSE Removed(p))
  /\ UNCHANGED <<row, object, Rest, faults>>

RemoveDelete(p) ==
  /\ pc[p] = "rmDelete"
  /\ IF object = etag[p]
     THEN object' = "none" /\ Goto(p, "rmConfirm")
     ELSE UNCHANGED object /\ (Refused(p) \/ (object = "none" /\ Goto(p, "rmConfirm")))
  /\ UNCHANGED <<row, Rest, faults>>

RemoveConfirm(p) ==
  /\ pc[p] = "rmConfirm"
  /\ IF object = "none"
     THEN Goto(p, Removed(p))
     ELSE Refused(p)
  /\ UNCHANGED <<row, object, Rest, faults>>

-----------------------------------------------------------------------------
(* purgeIncomingToFence *)

\* A cleanup that failed is tried again.
PurgeLedger(p) ==
  /\ p \in Purgers /\ pc[p] \in {"idle", "failed"}
  /\ pc' = [pc EXCEPT ![p] = "head"]
  /\ seen' = [seen EXCEPT ![p] = SeenOf(row)]
  /\ UNCHANGED <<row, object, etag, Rest, faults>>

\* Mutant: a purge does not ask whose claim it is.
PurgeHead_AnyRun(p) ==
  /\ p \in Purgers /\ pc[p] = "head"
  /\ Remember(p, object,
       IF ~seen[p].there \/ phase # "valid" THEN (IF object = "none" THEN "done" ELSE "rmHead")
       ELSE IF object = "fence" THEN "persist" ELSE "put")
  /\ UNCHANGED <<row, object, Rest, faults>>

PurgeHead(p) ==
  /\ p \in Purgers /\ pc[p] = "head"
  /\ Remember(p, object,
       IF seen[p].there /\ seen[p].run # RunOf[p] THEN "failed"
       ELSE IF ~seen[p].there \/ phase # "valid" THEN (IF object = "none" THEN "done" ELSE "rmHead")
       ELSE IF object = "fence" THEN "persist" ELSE "put")
  /\ UNCHANGED <<row, object, Rest, faults>>

\* Mutant: a refused fence is taken for one that is there.
PurgePut_Trusts(p) ==
  /\ pc[p] = "put"
  /\ object' = (IF object = etag[p] THEN "fence" ELSE object) /\ Goto(p, "persist")
  /\ UNCHANGED <<row, Rest, faults>>

PurgePut(p) ==
  /\ pc[p] = "put"
  /\ IF object = etag[p]
     THEN object' = "fence" /\ Goto(p, "confirm")
     ELSE UNCHANGED object /\ Goto(p, "rehead")
  /\ UNCHANGED <<row, Rest, faults>>

\* Another upload or fence won the race.
PurgeRehead(p) ==
  /\ pc[p] = "rehead"
  /\ Remember(p, object, CASE object = "none" -> "failed"
               [] object = "fence" -> "confirm"
               [] OTHER -> "reput")
  /\ UNCHANGED <<row, object, Rest, faults>>

PurgeReput(p) ==
  /\ pc[p] = "reput"
  /\ IF object = etag[p]
     THEN object' = "fence" /\ Goto(p, "confirm")
     ELSE UNCHANGED object /\ Goto(p, "failed")
  /\ UNCHANGED <<row, Rest, faults>>

PurgeConfirm(p) ==
  /\ pc[p] = "confirm"
  /\ Goto(p, IF object = "fence" THEN "persist" ELSE "failed")
  /\ UNCHANGED <<row, object, Rest, faults>>

\* persistFenceOrRemove: a sweep has raised the version or taken the row.
PersistFence(p) ==
  /\ pc[p] = "persist"
  /\ IF row.there /\ row.version = seen[p].version
     THEN row' = [row EXCEPT !.status = "fenced"] /\ Goto(p, "done")
     ELSE UNCHANGED row /\ Goto(p, "rmHead")
  /\ UNCHANGED <<object, Rest, faults>>

-----------------------------------------------------------------------------
(* sweepExpiredIncoming *)

\* Mutant: a grant is swept as soon as it has expired.
Due_AtExpiry == row.there /\ phase # "valid" /\ row.lease = Nobody

\* Mutant: only a grant nobody claimed is swept.
Due_Unclaimed == row.there /\ phase = "due" /\ row.lease = Nobody /\ row.status = "issued"

\* A lease that has run out counts as none.
Due == row.there /\ phase = "due" /\ row.lease = Nobody

SweepList(s) ==
  /\ s \in Sweepers /\ pc[s] \in {"idle", "failed"} /\ Due
  /\ pc' = [pc EXCEPT ![s] = "lease"]
  /\ seen' = [seen EXCEPT ![s] = SeenOf(row)]
  /\ UNCHANGED <<row, object, etag, Rest, faults>>

SweepLease(s) ==
  /\ pc[s] = "lease"
  /\ IF Due /\ row.version = seen[s].version
     THEN /\ row' = [row EXCEPT !.version = @ + 1, !.lease = s]
          /\ Goto(s, "rmHead")
     ELSE UNCHANGED row /\ Goto(s, "idle")
  /\ UNCHANGED <<object, Rest, faults>>

\* A minute after it was taken, whether its sweep still runs or not.
LeaseElapses ==
  /\ row.lease # Nobody /\ faults < MaxFaults /\ faults' = faults + 1
  /\ row' = [row EXCEPT !.lease = Nobody]
  /\ UNCHANGED <<object, parties, Rest>>

SweepDeleteRow(s) ==
  /\ pc[s] = "deleteRow"
  /\ row' = IF row.lease = s THEN [row EXCEPT !.there = FALSE, !.lease = Nobody] ELSE row
  /\ Goto(s, "idle")
  /\ UNCHANGED <<object, Rest, faults>>

SweepRelease(s) ==
  /\ pc[s] = "release"
  /\ row' = IF row.lease = s THEN [row EXCEPT !.version = @ + 1, !.lease = Nobody] ELSE row
  /\ Goto(s, "idle")
  /\ UNCHANGED <<object, Rest, faults>>

\* The lease of a sweep that died runs out in the end.
LeaseOfDead ==
  /\ row.lease # Nobody /\ pc[row.lease] = "failed"
  /\ row' = [row EXCEPT !.lease = Nobody]
  /\ UNCHANGED <<object, parties, Rest, faults>>

-----------------------------------------------------------------------------
(* Time *)

Expire ==
  /\ phase = "valid" /\ phase' = "grace"
  /\ UNCHANGED <<row, object, client, granted, misread, parties, faults>>

BecomeDue ==
  /\ phase = "grace" /\ flying = {} /\ phase' = "due"
  /\ UNCHANGED <<row, object, client, granted, misread, parties, faults>>

PurgeStep(p) ==
  \/ PurgeHead(p) \/ PurgePut(p) \/ PurgeRehead(p) \/ PurgeReput(p)
  \/ PurgeConfirm(p) \/ PersistFence(p)

RemoveStep(p) == RemoveHead(p) \/ RemoveDelete(p) \/ RemoveConfirm(p)

SweepStep(s) == SweepLease(s) \/ SweepDeleteRow(s) \/ SweepRelease(s)

Next ==
  \/ \E body \in Bodies : StartPut(body) \/ LandPut(body)
  \/ \E r \in Runs : ClaimIncoming(r) \/ ClaimReplayed(r) \/ ClaimLost(r) \/ Read(r)
  \/ \E p \in Purgers : PurgeLedger(p) \/ PurgeStep(p)
  \/ \E s \in Sweepers : SweepList(s) \/ SweepStep(s)
  \/ \E p \in Procs : RemoveStep(p) \/ Fault(p)
  \/ LeaseElapses \/ LeaseOfDead \/ Expire \/ BecomeDue

Spec == Init /\ [][Next]_vars

\* Time passes, bodies land or break off, sweeps are invoked on a schedule and
\* what they do ends. Nothing is assumed of clients, runs and purges.
Fairness ==
  /\ WF_vars(Expire) /\ WF_vars(BecomeDue) /\ WF_vars(LeaseOfDead)
  /\ WF_vars(\E body \in Bodies : LandPut(body))
  /\ \A s \in Sweepers : /\ SF_vars(SweepList(s))
                         /\ WF_vars(SweepStep(s)) /\ WF_vars(RemoveStep(s))

FairSpec == Spec /\ Fairness

-----------------------------------------------------------------------------
(* Properties *)

TypeOK ==
  /\ row \in Rows /\ object \in Objects /\ phase \in {"valid", "grace", "due"}
  /\ flying \subseteq Bodies /\ puts \in 0..MaxPuts
  /\ granted \in [Runs -> BOOLEAN] /\ misread \in BOOLEAN
  /\ pc \in [Procs -> Steps] /\ seen \in [Procs -> [there : BOOLEAN, run : Runs \cup {Nobody}, version : Nat]]
  /\ etag \in [Procs -> Objects] /\ faults \in 0..MaxFaults

\* Uploaded bytes never outlive the row a later sweep would find them by,
\* however purges and sweeps of one object interleave.
RawIsTracked == object \in Bodies => row.there

\* One upload serves one run: two runs are never both told that it is theirs,
\* across a lost acknowledgement and its replay.
OneRunClaims == \A r, s \in Runs : granted[r] /\ granted[s] => r = s

\* What the signed URL may upload, it may upload again: while it is good, a
\* grant that was purged keeps a fence in its place.
FencedStaysFenced == row.there /\ row.status = "fenced" /\ phase = "valid" => object = "fence"

\* A worker is given the bytes its grant declares, or none: whatever the URL
\* was used for, and whenever a purge fell between.
ReadIsDeclared == ~misread

\* A run that lost the claim cannot purge the winner's bytes: they leave the
\* bucket before their grant is due only by a purge of the run that holds it: of every
\* step.
OnlyHolderPurges ==
  object \in Bodies /\ object' # object /\ phase # "due" =>
    \E p \in Purgers : RunOf[p] = row.run /\ (PurgeStep(p) \/ RemoveStep(p))

\* All of that of a state.
GrantIsSafe == RawIsTracked /\ OneRunClaims /\ FencedStaysFenced /\ ReadIsDeclared

\* Every grant and every byte uploaded with it has to go in the end, though no
\* run ever claims it and every purge fails.
NothingIsLeft == ~row.there /\ object \notin Bodies
=============================================================================
