----------------------------- MODULE Attestation -----------------------------
(***************************************************************************)
(* What a production deployment rests on while it pays providers           *)
(* (src/lib/health/workflow-runtime.ts, provider-contracts.ts and the      *)
(* release scripts scripts/attest-*.mjs): receipts that a script writes    *)
(* for one deployment and that run out, and the capability an analysis     *)
(* step makes of them and spends later. One deployment is looked at; what  *)
(* belongs to another one may still be found under its key.                *)
(***************************************************************************)
EXTENDS Integers

CONSTANTS
  Contracts,       \* provider contracts and keys a deployment may be built with
  Installed,       \* what this deployment was built with
  Lifetimes,       \* of the receipts a script may be asked for
  MaxAge,          \* the longest a receipt may be good for
  Skew,            \* MAX_FUTURE_SKEW: how far the clock of a writer may be ahead
  MinRemaining,    \* PROVIDER_CONTRACTS_MIN_REMAINING_MS
  Deadline,        \* result_commit: how long a worker goes on after its check
  LastTime

AttestationAssumption ==
  /\ Installed \in Contracts
  /\ \A n \in {MaxAge, Skew, MinRemaining, Deadline, LastTime} : n \in Nat
  /\ Lifetimes \subseteq 1..MaxAge
  /\ Deadline <= MinRemaining /\ MinRemaining < MaxAge

VARIABLES
  now,
  offered,   \* the contract the provider offers
  receipt,   \* rows of release_attestations under the key of this deployment, by kind
  checked,   \* when the installed contract was last found to be the offered one
  worker     \* one analysis step: its stage, its capabilities, when it checked them

vars == <<now, offered, receipt, checked, worker>>

Kinds == {"runtime", "contracts"}
Never == -1

\* A row may be altered after it was written: its hash then does not fit.
NoReceipt == [there |-> FALSE, ours |-> FALSE, contract |-> Installed, issued |-> 0, expires |-> 0,
              intact |-> FALSE]

Idle == [stage |-> "idle", runtime |-> Never, contracts |-> Never, since |-> Never]

Init ==
  /\ now = 0
  /\ offered \in Contracts
  /\ receipt = [k \in Kinds |-> NoReceipt]
  /\ checked = Never
  /\ worker = Idle

-----------------------------------------------------------------------------
(* The release scripts *)

Written(contract, ahead, ttl) ==
  [there |-> TRUE, ours |-> TRUE, contract |-> contract,
   issued |-> now + ahead, expires |-> now + ahead + ttl, intact |-> TRUE]

\* attest-vercel-runtime.mjs: the deployment is inspected, no provider is asked.
AttestRuntime(ahead, ttl) ==
  /\ receipt' = [receipt EXCEPT !["runtime"] = Written(Installed, ahead, ttl)]
  /\ UNCHANGED <<now, offered, checked, worker>>

\* attest-provider-contracts.mjs: what the environment of the script configures is
\* compared with what the provider offers, and stored for a deployment that may
\* have been built with something else.  The script takes the time of issue a
\* moment after its checks; they are one instant here, and both kinds of receipt
\* have one greatest age.
AttestContracts(ahead, ttl) ==
  /\ checked' = IF offered = Installed THEN now ELSE checked
  /\ receipt' = [receipt EXCEPT !["contracts"] = Written(offered, ahead, ttl)]
  /\ UNCHANGED <<now, offered, worker>>

\* A row is altered by hand, or the receipt of another deployment put in its place.
Alter(k) ==
  /\ receipt[k].there
  /\ receipt' \in {[receipt EXCEPT ![k].intact = FALSE], [receipt EXCEPT ![k].ours = FALSE]}
  /\ UNCHANGED <<now, offered, checked, worker>>

Drift(c) ==
  /\ c # offered /\ offered' = c
  /\ UNCHANGED <<now, receipt, checked, worker>>

-----------------------------------------------------------------------------
(* The probes *)

\* Mutant: a receipt is good until it expires, whatever it is needed for.
Remaining_None(k) == 0

\* How much longer than now a receipt must be good.
Remaining(k) == IF k = "contracts" THEN MinRemaining ELSE 0

Plausible(r) ==
  r.intact /\ r.issued <= now + Skew /\ r.expires > r.issued /\ r.expires - r.issued <= MaxAge

\* Mutant: the contract of the receipt is not compared with the installed one.
Binds_Deployment(k, r) == r.ours

Binds(k, r) == r.ours /\ (k = "contracts" => r.contract = Installed)

\* probeWorkflowRuntimeAttestation, probeProviderContractsAttestation: expiry is
\* looked at before the deployment is.
Probe(k) ==
  LET r == receipt[k]
  IN CASE ~r.there -> "configured_unattested"
       [] r.there /\ ~Plausible(r) -> "mismatch"
       [] r.there /\ Plausible(r) /\ r.expires <= now + Remaining(k) -> "expired"
       [] r.there /\ Plausible(r) /\ r.expires > now + Remaining(k) ->
            IF Binds(k, r) THEN "attested" ELSE "mismatch"

-----------------------------------------------------------------------------
(* An analysis step *)

\* processRunStep validates both receipts and keeps them as capabilities.
StartStep ==
  /\ worker.stage = "idle"
  /\ \A k \in Kinds : Probe(k) = "attested"
  /\ worker' = [stage |-> "capable", runtime |-> receipt["runtime"].expires,
                contracts |-> receipt["contracts"].expires, since |-> Never]
  /\ UNCHANGED <<now, offered, receipt, checked>>

\* Mutant: a capability that was valid once is not looked at again.
Spendable_Once(k, expires) == TRUE

\* The worker is still the same deployment: only the expiry can have come closer.
Spendable(k, expires) == expires > now + Remaining(k)

\* processRun looks at the capabilities again before it takes the lease.
SpendCapabilities ==
  /\ worker.stage = "capable"
  /\ worker' = IF Spendable("runtime", worker.runtime) /\ Spendable("contracts", worker.contracts)
               THEN [worker EXCEPT !.stage = "paying", !.since = now]
               ELSE Idle
  /\ UNCHANGED <<now, offered, receipt, checked>>

FinishStep ==
  /\ worker.stage # "idle" /\ worker' = Idle
  /\ UNCHANGED <<now, offered, receipt, checked>>

\* A worker has stopped paying when its deadline is reached.
Tick ==
  /\ now < LastTime /\ now' = now + 1
  /\ worker' = IF worker.stage = "paying" /\ now + 1 > worker.since + Deadline
               THEN Idle ELSE worker
  /\ UNCHANGED <<offered, receipt, checked>>

Next ==
  \/ \E ahead \in 0..Skew, ttl \in Lifetimes : AttestRuntime(ahead, ttl) \/ AttestContracts(ahead, ttl)
  \/ \E k \in Kinds : Alter(k)
  \/ \E c \in Contracts : Drift(c)
  \/ StartStep \/ SpendCapabilities \/ FinishStep \/ Tick

Spec == Init /\ [][Next]_vars

-----------------------------------------------------------------------------
(* Properties *)

\* While a worker may pay a provider, the contract its deployment was built with was
\* found to be the provider's no longer ago than a receipt may be old, the writer's
\* clock ahead included: however long the delivery took, whatever was rewritten or
\* altered meanwhile, and up to the last moment before its deadline.
PaidContractWasChecked ==
  worker.stage = "paying" =>
    checked # Never /\ now < checked + MaxAge + Skew
=============================================================================
