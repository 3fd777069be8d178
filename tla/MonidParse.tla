----------------------------- MODULE MonidParse -----------------------------
(***************************************************************************)
(* The documents of one run at the paid parser (MonidAdapter in            *)
(* src/lib/providers/monid.ts, and the worker of src/lib/pipeline.ts that  *)
(* calls it): one adapter, whose check of the cost contract the documents  *)
(* share, a POST that starts a run of the provider, the polls of that run, *)
(* the artifact it leaves, and what the worker books, records and removes  *)
(* afterwards.  Every call may be lost; the provider goes on regardless.   *)
(***************************************************************************)
EXTENDS Integers, FiniteSets

CONSTANTS
  Docs,
  Reserve,     \* MONID_PARSE_RESERVE_MICRO_USD
  Costs,       \* what the provider may charge for a document
  MaxPolls,
  MaxRedirects,
  MaxFaults    \* bound: calls that fail or are lost

MonidAssumption ==
  /\ Reserve \in Nat /\ Costs \subseteq 0..Reserve
  /\ MaxPolls \in Nat \ {0} /\ MaxRedirects \in Nat /\ MaxFaults \in Nat

VARIABLES
  offered,   \* the contract the provider offers: "pinned", or another one
  contract,  \* the promise of validateCurrentCostContract
  pc,        \* where the worker of each document is
  count,     \* its polls, then its redirects
  provider,  \* the provider's run of each document
  wire,      \* documents whose POST is still on its way
  access,    \* the signed URL of the source is good
  ledger,    \* the record of the attempt: its state and the cost booked for it
  source,    \* the source is in the bucket
  faults

vars == <<offered, contract, pc, count, provider, wire, access, ledger, source, faults>>

NoProviderRun == [status |-> "none", nested |-> TRUE, cost |-> 0]
Statuses == {"none", "running", "completed", "ended"}
NoAttempt == [state |-> "none", booked |-> 0]

Init ==
  /\ offered \in {"pinned", "another"}
  /\ contract = "unasked"
  /\ pc = [d \in Docs |-> "contract"] /\ count = [d \in Docs |-> 0]
  /\ provider = [d \in Docs |-> NoProviderRun]
  /\ wire = {} /\ access = [d \in Docs |-> TRUE]
  /\ ledger = [d \in Docs |-> NoAttempt]
  /\ source = [d \in Docs |-> TRUE]
  /\ faults = 0

Fault == faults < MaxFaults /\ faults' = faults + 1
Move(d, step) == pc' = [pc EXCEPT ![d] = step]
Counted(d, step, n) == Move(d, step) /\ count' = [count EXCEPT ![d] = n]
Outside == <<provider, wire, access>>
Durable == <<ledger, source>>

-----------------------------------------------------------------------------
(* Before the POST *)

\* Mutant: an inspection that fails lets the parse go on without provenance.
ValidateContract_Optional(d) ==
  /\ pc[d] = "contract" /\ contract # "refused"
  /\ \/ contract' = "valid" /\ UNCHANGED faults
     \/ Fault /\ UNCHANGED contract
  /\ Move(d, "mark")
  /\ UNCHANGED <<offered, count, Outside, Durable>>

\* One inspection for all documents of the adapter; its rejection is kept as well.
ValidateContract(d) ==
  /\ pc[d] = "contract"
  /\ \/ /\ contract = "unasked"
        /\ \/ contract' = (IF offered = "pinned" THEN "valid" ELSE "refused") /\ UNCHANGED faults
           \/ contract' = "refused" /\ Fault
     \/ contract # "unasked" /\ UNCHANGED <<contract, faults>>
  /\ Move(d, IF contract' = "valid" THEN "mark" ELSE "failed")
  /\ UNCHANGED <<offered, count, Outside, Durable>>

Booked(d, state, amount) == ledger' = [ledger EXCEPT ![d] = [state |-> state, booked |-> amount]]

\* Mutant: the attempt is recorded, its reserve is booked when it ends.
MarkStarted_Unbooked(d) ==
  /\ pc[d] = "mark"
  /\ Booked(d, "started", 0) /\ Move(d, "post") /\ UNCHANGED faults
  /\ UNCHANGED <<offered, contract, count, Outside, source>>

\* beforePaidDispatch: the last thing before the POST, in one write of the run. A
\* write that may have happened stops the parse without a call.
MarkStarted(d) ==
  /\ pc[d] = "mark"
  /\ \/ Booked(d, "started", Reserve) /\ Move(d, "post") /\ UNCHANGED faults
     \/ Fault /\ Move(d, "failed") /\ (UNCHANGED ledger \/ Booked(d, "started", Reserve))
  /\ UNCHANGED <<offered, contract, count, Outside, source>>

-----------------------------------------------------------------------------
(* The paid call *)

Started(d) ==
  \E cost \in Costs, nested \in BOOLEAN :
    provider' = [provider EXCEPT ![d] = [status |-> "running", nested |-> nested, cost |-> cost]]

Post(d) ==
  /\ pc[d] = "post" /\ Started(d) /\ Counted(d, "poll", 0)
  /\ UNCHANGED <<offered, contract, wire, access, Durable, faults>>

\* No answer, a redirect, an HTTP error or an answer that names no run.
PostLost(d) ==
  /\ pc[d] = "post" /\ Fault /\ Move(d, "unknown")
  /\ \/ Started(d) /\ UNCHANGED wire
     \/ wire' = wire \cup {d} /\ UNCHANGED provider
     \/ UNCHANGED <<provider, wire>>
  /\ UNCHANGED <<offered, contract, count, access, Durable>>

\* Mutant: a run that is not over is polled for ever.
PollsAreOut_Never(d) == FALSE

PollsAreOut(d) == count[d] + 1 = MaxPolls

PollAgain(d) ==
  IF PollsAreOut(d) THEN Counted(d, "unknown", 0)
                    ELSE Counted(d, "poll", (count[d] + 1) % MaxPolls)

Poll(d) ==
  /\ pc[d] = "poll"
  /\ CASE provider[d].status = "running" -> PollAgain(d)
       [] provider[d].status = "ended" -> Counted(d, "terminal", 0)
       [] provider[d].status = "completed" ->
            Counted(d, IF provider[d].nested THEN "artifact" ELSE "terminal", 0)
  /\ UNCHANGED <<offered, contract, Outside, Durable, faults>>

\* The worker cannot tell what became of the provider's run.
PollLost(d) ==
  /\ pc[d] = "poll" /\ Fault /\ Counted(d, "unknown", 0)
  /\ UNCHANGED <<offered, contract, Outside, Durable>>

\* Every hop of the artifact is checked before it is asked, and hops are counted.
FetchArtifact(d) ==
  /\ pc[d] = "artifact"
  /\ \/ Counted(d, "parsed", 0) /\ UNCHANGED faults
     \/ Fault /\ IF count[d] < MaxRedirects THEN Counted(d, "artifact", count[d] + 1)
                                            ELSE Counted(d, "unknown", 0)
     \/ Fault /\ Counted(d, "unknown", 0)
  /\ UNCHANGED <<offered, contract, Outside, Durable>>

-----------------------------------------------------------------------------
(* What the worker makes of it *)

\* A cost that the checked contract does not vouch for is no actual cost.
Actual(d) == {provider[d].cost, Reserve}

\* Mutant: an attempt whose end is not known is taken for one that is over.
Captured_Unknown(d) == pc[d] \in {"parsed", "terminal", "unknown"}

Captured(d) == pc[d] \in {"parsed", "terminal"}

Capture(d) ==
  /\ Captured(d)
  /\ \/ (\E cost \in Actual(d) : Booked(d, "captured", cost)) /\ Move(d, "remove") /\ UNCHANGED faults
     \/ Fault /\ Move(d, "kept") /\ UNCHANGED ledger
     \/ Fault /\ Move(d, "kept") /\ (\E cost \in Actual(d) : Booked(d, "captured", cost))
  /\ UNCHANGED <<offered, contract, count, Outside, source>>

\* Nothing was paid, or the outcome is recorded: the source goes. Otherwise it is
\* kept for the watchdog.
Remove(d) ==
  /\ pc[d] \in {"failed", "remove"}
  /\ \/ source' = [source EXCEPT ![d] = FALSE] /\ Move(d, "over") /\ UNCHANGED faults
     \/ Fault /\ Move(d, "over") /\ UNCHANGED source
  /\ UNCHANGED <<offered, contract, count, Outside, ledger>>

Keep(d) ==
  /\ pc[d] \in {"unknown", "kept"} /\ Move(d, "over")
  /\ UNCHANGED <<offered, contract, count, Outside, Durable, faults>>

-----------------------------------------------------------------------------
(* The provider, the watchdog and time *)

StartLate(d) ==
  /\ d \in wire /\ wire' = wire \ {d}
  /\ Started(d)
  /\ UNCHANGED <<offered, contract, pc, count, access, Durable, faults>>

ProviderEnds(d) ==
  /\ provider[d].status = "running"
  /\ \E status \in {"completed", "ended"} : provider' = [provider EXCEPT ![d].status = status]
  /\ UNCHANGED <<offered, contract, pc, count, wire, access, Durable, faults>>

\* The signed URL runs out; what was read with it is no longer asked for.
AccessEnds(d) ==
  /\ access[d] /\ access' = [access EXCEPT ![d] = FALSE]
  /\ UNCHANGED <<offered, contract, pc, count, provider, wire, Durable, faults>>

\* The watchdog waits for the capture or for the end of the access.
WatchdogRemoves(d) ==
  /\ source[d] /\ ledger[d].state # "none" /\ (ledger[d].state = "captured" \/ ~access[d])
  /\ source' = [source EXCEPT ![d] = FALSE]
  /\ UNCHANGED <<offered, contract, pc, count, Outside, ledger, faults>>

Worker(d) ==
  \/ ValidateContract(d) \/ MarkStarted(d) \/ Post(d) \/ PostLost(d) \/ Poll(d) \/ PollLost(d)
  \/ FetchArtifact(d) \/ Capture(d) \/ Remove(d) \/ Keep(d)

Next ==
  \E d \in Docs :
    \/ Worker(d) \/ StartLate(d) \/ ProviderEnds(d) \/ AccessEnds(d) \/ WatchdogRemoves(d)

Spec == Init /\ [][Next]_vars

\* The worker goes on; nothing is assumed of the provider and of the watchdog.
Fairness == \A d \in Docs : WF_vars(Worker(d))

FairSpec == Spec /\ Fairness

-----------------------------------------------------------------------------
(* Properties *)

\* Whatever the provider charges for a document is on the books before it can be
\* charged and as long as its amount is not known, and nothing is charged under a
\* contract the adapter did not find to be the pinned one.
PaidIsBooked ==
  \A d \in Docs : provider[d].status # "none" \/ d \in wire =>
    /\ ledger[d].state # "none" /\ ledger[d].booked >= provider[d].cost
    /\ contract = "valid" /\ offered = "pinned"

\* A source is not removed under a provider that may still read it: its run has
\* ended, or its URL has.
SourceOutlivesRun ==
  \A d \in Docs : ~source[d] /\ access[d] /\ d \notin wire => provider[d].status # "running"

\* Every parse has to end, though the provider never does.
IsOver == \A d \in Docs : pc[d] = "over"
=============================================================================
