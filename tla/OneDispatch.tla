---------------------------- MODULE OneDispatch ----------------------------
(***************************************************************************)
(* What the permanent dispatch claim of a Workflow promises its callers    *)
(* (docs comment at src/lib/runs/scheduler.ts:79): however many callers    *)
(* ask, the service is asked at most once, it starts at most one Workflow, *)
(* and what the row says of it is true: "accepted" only of a Workflow that *)
(* was started, "never" only of one that never will be.                    *)
(***************************************************************************)
EXTENDS Naturals

VARIABLES
  claimed,   \* somebody holds the right to dispatch
  sent,      \* the service was asked
  accepted,  \* the service has started the Workflow
  said       \* what the row says of it

vars == <<claimed, sent, accepted, said>>

Init ==
  /\ claimed = FALSE /\ sent = FALSE /\ accepted = FALSE
  /\ said = "nothing"

Claim ==
  /\ ~claimed /\ claimed' = TRUE
  /\ UNCHANGED <<sent, accepted, said>>

Send ==
  /\ claimed /\ ~sent /\ said \in {"nothing", "forgotten"}
  /\ sent' = TRUE
  /\ accepted' \in BOOLEAN
  /\ UNCHANGED <<claimed, said>>

Accept ==
  /\ sent /\ ~accepted /\ accepted' = TRUE
  /\ UNCHANGED <<claimed, sent, said>>

Say ==
  /\ claimed /\ said # "forgotten"
  /\ said' \in {"unsure"} \cup (IF accepted THEN {"accepted"} ELSE {})
                          \cup (IF ~sent THEN {"never"} ELSE {})
  /\ UNCHANGED <<claimed, sent, accepted>>

\* The run is scrubbed for audit; nobody can claim it afterwards.
Forget ==
  /\ claimed' = TRUE /\ said' = "forgotten"
  /\ UNCHANGED <<sent, accepted>>

Next == Claim \/ Send \/ Accept \/ Say \/ Forget

Spec == Init /\ [][Next]_vars
============================================================================
