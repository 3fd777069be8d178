--------------------------- MODULE MCRunAdmission ---------------------------
(***************************************************************************)
(* RunAdmission on two small instances over the same variables: the        *)
(* creating request, a second one (a replay, a DELETE or a cleanup retry)  *)
(* and maintenance race without a fault ("race"); one request and          *)
(* maintenance, in the mode where nothing reaches Workflow, with two       *)
(* faults and longer times ("faults").  A behaviour is one of one          *)
(* instance, fair as maintenance is in it; the properties speak of the     *)
(* state only, so that each is checked in both.                            *)
(***************************************************************************)
EXTENDS RunAdmission

VARIABLE part

admission == <<part, vars>>

Faulty == INSTANCE RunAdmission WITH
  Api <- {Creator}, LocalMode <- TRUE, MaxFaults <- 2,
  LeaseTicks <- 2, CadenceTicks <- 2

AdmissionInit ==
  \/ part = "race" /\ Init
  \/ part = "faults" /\ Faulty!Init

Race == part = "race" /\ Next /\ UNCHANGED part
Misfortune == part = "faults" /\ Faulty!Next /\ UNCHANGED part

\* The step A of the race, or B of the other instance, by whichever is running.
Either(A, B) ==
  \/ part = "race" /\ A /\ UNCHANGED part
  \/ part = "faults" /\ B /\ UNCHANGED part

\* The Fairness of RunAdmission, of each instance.
AdmissionFairness ==
  /\ WF_admission(Either(Tick, Faulty!Tick))
  /\ WF_admission(Either(LeaseElapses, Faulty!LeaseElapses))
  /\ WF_admission(Either(SweepGrant, Faulty!SweepGrant))
  /\ \A c \in Cron : WF_admission(Either(CallerStep(c), Faulty!CallerStep(c)))

AdmissionSpec ==
  AdmissionInit /\ [][Race \/ Misfortune]_admission /\ AdmissionFairness
=============================================================================
