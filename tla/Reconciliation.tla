--------------------------- MODULE Reconciliation ---------------------------
(***************************************************************************)
(* How the facts that the documents of a package state of one topic become *)
(* what the analysis says (reconcileVersionedFacts of                      *)
(* src/lib/analysis/reconciliation.ts): the base and its amendments are    *)
(* taken in order, a stage at a time; an amendment takes earlier facts     *)
(* away only where its own words do.  Groups of facts do not affect each   *)
(* other: the model is of one.  What the expressions over the words of a   *)
(* citation decide is an input of each fact.                               *)
(***************************************************************************)
EXTENDS Integers, Sequences, FiniteSets

CONSTANTS
  Kinds,     \* of groups: "sourced", "deadline", "horizon", "annex", "topic"
  Values,    \* <<token, wording>>: the number or date asserted (0: none) and the words
  MaxStage,  \* bound: amendments
  MaxFacts   \* bound: facts of the group

ReconciliationAssumption == MaxStage \in Nat /\ MaxFacts \in Nat /\ Values \subseteq Nat \X Nat

VARIABLES
  kind,      \* what the identity of the group comes from
  facts,     \* in the order of compareFacts
  cursor,    \* facts already taken
  status,    \* of each fact; "open" until it is decided
  active,    \* what holds after the stages taken
  conflict,  \* the candidates of the conflict in hand
  reported   \* the group is over, and with which conflict

vars == <<kind, facts, cursor, status, active, conflict, reported>>

AnyValue == CHOOSE v \in Values : TRUE

\* cited: every citation is verified and of this document; bound: the source acts, in
\* affirmative words, on this very key, and towards this value.  Both are left out
\* where the code does not come to look.
Stated(stage) ==
  [stage : {stage}, effect : {"add"}, value : Values, cited : {TRUE}, bound : {TRUE}]
  \cup [stage : {stage}, effect : {"replace"}, value : Values, cited : {TRUE}, bound : BOOLEAN]
  \cup [stage : {stage}, effect : {"delete"}, value : {AnyValue}, cited : {TRUE}, bound : BOOLEAN]
  \cup [stage : {stage}, effect : {"add", "replace", "delete"}, value : {AnyValue},
        cited : {FALSE}, bound : {FALSE}]

Index == DOMAIN facts

Init ==
  /\ kind \in Kinds
  /\ facts = <<>> /\ cursor = 0
  /\ status = <<>> /\ active = {} /\ conflict = {} /\ reported = <<>>

\* The drafts of the model, sorted: base first, amendments by number.
State ==
  /\ cursor = 0 /\ reported = <<>> /\ Len(facts) < MaxFacts
  /\ \E stage \in 0..MaxStage : \E fact \in Stated(stage) :
       /\ facts # <<>> => facts[Len(facts)].stage <= stage
       /\ facts' = Append(facts, fact) /\ status' = Append(status, "open")
  /\ UNCHANGED <<kind, cursor, active, conflict, reported>>

-----------------------------------------------------------------------------

\* Mutant: an amendment takes an earlier fact away on the model's word.
Authorized_Claimed(i) == facts[i].effect = "add" \/ facts[i].stage > 0

\* mutationIsSourceAuthorized: an amendment that says so and cites it; a deadline is
\* named by its date, anything else needs a key and something before it.
Authorized(i) ==
  LET fact == facts[i] IN
  \/ fact.effect = "add"
  \/ /\ fact.stage > 0 /\ fact.cited /\ fact.bound
     /\ kind = "deadline" \/ (kind \in {"sourced", "annex"} /\ i > 1)

Mutates(i) == facts[i].cited /\ facts[i].effect # "add" /\ Authorized(i)
Candidates(stage) == {i \in stage : facts[i].cited /\ facts[i].effect # "delete" /\ Authorized(i)}

Of(some) == {facts[i].value : i \in some}
Tokens(some) == {v[1] : v \in Of(some)}

SharedIdentity(some) == Cardinality(some) > 1 /\ kind # "topic"

\* Mutant: values that differ are compared where an amendment replaces only.
ScalarValuesConflict_Never(some) == FALSE

ScalarValuesConflict(some) ==
  SharedIdentity(some) /\ 0 \notin Tokens(some) /\ Cardinality(Tokens(some)) > 1

ReplacementValuesConflict(some) == SharedIdentity(some) /\ \E i \in some : facts[i].effect = "replace"

CategoricalValuesConflict(some) == kind = "annex" /\ Cardinality(Of(some)) > 1

ConflictAtStage(some) ==
  /\ Cardinality(Of(some)) > 1
  /\ ReplacementValuesConflict(some) \/ ScalarValuesConflict(some) \/ CategoricalValuesConflict(some)

NextStage == {i \in Index : i > cursor /\ facts[i].stage = facts[cursor + 1].stage}

\* One stage: what is replaced goes, with the conflict it was in; the candidates of the
\* stage stand, as a conflict where they differ.
ReconcileStage ==
  /\ cursor < Len(facts)
  /\ LET stage == NextStage
         replaces == \E i \in stage : Mutates(i)
         candidates == Candidates(stage)
         conflicted == ConflictAtStage(candidates) IN
     /\ cursor' = cursor + Cardinality(stage)
     /\ active' = (IF replaces THEN {} ELSE active) \cup candidates
     /\ conflict' = IF conflicted THEN candidates ELSE IF replaces THEN {} ELSE conflict
     /\ status' = [i \in Index |->
          CASE i \in candidates -> IF conflicted THEN "conflicted" ELSE "active"
            [] i \in stage \ candidates -> "superseded"
            [] replaces /\ i \in active -> "superseded"
            [] OTHER -> status[i]]
  /\ UNCHANGED <<kind, facts, reported>>

\* The end of the group: what stands and was stated in different stages may differ too.
EndGroup ==
  /\ facts # <<>> /\ cursor = Len(facts) /\ reported = <<>>
  /\ LET differ == conflict = {} /\ (ScalarValuesConflict(active) \/ CategoricalValuesConflict(active)) IN
     /\ reported' = <<IF differ THEN active ELSE conflict>>
     /\ status' = IF differ THEN [i \in Index |-> IF i \in active THEN "conflicted" ELSE status[i]] ELSE status
  /\ UNCHANGED <<kind, facts, cursor, active, conflict>>

Next == State \/ ReconcileStage \/ EndGroup

Spec == Init /\ [][Next]_vars

-----------------------------------------------------------------------------
(* Properties *)

\* What the package says in its own words: the source acts on it in an amendment.
Acts(i) ==
  /\ facts[i].effect # "add" /\ facts[i].stage > 0 /\ facts[i].cited /\ facts[i].bound
  /\ kind \in {"deadline", "sourced", "annex"} /\ (kind = "deadline" \/ i > 1)

TakenAway(i) == \E j \in Index : Acts(j) /\ facts[j].stage > facts[i].stage

Holds(i) ==
  /\ facts[i].cited /\ facts[i].effect # "delete" /\ ~TakenAway(i)
  /\ facts[i].effect = "replace" => Acts(i)

\* The analysis states what the package says and no later amendment took away, all of
\* it and nothing else; and where all of that has a number or date and they are not
\* one, a conflict is reported over them, as well as only where facts are in conflict.
FactsAreReconciled ==
  reported # <<>> =>
    /\ \A i \in Index : Holds(i) <=> status[i] \in {"active", "conflicted"}
    /\ (reported[1] # {}) <=> (\E i \in Index : status[i] = "conflicted")
    /\ LET standing == {i \in Index : Holds(i)} IN
       kind # "topic" /\ 0 \notin Tokens(standing) /\ Cardinality(Tokens(standing)) > 1 => reported[1] # {}
    /\ \A i \in reported[1] : Holds(i)
=============================================================================
