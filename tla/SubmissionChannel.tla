-------------------------- MODULE SubmissionChannel --------------------------
(***************************************************************************)
(* How a package comes to name one channel for the submission of bids      *)
(* (src/lib/analysis/submission-channel.ts): pages are cut into windows,   *)
(* the windows are packed into batches, the model adjudicates each batch,  *)
(* its answers are held against what was asked, and what is left decides.  *)
(* A statement is a span of a page; the model reports a statement where    *)
(* the window shows it whole and owns its middle.  It may lose, repeat or  *)
(* mix up whole answers and whole windows; what it says of a window is     *)
(* true.  How many statements it may report of a window is fixed before:   *)
(* by the known words of channels that the window owns, which need not be  *)
(* where the statements have their middles.                                *)
(***************************************************************************)
EXTENDS Integers, FiniteSets

CONSTANTS
  Channels,
  Modalities,     \* "required", "permitted", "prohibited" and "prohibited_if" (on a condition)
  Length,         \* of every page
  Core, Halo,     \* SUBMISSION_CORE_UTF16, SUBMISSION_CONTEXT_HALO_UTF16
  MaxQuote,       \* MAX_SUBMISSION_QUOTE_UTF16
  MaxUnits,       \* MAX_SUBMISSION_COVERAGE_UNITS: windows of a package
  MaxRelations,   \* MAX_SUBMISSION_RELATIONS_PER_UNIT: statements of a window
  MaxStatements,  \* bound: statements of a package
  MaxSlips        \* bound: what goes wrong with the answers

SubmissionAssumption ==
  /\ {Core, MaxQuote, MaxUnits, MaxRelations} \subseteq Nat \ {0}
  /\ {Length, Halo, MaxStatements, MaxSlips} \subseteq Nat
  /\ MaxQuote <= 2 * Halo

VARIABLES
  package,  \* the number of its amendment, the statements, the known words of channels,
            \* and whether a page is missing
  batchOf,  \* the batch of every window, 0 where the windows were not packed
  turn,     \* the batch to be adjudicated
  answers,  \* what came back: a set of answers for each batch
  records,  \* the windows that were verified, each with its relations, and the reasons against
  verdict

vars == <<package, batchOf, turn, answers, records, verdict>>

Documents == {"base", "amendment"}
Batches == 1..2
Spans == {s \in (0..Length) \X (0..Length) : s[1] < s[2] /\ s[2] - s[1] <= MaxQuote}
Statements == [doc : Documents, span : Spans, channel : Channels, modality : Modalities]
Words == [doc : Documents, span : {<<x, x + 1>> : x \in 0..(Length - 1)}, channel : Channels]

-----------------------------------------------------------------------------
(* The ledger *)

Smaller(a, b) == IF a < b THEN a ELSE b
Larger(a, b) == IF a > b THEN a ELSE b
Starts == {x \in 0..(Length - 1) : x % Core = 0}

\* pageOwnershipCores: the cores part the page, and each is shown with its halo.
Window(doc, x) ==
  LET end == Smaller(Length, x + Core) IN
  [doc |-> doc, core |-> <<x, end>>,
   shown |-> <<Larger(0, x - Halo), Smaller(Length, end + Halo)>>]

Windows == {Window(doc, x) : doc \in Documents, x \in Starts}

Middle(span) == span[1] + (span[2] - span[1] - 1) \div 2
Owns(w, s) == w.doc = s.doc /\ w.core[1] <= Middle(s.span) /\ Middle(s.span) < w.core[2]
Shows(w, s) == w.doc = s.doc /\ w.shown[1] <= s.span[1] /\ s.span[2] <= w.shown[2]

\* The known words whose own middle is in the core make room, and there is room for one.
Mentions(w) == {m \in package.words : Owns(w, m)}
Capacity(w) == Smaller(MaxRelations, Larger(1, Cardinality(Mentions(w))))

\* capacity_exceeded: too many windows or words, or a word that no window owns and shows.
Exceeded ==
  \/ Cardinality(Windows) > MaxUnits
  \/ \E w \in Windows : Cardinality(Mentions(w)) > MaxRelations
  \/ \E m \in package.words : \A w \in Windows : ~(Owns(w, m) /\ Shows(w, m))

\* One base, amendments numbered from one, no page missing, and every window in a batch.
LedgerReason ==
  CASE Exceeded \/ (\E w \in Windows : batchOf[w] = 0) -> {"capacity"}
    [] OTHER -> IF package.pageMissing THEN {"incomplete_page_coverage"}
                ELSE IF package.amendment # 1 THEN {"invalid_amendment_metadata"} ELSE {}

\* The word a statement begins or ends with.
Begins(s) == [doc |-> s.doc, span |-> <<s.span[1], s.span[1] + 1>>, channel |-> s.channel]
Ends(s) == [doc |-> s.doc, span |-> <<s.span[2] - 1, s.span[2]>>, channel |-> s.channel]

\* Statements may name their channel by unknown words, and words may stand alone; what is
\* wrong with the documents comes one at a time. A ledger that exceeds its limits is not
\* packed, nor one that the requests cannot hold.
Init ==
  /\ \E some \in {{}} \cup {{s} : s \in Statements} \cup
             {{s, t} : s \in Statements, t \in Statements} :
       /\ Cardinality(some) <= MaxStatements
       /\ \E amendment \in 1..2, missing \in BOOLEAN,
             words \in {{}, {Begins(s) : s \in some}, {Ends(s) : s \in some}, Words} :
            /\ amendment = 1 \/ ~missing
            /\ words = {} \/ (amendment = 1 /\ ~missing)
            /\ package = [amendment |-> amendment, pageMissing |-> missing, statements |-> some,
                          words |-> words]
  /\ \/ batchOf = [w \in Windows |-> 0]
     \/ /\ ~Exceeded
        /\ batchOf \in {[w \in Windows |-> IF w.doc = "base" THEN 1 ELSE 2],
                        [w \in Windows |-> IF w.core[1] = 0 THEN 1 ELSE 2]}
  /\ turn = 1 /\ answers = [b \in Batches |-> {}]
  /\ records = [verified |-> {}, relations |-> {}, reasons |-> {"unasked"}]
  /\ verdict = [status |-> "open", channel |-> "none"]

-----------------------------------------------------------------------------
(* The model *)

Asked(b) == {w \in Windows : batchOf[w] = b}
Reported(w) == {s \in package.statements : Owns(w, s) /\ Shows(w, s)}
Told(b) == {<<w, Reported(w)>> : w \in Asked(b)}

\* The prompt: a window whose statements it has no room for is called uncertain.
Crowded(w) == Cardinality(Reported(w)) > Capacity(w)

Honest(b) ==
  [manifest |-> b, told |-> Told(b), twice |-> {}, copy |-> 0,
   uncertain |-> {w \in Asked(b) : Crowded(w)}]

\* Nothing, twice, for another batch, a window left out, twice or uncertain, and a
\* relation that a window shows without owning it.
Slips(b) ==
  {{}} \cup {{Honest(b), [Honest(b) EXCEPT !.copy = 1]}}
  \cup {{[Honest(b) EXCEPT !.manifest = 0]}}
  \cup {{[Honest(b) EXCEPT !.told = Told(b) \ {d}]} : d \in Told(b)}
  \cup {{[Honest(b) EXCEPT !.twice = {w}]} : w \in Asked(b)}
  \cup {{[Honest(b) EXCEPT !.uncertain = @ \cup {w}]} : w \in Asked(b)}
  \cup {{[Honest(b) EXCEPT !.told = (Told(b) \ {d}) \cup {<<d[1], d[2] \cup {s}>>}]} :
          d \in Told(b), s \in {s \in package.statements : \E w \in Asked(b) : Shows(w, s)}}

Slipped == Cardinality({b \in Batches : b < turn /\ answers[b] # {Honest(b)}})

\* The batches are sent in turn, and all answers are kept.
Adjudicate ==
  /\ turn \in Batches /\ turn' = turn + 1
  /\ \E answer \in {{Honest(turn)}} \cup (IF Slipped < MaxSlips THEN Slips(turn) ELSE {}) :
       answers' = [answers EXCEPT ![turn] = answer]
  /\ UNCHANGED <<package, batchOf, records, verdict>>

-----------------------------------------------------------------------------
(* verifySubmissionAdjudication *)

BatchReason(b) ==
  CASE answers[b] = {} -> {"missing_batch"}
    [] Cardinality(answers[b]) > 1 -> {"duplicate_batch"}
    [] \E a \in answers[b] : a.manifest # b -> {"batch_manifest_mismatch"}
    [] OTHER -> {}

TheAnswer(b) == CHOOSE a \in answers[b] : TRUE
Decisions(w) == {d \in TheAnswer(batchOf[w]).told : d[1] = w}

\* validateRelation: in the window, and its middle in the core.
RelationReason(w, s) ==
  IF ~Shows(w, s) THEN {"offset_mismatch"} ELSE IF ~Owns(w, s) THEN {"ownership_mismatch"} ELSE {}

RelationReasons(w, d) ==
  IF Cardinality(d[2]) > Capacity(w) THEN {"capacity"}
  ELSE UNION {RelationReason(w, s) : s \in d[2]} \cup
       {r \in {"overlap_disagreement"} : \E s, t \in d[2] : s # t /\ s.span = t.span}

\* Mutant: a window nothing was said of says nothing.
WindowReason_Silent(w) ==
  CASE BatchReason(batchOf[w]) # {} -> BatchReason(batchOf[w])
    [] Decisions(w) = {} -> {}
    [] w \in TheAnswer(batchOf[w]).twice -> {"duplicate_candidate"}
    [] w \in TheAnswer(batchOf[w]).uncertain -> {"semantic_uncertainty"}
    [] OTHER -> UNION {RelationReasons(w, d) : d \in Decisions(w)}

WindowReason(w) ==
  CASE BatchReason(batchOf[w]) # {} -> BatchReason(batchOf[w])
    [] Decisions(w) = {} -> {"missing_candidate"}
    [] w \in TheAnswer(batchOf[w]).twice -> {"duplicate_candidate"}
    [] w \in TheAnswer(batchOf[w]).uncertain -> {"semantic_uncertainty"}
    [] OTHER -> UNION {RelationReasons(w, d) : d \in Decisions(w)}

Verify ==
  /\ records.reasons = {"unasked"} /\ turn \notin Batches
  /\ records' =
       IF LedgerReason # {}
         THEN [verified |-> {}, relations |-> {}, reasons |-> LedgerReason]
         ELSE LET verified == {w \in Windows : WindowReason(w) = {}} IN
              [verified |-> verified,
               relations |-> UNION {UNION {d[2] : d \in Decisions(w)} : w \in verified},
               reasons |-> UNION {WindowReason(w) : w \in Windows}]
  /\ UNCHANGED <<package, batchOf, turn, answers, verdict>>

Complete == records.reasons = {} /\ records.verified = Windows

-----------------------------------------------------------------------------
(* resolveVerifiedSubmissionChannel *)

Positive(relations) == {r \in relations : r.modality \in {"required", "permitted"}}
Signatures(relations, doc) == {<<r.channel, r.modality>> : r \in {r \in Positive(relations) : r.doc = doc}}

\* An amendment that speaks of the channel says again what the base says.
Restated(relations) ==
  Signatures(relations, "amendment") # {} =>
    /\ Signatures(relations, "amendment") = Signatures(relations, "base")
    /\ \E r \in relations : r.doc = "amendment" /\ r.modality = "required"

Possible(relations) == {r.channel : r \in Positive(relations)}
Ruled(relations, modality) == {r.channel : r \in {r \in relations : r.modality = modality}}

Status(relations) ==
  LET possible == Possible(relations) IN
  CASE ~Restated(relations) -> "unresolved"
    [] Restated(relations) /\ possible = {} -> "none"
    [] Restated(relations) /\ Cardinality(possible) > 1 -> "multiple"
    [] OTHER -> IF possible \subseteq Ruled(relations, "prohibited") THEN "contradicted"
                ELSE IF possible \subseteq Ruled(relations, "required") THEN "unique"
                ELSE "possible_only"

\* The draft of the analysis may name channels too; an amendment whose effect on the
\* channel is not settled leaves it open.
Resolve ==
  /\ verdict.status = "open" /\ records.reasons # {"unasked"}
  /\ \E draft \in SUBSET Channels, mutation \in BOOLEAN :
       LET relations == records.relations
           agrees == draft = {} \/ (Possible(relations) = draft /\ Cardinality(draft) = 1)
           status == IF Complete /\ ~mutation /\ agrees THEN Status(relations) ELSE "unresolved" IN
       verdict' = [status |-> status,
                   channel |-> IF status = "unique" THEN CHOOSE c \in Possible(relations) : TRUE ELSE "none"]
  /\ UNCHANGED <<package, batchOf, turn, answers, records>>

Next == Adjudicate \/ Verify \/ Resolve

Spec == Init /\ [][Next]_vars

-----------------------------------------------------------------------------
(* Properties *)

NamesOnly(relations, c) ==
  /\ Possible(relations) = {c} /\ c \in Ruled(relations, "required")
  /\ c \notin Ruled(relations, "prohibited") /\ Restated(relations)

\* Nothing went wrong with the ledger or the answers, every window has room for the
\* statements whose middle it owns, and no span says two things.
Untroubled ==
  /\ LedgerReason = {}
  /\ \A b \in Batches : answers[b] = {Honest(b)}
  /\ \A w \in Windows : ~Crowded(w)
  /\ \A s, t \in package.statements : s.doc = t.doc /\ s.span = t.span => s = t

\* A verdict other than "unresolved" is the verdict of the whole package, whatever of it
\* was not seen, had no room, was seen twice or answered for something else, and a
\* channel is called the only one only where the package names it alone.  And only such
\* things keep a package from its verdict: where none happened every window is
\* verified, and what they tell together is what the package says, the statements over
\* the edge of two cores included.
ChannelIsTrue ==
  /\ verdict.status \notin {"open", "unresolved"} => verdict.status = Status(package.statements)
  /\ verdict.status = "unique" => NamesOnly(package.statements, verdict.channel)
  /\ records.reasons # {"unasked"} /\ Untroubled => Complete /\ records.relations = package.statements
=============================================================================
