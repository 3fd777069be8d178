---------------------------- MODULE MCProcessing ----------------------------
(***************************************************************************)
(* RunProcessing on three small instances over the same variables: two     *)
(* workers and two cleaners that race for one upload ("takeover"), one     *)
(* worker that parses three URLs in two batches while a cleaner looks on   *)
(* ("batches"), and two workers that outlive their lease wherever they     *)
(* are, with one URL and one cleaner ("outlived").                         *)
(* In the first two a worker whose lease has elapsed has stopped, or is in *)
(* a paid call.  A behaviour is one of one instance; the properties speak  *)
(* of the workers and documents of the state, so that each is checked in   *)
(* all three, but for those that a worker which outlives its lease breaks. *)
(***************************************************************************)
EXTENDS RunProcessing, TLC

CONSTANTS loneWorker, loneCleaner

VARIABLE part

OneWorker == {loneWorker}
OneCleaner == {loneCleaner}

Batches == INSTANCE RunProcessing WITH
  N <- 3, Uploads <- {}, Worker <- OneWorker, Cleaner <- OneCleaner

Outlived == INSTANCE RunProcessing WITH
  Uploads <- {}, Cleaner <- OneCleaner, Zombies <- TRUE

\* The workers of an instance are interchangeable, and so are its cleaners.
Symmetry == Permutations(Worker) \cup Permutations(Cleaner)

ProcessingInit ==
  \/ part = "takeover" /\ Init
  \/ part = "batches" /\ Batches!Init
  \/ part = "outlived" /\ Outlived!Init

TakeOver == part = "takeover" /\ Next /\ UNCHANGED part
ParseBatches == part = "batches" /\ Batches!Next /\ UNCHANGED part
Outlive == part = "outlived" /\ Outlived!Next /\ UNCHANGED part

ProcessingNext == TakeOver \/ ParseBatches \/ Outlive

ProcessingSpec == ProcessingInit /\ [][ProcessingNext]_<<part, vars>>

-----------------------------------------------------------------------------
LeasesAreKept == part # "outlived"

\* No deletion, by whichever of the five code paths, takes a staging object
\* away while the parser may still be downloading it.
SourceOutlivesFetch == LeasesAreKept => DownloadsAreStaged

\* A run that ended, with a result or without, has no source left anywhere, and
\* no late write of its worker brings one back.
EndedRunHasNoSource == LeasesAreKept => EndIsEmpty

\* The model is called only after every source of the run is gone.
ModelNeverSeesSource == LeasesAreKept => ModelComesLast
=============================================================================
