-------------------------- MODULE MCRunProcessing --------------------------
(* RunProcessing on the smallest instances that show a finding. *)
EXTENDS RunProcessing
=============================================================================
