--------------------------- MODULE MCMaintenance ---------------------------
(* Two runs of one owner, one at work and one that has ended, and a pass that  *)
(* finds them: nothing is stuck, and yet the pass does not get through.        *)
EXTENDS Maintenance
CONSTANTS r1, r2, p1
TwoRuns == {r1, r2}
OnePass == {p1}
SameOwner == [r \in Runs |-> r1]
NobodyStuck == {}
============================================================================
