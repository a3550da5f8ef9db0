----------------------------- MODULE MCCohorts -----------------------------
(***************************************************************************)
(* Instances of BaselineCohorts for TLC.                                   *)
(***************************************************************************)
EXTENDS BaselineCohorts, TLC

CONSTANTS r1, r2, r3

ThreeRuns == {r1, r2, r3}
DelaysAndCrashes == {"delay", "crash"}
LocksAndCrashes == {"locked", "crash"}

\* Runs are interchangeable in every safety property.
Interchangeable == Permutations(Runs)
=============================================================================
