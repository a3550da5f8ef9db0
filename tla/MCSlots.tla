------------------------------ MODULE MCSlots ------------------------------
(***************************************************************************)
(* Instances of LlmSlots for TLC.                                          *)
(***************************************************************************)
EXTENDS LlmSlots, TLC

CONSTANTS q1, q2, q3

ThreeRequests == {q1, q2, q3}
OneOnly == {1}
OneTwo == {1, 2}
AllFaults == {"delay", "locked", "crash"}
OnlyCrashes == {"crash"}

\* Requests are interchangeable in every safety property.
Interchangeable == Permutations(Requests)
=============================================================================
