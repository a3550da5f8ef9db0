---------------------------- MODULE MCLifecycle ----------------------------
(***************************************************************************)
(* Instances of TaskLifecycle for TLC: sets of model values and symmetry.  *)
(***************************************************************************)
EXTENDS LifecycleClaims, TLC

CONSTANTS t1, t2, t3, v1, v2, v3, c1, c2

OneTask == {t1}
ThreeTasks == {t1, t2, t3}
OneVersion == {v1}
ThreeVersions == {v1, v2, v3}
OneClient == {c1}
Anything == {"start", "cancel", "retry", "mode"}
OnlyRetries == {"retry"}
AnyOrder == {}
OneByOne == {<<t1, t2>>, <<t2, t3>>}
AnyRoute == {"unrouted", "ineligible", "matched"}
OnlyMatched == {"matched"}
TwoClients == {c1, c2}
NoClients == {}

\* Tasks, versions and clients are interchangeable in every safety property.
Interchangeable ==
  Permutations(Tasks) \cup Permutations(Versions) \cup Permutations(Clients)
=============================================================================
