-------------------------- MODULE DeliveryPromise --------------------------
(***************************************************************************)
(* What delivery promises of the remote repository, for one frozen change: *)
(* a branch is created once and never overwritten, a target branch gets at *)
(* most one pull request, for a branch that is there, the run is completed *)
(* only when every result its final actions want exists, and nothing is    *)
(* delivered after that.                                                   *)
(***************************************************************************)
EXTENDS Naturals

CONSTANTS
  Branches,  \* the branches the change may be pushed to
  Targets,   \* those that also need a pull request
  Commits    \* what a branch can hold; 0 is a branch that does not exist

VARIABLES
  wanted,    \* the branches the final actions of the run want
  branch,    \* what each branch holds
  pulls,     \* how many pull requests each target has
  completed  \* the run is completed

vars == <<wanted, branch, pulls, completed>>

Init ==
  /\ wanted \in SUBSET Branches
  /\ branch = [b \in Branches |-> 0]
  /\ pulls = [t \in Targets |-> 0]
  /\ completed = FALSE

Push(b) ==
  /\ ~ completed
  /\ b \in wanted
  /\ branch[b] = 0
  /\ \E c \in Commits : branch' = [branch EXCEPT ![b] = c]
  /\ UNCHANGED <<wanted, pulls, completed>>

OpenPull(t) ==
  /\ ~ completed
  /\ branch[t] # 0
  /\ pulls[t] = 0
  /\ pulls' = [pulls EXCEPT ![t] = 1]
  /\ UNCHANGED <<wanted, branch, completed>>

Complete ==
  /\ ~ completed
  /\ \A b \in wanted : branch[b] # 0 /\ (b \in Targets => pulls[b] = 1)
  /\ completed' = TRUE
  /\ UNCHANGED <<wanted, branch, pulls>>

Next ==
  \/ \E b \in Branches : Push(b)
  \/ \E t \in Targets : OpenPull(t)
  \/ Complete

Spec == Init /\ [][Next]_vars
=============================================================================
