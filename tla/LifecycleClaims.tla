-------------------------- MODULE LifecycleClaims --------------------------
(***************************************************************************)
(* What docs/design-spec.md says of tasks and runs and TaskLifecycle, the  *)
(* model of the code, does not do.                                         *)
(***************************************************************************)
EXTENDS TaskLifecycle

\* 15.1: a canceled run starts no new stage, least of all its delivery.  When
\* cancel_task reads "queued" and writes after the claim, the pipeline finds no
\* cancel request and goes on to the end.
CanceledIsNotDelivered ==
  [][\A r \in RunIds :
       pc[r] # "deliver" /\ pc'[r] = "deliver" => runStatus[r] # "canceled"]_vars
=============================================================================
