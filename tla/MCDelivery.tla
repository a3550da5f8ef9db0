----------------------------- MODULE MCDelivery -----------------------------
(***************************************************************************)
(* Instances of Delivery for TLC.                                          *)
(***************************************************************************)
EXTENDS Delivery, TLC

EveryPlan == {<<"githubPr">>, <<"patch", "gitlabPush">>}
AllFaults == {"commands", "answers", "disk", "locked", "crash"}
=============================================================================
