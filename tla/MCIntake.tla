------------------------------ MODULE MCIntake ------------------------------
(***************************************************************************)
(* Instances of TicketIntake for TLC.                                      *)
(***************************************************************************)
EXTENDS IntakeClaims, TLC

CONSTANTS p1, p2, c1

SamePriority == (p1 :> 1) @@ (p2 :> 1)
Everything == [p \in Projects |-> Tickets]
AllQuiet == {"pages", "seconds", "listed"}
SettledQuiet == {"seconds", "listed"}
PollsApart == {"polls", "health"}
FirstOnly == {{p1}}
OneEach == (p1 :> {1}) @@ (p2 :> {2})
=============================================================================
