---------------------------- MODULE IntakeClaims ----------------------------
(***************************************************************************)
(* What the documents say of the intake and the code does not do.          *)
(***************************************************************************)
EXTENDS TicketIntake

\* docs/design-spec.md:259-260: a pipeline takes the tickets created since its
\* intakeStartedAt; the cursor only makes polling cheaper and is no boundary of
\* its own.  So no ticket of a pipeline lies behind the cursor without a task.
NothingPassedOver ==
  \A t \in Tickets :
    Wanted(t) /\ cursor # NoCursor /\ ~ After(modified[t], cursor)
      => tasks[t] # NoTask
=============================================================================
