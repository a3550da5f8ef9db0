SPECIFICATION FairSpec
CONSTANTS
  NumTargets = 2
  Plans <- EveryPlan
  Faults <- AllFaults
INVARIANTS
  TypeOK
  SuccessIsReal
  FallbackIsWhole
PROPERTIES
  PromiseKept
  IntentFirst
  SucceededIsKept
  RetriesDeliver
CHECK_DEADLOCK FALSE
