SPECIFICATION Spec
CONSTANTS
  q1 = q1
  q2 = q2
  q3 = q3
  Requests <- ThreeRequests
  Limits <- OneTwo
  Ttl = 2
  Faults <- AllFaults
INVARIANTS
  TypeOK
  SlotsExclusive
PROPERTIES
  GrantWithinCapacity
  PromiseKept
  LeaseEndsProperly
SYMMETRY Interchangeable
