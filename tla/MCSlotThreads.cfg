SPECIFICATION FairSpec
CONSTANTS
  q1 = q1
  q2 = q2
  q3 = q3
  Requests <- ThreeRequests
  Limits <- OneOnly
  Ttl = 3
  Faults <- OnlyCrashes
INVARIANT
  AgentsHaveLeases
PROPERTY
  WaitersServed
