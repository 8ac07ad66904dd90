\* A planned and a plain use of one connection whose channel holds one request.
SPECIFICATION FairSpec
CONSTANTS
  c1 = c1
  c2 = c2
  Clients <- Uses
  Planned <- Prepared
  MaxQueued = 1
INVARIANTS
  ExecutionReported
PROPERTIES
  PlansReclaimed
CHECK_DEADLOCK FALSE
