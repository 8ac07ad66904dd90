\* A migration that is tried again after an interruption, and a power loss.
SPECIFICATION Spec
CONSTANTS
  h1 = h1
  h2 = h2
  Handles <- Processes
  MaxWrites = 2
  MaxLeases = 1
INVARIANTS
  OriginalSurvives
CHECK_DEADLOCK FALSE
