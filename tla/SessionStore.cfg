\* Three appends and two leases between two processes, a legacy file or a v3 one.
SPECIFICATION Spec
CONSTANTS
  h1 = h1
  h2 = h2
  Handles <- Processes
  MaxWrites = 3
  MaxLeases = 2
PROPERTIES
  LogSpec
  OwnerExclusive
  ReplacedOnlyBackedUp
CHECK_DEADLOCK FALSE
