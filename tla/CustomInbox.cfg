\* Two runs of two sessions against an inbox of three messages.
SPECIFICATION Spec
CONSTANTS
  Runs = {r1, r2}
  Sessions = {"s", "t"}
  MaxEntries = 3
  MaxId = 6
SYMMETRY Runners
INVARIANTS
  NextTurnKept
CHECK_DEADLOCK FALSE
