\* Two guarded calls of one tool side by side, then a guarded call alone; one
\* permission fits and the epochs run out.
CONSTANTS
  ToolOf <- Round
  Parallel = {"classify"}
  Guarded = {"classify", "edit"}
  HookSets <- Hooks
  MaxGrants = 1
  MaxEpoch = 2
SPECIFICATION PolledSpec
INVARIANTS
  CheckpointsDelivered
PROPERTIES
  WithdrawnNeverStarts
  NoLateGrant
  QuestionsResolve
CHECK_DEADLOCK FALSE
