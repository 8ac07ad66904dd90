\* Two calls behind approvals, with steering, budgets and message finalizers;
\* everybody else may stop answering.
CONSTANTS
  MaxPendingInputs = 1
  MaxPendingBytes = 3
  Sizes = {1}
  MaxId = 4
  MaxCustom = 2
  ExecutorPipeline = "none"
  MaxRounds = 2
  MaxCalls = 2
  Direct = {"Steer"}
  Prepared = {}
  LifecycleHooks = FALSE
  Finalizers = TRUE
  Budgets = TRUE
SPECIFICATION PolledTurnSpec
INVARIANTS
  ApprovalsSerial
  ModelSeesAcknowledged
PROPERTIES
  ControlSpec
  ClosedRunEnds
CHECK_DEADLOCK FALSE
