\* Deferred context, steering and follow-ups, with lifecycle hooks and a compactor.
CONSTANTS
  MaxPendingInputs = 2
  MaxPendingBytes = 3
  Sizes = {1}
  MaxId = 3
  MaxCustom = 2
  ExecutorPipeline = "none"
  MaxRounds = 2
  MaxCalls = 0
  Direct = {"Steer", "FollowUp"}
  Prepared <- ContextInputs
  LifecycleHooks = TRUE
  Finalizers = FALSE
  Budgets = FALSE
SPECIFICATION TurnSpec
INVARIANTS
  CompletedConsumed
  OutcomeComplete
  OneFollowUpPerCompletion
  CancelHonoured
  JournalOrder
PROPERTIES
  FifoPerKind
  LifecycleSpec
CHECK_DEADLOCK FALSE
