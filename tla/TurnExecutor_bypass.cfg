\* Input hooks, and a raw reservation made before they are bound.
CONSTANTS
  MaxPendingInputs = 1
  MaxPendingBytes = 3
  Sizes = {1}
  MaxId = 2
  MaxCustom = 2
  ExecutorPipeline = "hooks"
  MaxRounds = 1
  MaxCalls = 0
  Direct = {}
  Prepared <- PlainInputs
  LifecycleHooks = FALSE
  Finalizers = FALSE
  Budgets = FALSE
SPECIFICATION TurnSpec
INVARIANTS
  NoRawInputApplied
CHECK_DEADLOCK FALSE
