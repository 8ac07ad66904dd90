\* One hook that generates, and a host that cancels.
CONSTANTS
  Plain = {p}
  Auxiliary = {}
  Hooks = {h}
  Slots = 4
  MaxToolCalls = 1
  MaxAuxiliary = 1
  MaxTokens = 4
  Amounts = {1, 3}
  Reports = {0, 4}
  Unreported = Unreported
  p = p h = h
SPECIFICATION Spec
INVARIANT FirstConditionWins
CHECK_DEADLOCK FALSE
