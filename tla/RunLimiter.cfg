\* A hook, a plain call and two auxiliary tasks that share one permit and a
\* budget that holds only one of their larger requests.
CONSTANTS
  Plain = {p}
  Auxiliary = {a, b}
  Hooks = {h}
  Slots = 2
  MaxToolCalls = 3
  MaxAuxiliary = 2
  MaxTokens = 4
  Amounts = {1, 3}
  Reports = {0, 4}
  Unreported = Unreported
  p = p a = a b = b h = h
SPECIFICATION PolledSpec
INVARIANTS
  LedgerExact
  SpendingBounded
  ReportedIsFirst
PROPERTIES
  MeteredRunEnds
CHECK_DEADLOCK FALSE
