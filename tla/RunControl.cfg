\* Two reservations of two sizes, whose futures are polled.
CONSTANTS
  MaxPendingInputs = 2
  MaxPendingBytes = 3
  Sizes = {1, 2}
  MaxId = 3
  MaxCustom = 1
  ExecutorPipeline = "none"
SPECIFICATION PolledSpec
INVARIANTS
  TypeOK
  InputsConserved
  ReservationOrder
  NoLostWakeup
  SlotGuarded
  BytesConserved
PROPERTIES
  ClosedIsFinal
  ReservationsResolve
CHECK_DEADLOCK FALSE
