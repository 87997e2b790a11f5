CONSTANTS
  TicksBetweenReschedulings = 5
  TickBits = 3
  WordBits = 3
  MaxTicks = 20
  WaitTicks = {1, 3}
SPECIFICATION FairSpec
INVARIANTS QuantumBounded
PROPERTIES WaitsLongEnoughWithoutCarry WaitReturns
CHECK_DEADLOCK FALSE
