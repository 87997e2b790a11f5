CONSTANTS
  p0 = p0
  p1 = p1
  p2 = p2
  a = a
  b = b
  Process = {p0, p1}
  process0 = p0
  Frames = 11
  PageSize = 2
  TableSize = 2
  Tables = 3
  Increments = {0, 1, 2}
  Programs <- AllPrograms
  Value = {a, b}
  MaxCalls = 5
SPECIFICATION Spec
INVARIANT FramesExclusive
PROPERTIES SuccessLosesNothing ImplementsPrivateMemory
CHECK_DEADLOCK FALSE
