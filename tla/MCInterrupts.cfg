CONSTANTS
  k = k
  init = init
  p1 = p1
  Process = {k, init, p1}
  Boot = k
  KernelProcess = {init}
  Lines = {0, 1, 14}
  Exceptions = {14, 18}
SPECIFICATION IrqSpec
INVARIANTS InServiceOnlyAtEntry OnlyFaultsNest
PROPERTIES PendingIsServed
CHECK_DEADLOCK FALSE
