CONSTANTS
  Process = {p0, p1, p2, p3}
  NULL = NULL
  Process0 = p0
  TicksBetweenReschedulings = 2
  TickBits = 2
  MaxPid = 5
SPECIFICATION FairSpec
INVARIANTS
  CpuRunsCurrent
  ReadyContextsValid
  ListInPidOrder
  ForkResults
  UserModeInterruptible
PROPERTIES
  ZeroOnFirstDispatchOnly
  NoStarvation
CHECK_DEADLOCK FALSE
