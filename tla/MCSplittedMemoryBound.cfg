CONSTANTS
  PageSize = 4
  HeaderSize = 1
  Length = 4
  Sizes = {0, 1, 3, 5}
SPECIFICATION Spec
INVARIANTS KernelAndPagesDisjoint
CHECK_DEADLOCK FALSE
