CONSTANTS
  PageSize = 3
  HeaderSize = 1
  Length = 5
  Sizes = {1, 2, 4}
SPECIFICATION Spec
INVARIANTS HeapTiled Coalesced BlocksBacked PagesAccounted BoundsSeparate
CHECK_DEADLOCK FALSE
