CONSTANTS
  Key = {"lshift", "rctrl", "altgr", "caps", "alt", "letter", "arrow"}
  Capacity = 3
  MaxStrokes = 5
SPECIFICATION KeySpec
INVARIANTS ShiftFollowsKey CapsFollowsPresses DecodedAsTyped
