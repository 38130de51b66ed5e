CONSTANTS
  Size = 16
  Bits = 3
  Start = 14
  MaxTicks = 4
  MaxMessages = 1
SPECIFICATION Spec
CHECK_DEADLOCK FALSE
INVARIANTS ContainedIsReplicated
