SPECIFICATION PSpec
CONSTANTS
  Rings = 2
  RING = 1
  MaxLines <- TwiceOnce
  Worker = {b1}
  QUEUE = 1
  Loops = 2
  Budget <- OneFault
INVARIANT StopWrites
CHECK_DEADLOCK FALSE
