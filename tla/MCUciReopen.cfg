SPECIFICATION Spec
CONSTANTS
  r1 = r1
  w1 = w1
  b1 = b1
  b2 = b2
  None = None
  Readers = {r1}
  Writers = {w1}
  Blocks = {b1, b2}
  BlkPackets = 2
  MaxPackets = 3
INVARIANT ClosedIsEmpty
