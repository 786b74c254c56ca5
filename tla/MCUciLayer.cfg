SPECIFICATION FairSpec
CONSTANTS
  r1 = r1
  w1 = w1
  w2 = w2
  b1 = b1
  b2 = b2
  b3 = b3
  None = None
  Readers = {r1}
  Writers = {w1, w2}
  Blocks = {b1, b2, b3}
  BlkPackets = 3
  MaxPackets = 5
INVARIANTS BlockHasOneOwner DataIsAlive ListIsTheStream
PROPERTY WaitingReaderWakes
