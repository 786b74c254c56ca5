SPECIFICATION Spec
CONSTANTS
  Clients = {c1, c2}
  Unbinders = {}
  Layers = {uci, tst}
  EchoLayers = {tst}
  Blocks = {b1, b2}
  None = None
  MaxErrors = 1
  MaxOut = 1
SYMMETRY Symmetry
INVARIANTS
  TypeOK
  UnregisteredIsUnreferenced
  StoppedIsOffBus
  StackWorkIsAlive
  AcceptedBlockIsHeldOnce
  IrqIsBalanced
PROPERTIES
  ImplementsService
