SPECIFICATION FairSpec
CONSTANTS
  Clients = {c1, c2}
  Unbinders = {c1}
  Layers = {uci}
  EchoLayers = {}
  Blocks = {b1}
  None = None
  MaxErrors = 1
  MaxOut = 1
PROPERTIES
  BlockedCallsReturn
  AcceptedBlocksAreSent
  OutputIsFetched
