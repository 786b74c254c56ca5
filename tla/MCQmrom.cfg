SPECIFICATION Spec
CONSTANTS
  Retries = 2
  ChunkSize <- MCChunkSize
  Sizes <- MCSizes
  MaxFaults = 2
  None = None
INVARIANTS SuccessMeansSent DownloadStartsFresh DataIsAskedFor
PROPERTY DownloadEnds
