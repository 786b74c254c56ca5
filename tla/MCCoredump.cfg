SPECIFICATION FairSpec
CONSTANTS
  Dumps <- MCDumps
  Junk <- MCJunk
  CrcWidth = 2
  Crcs <- MCCrcs
  MaxMsgs = 7
INVARIANTS TypeOK AckMeansWhole ReadIsStored
PROPERTIES NoNackAfterAck StalledDumpTimesOut
CHECK_DEADLOCK FALSE
