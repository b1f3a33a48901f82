SPECIFICATION Spec
CONSTANTS
  MaxFaults = 2
  StrLengths = {1, 2, 3, 16}
  RteLengths = {1, 2, 3, 13}
  TickMode = 5
  MonitorLoad = 6
  TickLoad = 4
  FastLoad = 2
  LongWatch = 10
  ShortWatch = 9
  RmwIters = 5
  ByteSize = 4
  ChainLimit = 6
  BigXfer = 3
  LongSect = 2
  ManySect = 9
  NLong = 4
  Blk = 2
  NSec = 2
  WPS = 2
  PosMod = 4
  MemWords = 4
  LoopWords = 3
  NetBuf = 3
  NetTotal = 6
INVARIANTS NoFalseAlarm NothingMissed RestLeftAsFound NeverConflicts CountsTrue
PROPERTY Finishes
CHECK_DEADLOCK FALSE
