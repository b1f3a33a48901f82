SPECIFICATION CardSpec
CONSTANTS
  Traffic <- MCTraffic
  MinLen = 2
  MaxLen = 4
  Limit = 6
  FcsBytes = 1
  DstBytes = 1
  Modes <- Normal
  Apart = 2
  Pace = 2
  HeldFor = 2
  Gap = 2
  Texts <- TwoTexts
  Offsets <- TwoOffsets
  Top = 4
  TxHeldFor = 3
INVARIANTS WholeFrame RbbaMeansBOlder
PROPERTIES KeepsOut SentIsTaken ComesBack
