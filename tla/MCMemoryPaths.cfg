SPECIFICATION FairPaths
CONSTANTS
  Lines = {a1, a2}
  Byte <- MCByte
  ReqDepth = 1
  RspDepth = 1
  Tags = 2
INVARIANT RoomForTheAnswer
PROPERTIES SerialMemorySpec HeldAcross PhaseAnswered Settles
