SPECIFICATION RegFairSpec
CONSTANTS
  ADDR = 2
  Depth = 4
  Data <- MCData
INVARIANT NoOverrun
PROPERTIES PointersSpec SeenCellsStable QueueSpec
