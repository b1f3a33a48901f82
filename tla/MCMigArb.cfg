SPECIFICATION FairSpec
CONSTANTS
  Lines = {a1, a2}
  Byte <- MCByte
  MigDepth = 2
INVARIANT WaitsForOneAtMost
PROPERTIES SerialMemorySpec Served
