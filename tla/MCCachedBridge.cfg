SPECIFICATION Spec
CONSTANTS
  MemLines = {l1, l2}
  Fb = {fb}
  Alias <- MCAlias
  NSets = 1
  SetOf <- OneSet
  TagOf <- OwnTags
  Bytes <- OneByte
  Byte = {b0, b1}
  ReqDepth = 1
  RspDepth = 1
  Tags = 2
SYMMETRY ByteSymmetry
INVARIANTS CacheCoherent
PROPERTY SerialMemorySpec
