SPECIFICATION FairPaths
CONSTANTS
  Longs <- WrittenLongs
  Transfers <- MCTransfers
  Moved <- MCMoved
INVARIANT PathsAgree
PROPERTIES EveryByteInPlace RequestMet
